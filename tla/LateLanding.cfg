\* A transaction that lands after the bot has given it up.
SPECIFICATION Spec
CONSTANTS
  t1 = t1
  t2 = t2
  Tasks = {t1, t2}
  Opening <- MCOpening
  Whole = 10000
  Gain = 5000
  Slippage = 2500
  OutAmounts = {2, 4, 7}
  Receipts = {3, 6}
  Faults = {"lost answer"}
  MaxSwaps = 2
INVARIANT
  GainEachTrade
CHECK_DEADLOCK FALSE
