\* A quote that outlasts the check interval.
SPECIFICATION Spec
CONSTANTS
  t1 = t1
  t2 = t2
  Tasks = {t1, t2}
  Opening <- MCOpening
  Whole = 10000
  Gain = 5000
  Slippage = 2500
  OutAmounts = {2, 4, 7}
  Receipts = {3, 6}
  Faults = {"slow quote"}
  MaxSwaps = 2
INVARIANT
  OneSwapAtATime
CHECK_DEADLOCK FALSE
