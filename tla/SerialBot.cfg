\* Quotes are answered within the interval, every answer arrives: one swap at a time.
SPECIFICATION FairSpec
CONSTANTS
  t1 = t1
  t2 = t2
  Tasks = {t1, t2}
  Opening <- MCOpening
  Whole = 10000
  Gain = 5000
  Slippage = 2500
  OutAmounts = {2, 4, 7}
  Receipts = {3, 6}
  Faults = {}
  MaxSwaps = 4
INVARIANTS
  OneTaskAtATime
  ReturnsGrow
  NextTradeFollows
  LogFollowsLedger
PROPERTIES
  ImplementsTrader
  LandedIsLogged
CHECK_DEADLOCK FALSE
