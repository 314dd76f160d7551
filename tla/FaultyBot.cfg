\* All the faults: overlapping callbacks, transactions given up, failed writes, crashes and restarts.
SPECIFICATION FairSpec
CONSTANTS
  t1 = t1
  t2 = t2
  Tasks = {t1, t2}
  Opening <- MCOpening
  Whole = 10000
  Gain = 5000
  Slippage = 2500
  OutAmounts = {2, 4, 7}
  Receipts = {3, 6}
  Faults = {"slow quote", "lost answer", "disk", "restart"}
  MaxSwaps = 2
INVARIANTS
  TypeOK
  FlagTracksSwap
  LogIsTruthful
PROPERTIES
  KeepsWatching
CHECK_DEADLOCK FALSE
