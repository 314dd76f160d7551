\* The host of the repository.
SPECIFICATION HostSpec
CONSTANTS
  t1 = t1
  t2 = t2
  Tasks = {t1, t2}
  Opening <- MCOpening
  Whole = 10000
  Gain = 5000
  Slippage = 2500
  OutAmounts = {2, 4, 7}
  Receipts = {3, 6}
  Faults = {}
  MaxSwaps = 1
PROPERTY
  PriceChecked
CHECK_DEADLOCK FALSE
