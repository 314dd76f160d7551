\* The recommended fee is the minimum, or 1.2 times the minimum.
SPECIFICATION Spec
CONSTANTS
  SOL = SOL
  BONK = BONK
  USDC = USDC
  TOKEN_A_AMOUNT = 2
  SLIPPAGE = 5
  Quotes = {3, 4}
  Extremes = {0, 4000}
  Lifetime = 2
  Finality = 1
  MaxDelay = 2
INVARIANT
  MinimumFeePaid
CHECK_DEADLOCK FALSE
