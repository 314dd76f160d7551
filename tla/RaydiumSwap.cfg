\* Either orientation of the pool, from the file or from the chain; blockhashes live for 2 blocks.
SPECIFICATION FairSpec
CONSTANTS
  SOL = SOL
  BONK = BONK
  USDC = USDC
  TOKEN_A_AMOUNT = 2
  SLIPPAGE = 5
  Quotes = {3, 4}
  Extremes = {4000}
  Lifetime = 2
  Finality = 1
  MaxDelay = 2
INVARIANTS
  TypeOK
PROPERTIES
  SellsSolForBonk
  ExpiredIsFinal
  ImplementsLimitOrder
  Ends
CHECK_DEADLOCK FALSE
