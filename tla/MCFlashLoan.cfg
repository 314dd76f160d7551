\* Transactions of up to three instructions; a fee of 50 % instead of 5 %,
\* so that amounts of one digit show both a fee and its rounding to zero.
SPECIFICATION Spec
CONSTANTS
  L1 = L1
  L2 = L2
  U1 = U1
  U2 = U2
  LenderAtas = {L1, L2}
  UserAtas = {U1, U2}
  U64_MAX = 7
  FEE = 5000
  FEE_BASE = 10000
  ID = ID
  OtherProgram = OtherProgram
  Short = Short
  InitialBalances <- MCInitialBalances
  Transactions <- MCTransactions
  Invocations <- MCInvocations
  MaxLent = 4
INVARIANTS
  TypeOK
  LoanBounded
PROPERTIES
  LenderNeverLoses
  FeePaid
