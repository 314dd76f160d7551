\* Four runs of the commands, one after the other or at the same time, with the same blockhash or not; the third g13 is too much for a u64.
SPECIFICATION FairSpec
CONSTANTS
  Runs = {1, 2, 3, 4}
  MaxHash = 2
  MintIds = {"mint1"}
  signer = signer
  addr2 = addr2
  Holders = {signer, addr2}
  MintUI = 2
  SendUI = 1
  UNIT = 2
  U64_MAX = 9
INVARIANTS
  TypeOK
  NoMintLost
  TokensReported
PROPERTY
  Ends
CHECK_DEADLOCK FALSE
