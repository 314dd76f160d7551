\* One contract with two options, two signers, on a config that an earlier
\* build left with its mint set, and on a fresh deployment.
SPECIFICATION Spec
CONSTANTS
  s1 = s1
  s2 = s2
  Signers = {s1, s2}
  OptionIds = {"owner-0", "an id of 21 bytes...."}
  AssetNames <- MCAssetNames
  NameLen <- MCNameLen
  LEN = 2
  OPTION_ID_MAX_LEN = 20
  ASSET_NAME_MAX_LEN = 20
  OPTION_SHARES = 2
  U32 = 4
  U64_MAX = 5
  DefaultKey = DefaultKey
  Mint = Mint
  TokenProgram = TokenProgram
  VAULT = VAULT
  VAULTATA = VAULTATA
  EarlierConfigs <- MCEarlierConfigs
  InitialTokens <- MCInitialTokens
  Listings <- MCListings
  Amounts = {0, 1, 2, 5}
  Words = {1}
  MaxTime = 1
  MaxDonated = 1
SYMMETRY MCSymmetry
INVARIANTS
  TypeOK
  AccountGraph
  Reconciled
  FullExit
  NobodyTrapped
  UnsetMintClosesMarket
PROPERTIES
  TermsFrozen
  TradeConserves
  ImplementsEscrow
