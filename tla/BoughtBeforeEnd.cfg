\* Buying after the expiry time of the option.
SPECIFICATION Spec
CONSTANTS
  s1 = s1
  s2 = s2
  Signers = {s1, s2}
  OptionIds = {"owner-0"}
  AssetNames <- MCAssetNames
  NameLen <- MCNameLen
  LEN = 2
  OPTION_ID_MAX_LEN = 20
  ASSET_NAME_MAX_LEN = 20
  OPTION_SHARES = 2
  U32 = 4
  U64_MAX = 5
  DefaultKey = DefaultKey
  Mint = Mint
  TokenProgram = TokenProgram
  VAULT = VAULT
  VAULTATA = VAULTATA
  EarlierConfigs <- MCEarlierConfigs
  InitialTokens <- MCInitialTokens
  Listings <- MCListings
  Amounts = {0, 1, 2, 5}
  Words = {1}
  MaxTime = 1
  MaxDonated = 1
SYMMETRY MCSymmetry
PROPERTY
  BoughtBeforeEnd
