SPECIFICATION Spec
CONSTANTS
  Symbol <- SharedSymbol
  Filing <- SharedFiling
  Rank <- SharedRank
  SymbolOf <- SharedSymbolOf
  Doc <- SharedDoc
  Notice <- SharedNotice
  Key <- SharedKey
  OwnerOf <- SharedOwnerOf
  KeyOf <- SharedKeyOf
  Verdict <- SharedVerdict
  Floors <- MCFloors
  Shards <- SharedShards
  Seeds <- SharedSeeds
  NoDoc = NoDoc
  NoState = NoState
  MaxFaults = 0
INVARIANT RestatementsReplace
