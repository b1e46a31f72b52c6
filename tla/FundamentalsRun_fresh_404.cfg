SPECIFICATION FairSpec
CONSTANTS
  Symbol <- MCSymbol
  Filing <- MCFiling
  Rank <- MCRank
  SymbolOf <- MCSymbolOf
  Doc <- MCDoc
  Notice <- OneNotice
  Key <- MCKey
  OwnerOf <- MCOwnerOf
  KeyOf <- MCKeyOf
  Verdict <- MCVerdict
  Floors <- MCFloors
  Shards <- MCShards
  Seeds <- FreshOnly
  NoDoc = NoDoc
  NoState = NoState
  MaxFaults = 0
PROPERTY DueFilingLands
