SPECIFICATION Spec
CONSTANTS
  Symbol <- MCSymbol
  Filing <- MCFiling
  Rank <- MCRank
  SymbolOf <- MCSymbolOf
  Doc <- MCDoc
  Notice <- MCNotice
  Key <- MCKey
  OwnerOf <- MCOwnerOf
  KeyOf <- MCKeyOf
  Verdict <- MCVerdict
  Floors <- MCFloors
  Shards <- MCShards
  Seeds <- MCSeeds
  NoDoc = NoDoc
  NoState = NoState
  MaxFaults = 1
INVARIANT TypeOK
INVARIANT StateClaimsOnlyPublishedRows
INVARIANT MarkCoversDocuments
PROPERTY RowsOnlyAdvance
