\* An operator who publishes inside the lock, next to fundamentals-daily.
SPECIFICATION FairSpec
CONSTANTS
  daily = daily
  fundamentals = fundamentals
  laptop = laptop
  NoEntry = NoEntry
  NoManifest = NoManifest
  Free = Free
  Dataset <- MCDataset
  Content <- MCContent
  RowsOf <- MCRowsOf
  DateOf <- MCDateOf
  Runner = {fundamentals, laptop}
  Owned <- MCOwned
  Writes <- MCWrites
  Primary <- MCPrimary
  Retires <- MCRetires
  MayShrink = {}
  AllowShrink = {laptop}
  DeltaWriter = {}
  Locked = {fundamentals, laptop}
  Persistent = {laptop}
  Seeds <- OneSeed
  Strays <- MCStrays
  MaxPublish = 3
  MaxFaults = 1
INVARIANTS
  BuildsOnWhatItRead
PROPERTIES
  AdmittedRunCompletes
  ImplementsCatalog
