\* The workflows of the repository, all inside the concurrency group.
SPECIFICATION Spec
CONSTANTS
  daily = daily
  fundamentals = fundamentals
  laptop = laptop
  NoEntry = NoEntry
  NoManifest = NoManifest
  Free = Free
  Dataset <- MCDataset
  Content <- MCContent
  RowsOf <- MCRowsOf
  DateOf <- MCDateOf
  Runner = {daily, fundamentals}
  Owned <- MCOwned
  Writes <- MCWrites
  Primary <- MCPrimary
  Retires <- MCRetires
  MayShrink = {}
  AllowShrink = {}
  DeltaWriter = {daily}
  Locked = {daily, fundamentals}
  Persistent = {}
  Seeds <- AnySeed
  Strays <- MCStrays
  MaxPublish = 3
  MaxFaults = 1
INVARIANTS
  TypeOK
  ManifestComplete
  UploadsNeverClash
  RefusedOnlyForItsData
PROPERTIES
  ReplacesOnlyWhatItSynced
  OnlyOwnDeadAssetsCollected
  ImplementsCatalog
