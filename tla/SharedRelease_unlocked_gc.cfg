\* An operator publishes while data-daily does, outside the lock.
SPECIFICATION Spec
CONSTANTS
  daily = daily
  fundamentals = fundamentals
  laptop = laptop
  NoEntry = NoEntry
  NoManifest = NoManifest
  Free = Free
  Dataset <- MCDataset
  Content <- MCContent
  RowsOf <- MCRowsOf
  DateOf <- MCDateOf
  Runner = {daily, laptop}
  Owned <- MCOwned
  Writes <- MCWrites
  Primary <- MCPrimary
  Retires <- MCRetires
  MayShrink = {}
  AllowShrink = {}
  DeltaWriter = {}
  Locked = {daily}
  Persistent = {laptop}
  Seeds <- OneSeed
  Strays <- NoStrays
  MaxPublish = 3
  MaxFaults = 0
INVARIANTS
  ManifestComplete
