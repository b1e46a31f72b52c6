\* The monthly snapshots, or the index ledger, one or the other.
SPECIFICATION MCSpec
CONSTANTS
  Published <- MCPublished
  KeepNewest = 2
  Month <- MCMonth
  Job <- MCJob
  Restored <- MCRestored
  None = None
  MaxFaults = 1
  Day <- MCDay
  Sessions <- MCSessions
  Releases <- MCReleases
  Overrides <- MCOverrides
  GraceDays = 1
  LookbackDays = 3
  Index <- MCIndex
  Stock <- MCStock
  Isin <- MCIsin
  Membership <- MCMembership
  Lag = 1
  Lead = 1
  Master <- MCStock
  MinRows = 2
  MinMembers = 2
  ShrinkFloor = 50
  StaleSessions = 1
  cron = cron
  dispatch = dispatch
INVARIANTS
  LedgerTypeOK
  ListIsAnnounced
  NeverSilentlyStale
  OnlyAFailureCostsAMonth
  RestoreIsAllOrNothing
PROPERTIES
  IndicesAreKept
  RecoveryPointsSurvive
CHECK_DEADLOCK FALSE
