\* A grace window that outlasts the stale limit, as CONSTITUENTS_*'s does, and
\* NSE's lists of the day itself.
SPECIFICATION LedgerSpec
CONSTANTS
  Index <- MCIndex
  Stock <- MCStock
  Isin <- MCIsin
  Day <- MCDay
  Sessions <- MCSessions
  Membership <- MCMembership
  Lag = 0
  Lead = 0
  Releases <- MCReleases
  Overrides <- MCOverrides
  Master <- MCStock
  MinRows = 2
  MinMembers = 2
  ShrinkFloor = 50
  StaleSessions = 1
  GraceDays = 3
  LookbackDays = 3
INVARIANT NeverSilentlyStale
CHECK_DEADLOCK FALSE
