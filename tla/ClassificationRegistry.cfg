\* The sector classification under its crons, with two faults.
SPECIFICATION FairSpec
CONSTANTS
  Listing <- MCListing
  Rank <- MCPlace
  Class <- MCClass
  None = None
  Sector <- MCSector
  Seed <- MCSeed
  Page <- MCPage
  Late <- MCLate
  Leaves <- MCLeaves
  Renames <- MCRenames
  Unreadable <- MCUnreadable
  RetryDelays <- MCRetryDelays
  BatchSize = 1
  MaxBatches = 3
  BootstrapSize = 2
  MinOverlap = 50
  MinCoverage = 99
  MaxChanged = 50
  MinDiversity = 50
  MaxFaults = 2
INVARIANTS
  TypeOK
  ArtifactFollowsRegistry
  AskedOnce
PROPERTIES
  NothingIsForgotten
  EveryListingIsPublished
