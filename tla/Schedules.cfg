\* The corporate actions, the ladder of the daily run, or the evening runs.
SPECIFICATION MCSpec
CONSTANTS
  Day <- MCDay
  Sessions <- MCSessions
  Month <- MCMonth
  Year <- MCMonth
  Versions <- MCVersions
  Closures <- MCClosures
  Api <- MCApi
  Kinds <- MCKinds
  None = None
  Asked <- MCAsked
  WholeMonth = 3
  RelistedWithin = 1
  CatchupDays = 2
  MinDrop = 1
  DropShare = 20
  MaxFaults = 1
  NoDoc = NoDoc
  NoState = NoState
INVARIANTS
  TypeOK
  OneRowPerAction
  UpcomingIsKnown
PROPERTIES
  TopUpIsTheRecord
  IsinsFollowTheList
  NewestSessionLands
  DueFilingLands
CHECK_DEADLOCK FALSE
