\* A top-up on an instrument list rebuilt with a shorter history.
SPECIFICATION Spec
CONSTANTS
  Day <- MCDay
  Sessions <- MCSessions
  Month <- MCMonth
  Year <- MCMonth
  Versions <- MCVersions
  Closures <- MCClosures
  Api <- MCApi
  Kinds <- MCKinds
  None = None
  Asked <- MCAsked
  WholeMonth = 3
  RelistedWithin = 1
  CatchupDays = 2
  MinDrop = 1
  DropShare = 20
  MaxFaults = 1
PROPERTIES
  IsinsAreKept
CHECK_DEADLOCK FALSE
