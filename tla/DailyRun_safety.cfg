\* The daily run: three sessions and a holiday, one fault of any kind, hosted and laptop runs.
SPECIFICATION Spec
CONSTANTS
  Day <- MCDay
  Version <- MCVersion
  Traded <- MCTraded
  OpenDays <- MCOpenDays
  Legacy <- MCLegacy
  Archive <- MCArchive
  Seeded <- MCSeeded
  Series <- MCSeries
  Year <- MCYear
  MaxNewPercent = 40
  ActiveWindow = 2
  CatchupDays = 2
  TrailingDays = 2
  BackfillDays = 2
  MinRows = 1
  MaxRows = 4
  MinForGate = 2
  LargeMean = 4
  Tight = 15
  Loose = 50
  Shortfall = 15
  Unit = 2
  BseSeedDays = 1
  BseMaxCatchup = 2
  MaxFaults = 1
INVARIANTS
  TypeOK
  ListsAreRebuilds
  SightingsAreReal
  CacheIsCurrent
  GuardsNeverRefuse
PROPERTIES
  BseNeverSkipsASession
  WindowIsAccountedFor
