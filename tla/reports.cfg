SPECIFICATION Spec
CONSTANTS
  Collation <- MCCollation
  DaySeconds = 1
  History = 1
  PerPage = 1
  PlotWidth = 2
  PlotHeight = 10
  MaxColor = 2
  RoundsUp <- MCRoundsUp
  Samples <- MCSamples
  Others <- MCOthers
  Limit <- MCLimit
  External <- MCExternal
  OwnHost = "ant.org"
  PageQueries <- MCPageQueries
  Databases <- MCDatabases
  Files <- MCFiles
  Top = 0
  Cpus = 2
  WithPage <- MCWithPage
  MaxRows = 3
  MaxNow = 3
INVARIANTS
  DescNeverSkips
  AscNeverRepeats
  MaximaPerHost
  CountedUnderOwnHost
  BarsShowPoints
  PieIsWhole
  TimesWithinASecond
  ParsedAsWritten
PROPERTY TrimmedWereInvisible
CHECK_DEADLOCK FALSE
