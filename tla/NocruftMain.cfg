SPECIFICATION FairSpec
CONSTANTS
  None = None
  root = root
  out = out
  t1 = t1
  Root = root
  Task = {root, t1}
  Outsider = {}
  Call <- CreationAndMove
  Path <- MCPath
  PathLen <- MCPathLen
  Cut <- MCCut
  Absolute <- MCAbsolute
  Clean <- MCClean
  Join <- MCJoin
  Where <- MCWhere
  Dir <- MCDir
  Home <- MCHome
  Fd = {3}
  PageFault = {FALSE}
  PATH_BUF_SZ = 6
  MaxTracked = 2
  MaxEnter = 2
  RingSlots = 2
  MaxOps = 3
  ThreadClone = {FALSE}
  MAX_EVENTS = 2
  DrainPolls = 2
INVARIANTS
  MainTypeOK
  RootEventsHandled
  CreationsReachTheFilters
  ReportIsExact
PROPERTIES
  StraightToSummary
  SummaryComes
  ReportImplementsLedger
CHECK_DEADLOCK FALSE
