SPECIFICATION TSpec
CONSTANTS
  None = None
  root = root
  out = out
  t1 = t1
  Root = root
  Task = {root, t1}
  Outsider = {}
  Call <- MoveCall
  Path <- MCPath
  PathLen <- MCPathLen
  Cut <- MCCut
  Absolute <- MCAbsolute
  Clean <- MCClean
  Join <- MCJoin
  Where <- MCWhere
  Dir <- MCDir
  Home <- MCHome
  Fd = {3}
  PageFault = {FALSE}
  PATH_BUF_SZ = 6
  MaxTracked = 2
  MaxEnter = 2
  RingSlots = 2
  MaxOps = 4
  ThreadClone = {TRUE, FALSE}
  MAX_EVENTS = 1
INVARIANTS
  TracerTypeOK
  ReportedWhereMade
  CaughtUp
  NoStaleEntries
  CapKeepsPrefix
CHECK_DEADLOCK FALSE
