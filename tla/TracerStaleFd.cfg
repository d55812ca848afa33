SPECIFICATION QuietSpec
CONSTANTS
  None = None
  root = root
  out = out
  t1 = t1
  Root = root
  Task = {root}
  Outsider = {}
  Call <- FdCall
  Path <- MCPath
  PathLen <- MCPathLen
  Cut <- MCCut
  Absolute <- MCAbsolute
  Clean <- MCClean
  Join <- MCJoin
  Where <- MCWhere
  Dir <- MCDir
  Home <- MCHome
  Fd = {3, 4}
  PageFault = {FALSE}
  PATH_BUF_SZ = 6
  MaxTracked = 2
  MaxEnter = 2
  RingSlots = 5
  MaxOps = 4
  ThreadClone = {FALSE}
  MAX_EVENTS = 5
PROPERTY
  FchdirFromMap
CHECK_DEADLOCK FALSE
