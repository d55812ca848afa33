SPECIFICATION QuietSpec
CONSTANTS
  None = None
  root = root
  out = out
  t1 = t1
  Root = root
  Task = {root, t1}
  Outsider = {}
  Call <- MoveCall
  Path <- MCPath
  PathLen <- MCPathLen
  Cut <- MCCut
  Absolute <- MCAbsolute
  Clean <- MCClean
  Join <- MCJoin
  Where <- MCWhere
  Dir <- MCDir
  Home <- MCHome
  Fd = {3}
  PageFault = {FALSE}
  PATH_BUF_SZ = 6
  MaxTracked = 2
  MaxEnter = 2
  RingSlots = 5
  MaxOps = 3
  ThreadClone = {TRUE}
  MAX_EVENTS = 5
INVARIANT
  CreationBase
CHECK_DEADLOCK FALSE
