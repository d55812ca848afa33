SPECIFICATION Spec
CONSTANTS
  None = None
  root = root
  out = out
  t1 = t1
  t2 = t2
  Root = root
  Outsider = {}
  Task = {root, t1}
  Call <- MixedCall
  Path <- MCPath
  PathLen <- MCPathLen
  Cut <- MCCut
  Fd = {3, 4}
  PageFault = {FALSE}
  PATH_BUF_SZ = 4
  MaxTracked = 2
  MaxEnter = 2
  RingSlots = 4
  MaxOps = 2
INVARIANT
  WholeTreeTracked
CHECK_DEADLOCK FALSE
