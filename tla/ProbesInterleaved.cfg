SPECIFICATION Spec
CONSTANTS
  None = None
  root = root
  out = out
  t1 = t1
  t2 = t2
  Root = root
  Outsider = {out}
  Path <- MCPath
  PathLen <- MCPathLen
  Cut <- MCCut
  Fd = {3, 4}
  PATH_BUF_SZ = 4
  Task = {root, out, t1, t2}
  Call <- MixedCall
  PageFault = {TRUE, FALSE}
  MaxTracked = 2
  MaxEnter = 1
  RingSlots = 2
  MaxOps = 3
INVARIANTS
  TypeOK
  StashIsCurrent
  Genuine
  NoSilentLoss
  TrackedIsTree
  ForkComesFirst
SYMMETRY Interchangeable
CHECK_DEADLOCK FALSE
