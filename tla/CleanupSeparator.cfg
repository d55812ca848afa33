SPECIFICATION CSpec
CONSTANTS
  None = None
  D = D
  E = E
  F = F
  G = G
  L = L
  C = C
  R = R
  Token <- MCToken
  NcToken <- MCNcToken
  Inline <- MCInline
  Dashed <- MCDashed
  NotGlob = {"["}
  Argv <- MCLine
  Place <- ListPlace
  Parent <- MCParent
  Kind <- ListKind
  Old <- ListOld
  NoBtime = {C}
  Path <- ListPath
  Target <- ListTarget
  Via <- MCVia
  Home <- MCHome
  Inside <- MCInside
  Told <- MCTold
  LongPath = {"/w/c"}
  NotUtf8 = {"/w/r"}
  SystemPath = {"/l", "/l/f"}
  HistoryFile = {"/w/c"}
  BuildArtifact = {"/w/x/d/f"}
  Matched <- MCMatched
  MaxEvents = 0
  MaxOther = 0
  Depth <- MCDepth
  Shown <- MCShown
INVARIANT SeparatorReachesChild
CHECK_DEADLOCK FALSE
