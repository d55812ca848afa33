SPECIFICATION CSpec
CONSTANTS
  None = None
  D = D
  E = E
  F = F
  G = G
  L = L
  C = C
  R = R
  Token <- MCToken
  NcToken <- MCNcToken
  Inline <- MCInline
  Dashed <- MCDashed
  NotGlob = {"["}
  Argv <- WayArgv
  Place <- WayPlace
  Parent <- MCParent
  Kind <- WayKind
  Old <- WayOld
  NoBtime = {}
  Path <- WayPath
  Target <- WayTarget
  Via <- MCVia
  Home <- MCHome
  Inside <- MCInside
  Told <- WayTold
  LongPath = {}
  NotUtf8 = {}
  SystemPath = {"/l", "/l/f"}
  HistoryFile = {}
  BuildArtifact = {"/w/x/d/f"}
  Matched <- MCMatched
  MaxEvents = 2
  MaxOther = 2
  Depth <- MCDepth
  Shown <- MCShown
INVARIANTS
  OnlyListedGoes
  OlderFilesSpared
PROPERTIES
  DeletionImplementsRemoval
CHECK_DEADLOCK FALSE
