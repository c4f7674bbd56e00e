CHECK_DEADLOCK FALSE
SPECIFICATION FairSpec
CONSTANTS
  w1 = w1
  w2 = w2
  Window = {w1, w2}
  Layouts <- MCLayouts
  Frames = 2
  AnimateModes = {TRUE, FALSE}
  EnhancedUi = TRUE
  MaxAttempts = 2
  MaxCommands = 2
  MaxMoves = 1
INVARIANTS
  NoUnknownFrame
  FramesSound
  LayoutAsAsked
PROPERTY
  WritesArrive
