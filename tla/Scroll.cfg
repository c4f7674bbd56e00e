CHECK_DEADLOCK FALSE
SPECIFICATION Spec
CONSTANTS
  Unit = 60
  Screen <- MCScreen
  Gap = 1
  OuterGap = 1
  Bar = 3
  Aspect = 0
  MinColumn = 5
  Window = {1, 2, 3}
  Elsewhere = 0
  Starts <- MCStarts
  VisibleColumns = 2
  Presets <- MCPresets
  FirstSeen <- MCFirstSeen
  Points <- MCPoints
  Edge = 3
  Threshold = 4
  Deltas <- MCDeltas
  HalfWay = 14
  MaxActs = 3
INVARIANTS
  FocusedInView
PROPERTIES
  KindChangeKeeps
  DragFollows
