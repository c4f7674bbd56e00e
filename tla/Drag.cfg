CHECK_DEADLOCK FALSE
SPECIFICATION Spec
CONSTANTS
  Unit = 60
  Screen <- MCScreen
  Gap = 1
  OuterGap = 1
  Bar = 3
  Aspect = 0
  MinColumn = 5
  Window = {1, 2, 3}
  NoWindow = 0
  Shapes <- MCShapes
  Points <- MCPoints
  EdgePercent = 15
  LivePreview = TRUE
  Minimum <- MCMinimum
  MaxActs = 4
INVARIANT
  DragEnds
PROPERTIES
  DropAsPreviewed
