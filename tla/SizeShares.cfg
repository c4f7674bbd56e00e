CHECK_DEADLOCK FALSE
SPECIFICATION Spec
CONSTANTS
  Unit = 1000
  Screen <- MCScreen
  Gap = 1
  OuterGap = 1
  Bar = 3
  Aspect = 0
  MinColumn = 5
  Window = {1, 2, 3}
  NoWindow = 0
  Handled = {1, 2}
  NoFrame <- MCNoFrame
  Shapes <- MCShapes
  Natures <- MCNatures
  Shares = {500, 333}
  Deltas = {7}
  Percents = {100}
  MaxAttempts = 3
  MaxWrites = 4
  MaxActs = 2
INVARIANTS
  RoomForAll
  LocksHonoured
  WritesBounded
PROPERTIES
  ResizeTracks
