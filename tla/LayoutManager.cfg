CHECK_DEADLOCK FALSE
SPECIFICATION Spec
CONSTANTS
  Unit = 2
  z1 = z1
  z2 = z2
  Space = {1, 2}
  Size = {z1, z2}
  Layout = {1, 2, 3, 4}
  App <- MCApp
  Floats = {3}
  X <- MCX
  NoWindow = 0
  Deltas = {1}
  MaxEvents = 4
  MaxCommands = 3
  MaxSteps = 6
SYMMETRY MCSymmetry
INVARIANTS
  MappingSound
  LayoutsSound
  FloatingNotTiled
PROPERTIES
  MappingSpec
  RearrangesOnly
  ModifiesItsOwn
