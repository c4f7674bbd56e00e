CHECK_DEADLOCK FALSE
SPECIFICATION Spec
CONSTANTS
  a1 = a1
  a2 = a2
  w1 = w1
  w2 = w2
  w3 = w3
  App <- MCApp
  Window <- MCWindow
  Owner <- MCOwner
  NonStandard <- MCNonStandard
  NoApp = NoApp
  NoWindow = NoWindow
  MaxActs = 2
  MaxRaises = 1
INVARIANT FocusAgreed
PROPERTY SelectionAimed
