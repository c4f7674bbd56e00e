SPECIFICATION Spec
CONSTANTS
  a1 = a1
  a2 = a2
  w1 = w1
  w2 = w2
  w3 = w3
  App <- MCApp
  Window <- MCWindow
  Owner <- MCOwner
  Begun <- MCBegun
  Space = {1, 2}
  MaxActs = 2
INVARIANTS LayoutKnown LayoutFollows
CHECK_DEADLOCK FALSE
