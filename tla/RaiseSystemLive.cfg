CHECK_DEADLOCK FALSE
SPECIFICATION SysFairSpec
CONSTANTS
  a1 = a1
  a2 = a2
  w1 = w1
  w2 = w2
  w3 = w3
  w4 = w4
  s1 = s1
  s2 = s2
  NoSpace = NoSpace
  App <- MCApp
  Window <- MCWindow
  Owner <- MCOwner
  NoWindow = NoWindow
  NoSequence = NoSequence
  Requests <- MCRequests
  MaxSeq = 1
PROPERTY
  EveryRaiseEnds
