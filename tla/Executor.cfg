CHECK_DEADLOCK FALSE
SPECIFICATION Spec
CONSTANTS
  Task = {"reactor", "raise"}
  NoTask = "none"
  Forwards <- MCForwards
  MaxSends = 2
  MaxFires = 1
  MaxStops = 1
INVARIANT
  NothingForgotten
PROPERTY
  EveryEventHandled
