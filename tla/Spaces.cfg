CHECK_DEADLOCK FALSE
SPECIFICATION Spec
CONSTANTS
  d1 = d1
  d2 = d2
  s1 = s1
  s2 = s2
  s3 = s3
  Display <- MCDisplay
  Space <- MCSpace
  SpacesOf <- MCSpacesOf
  Grouped = {s1}
  NoSpace = NoSpace
  Arrangements <- MCArrangements
  OneSpaceModes = {TRUE, FALSE}
  DefaultDisable = FALSE
  Commands <- MCCommands
  Retries = 2
  MaxActs = 3
INVARIANTS
  RetriesSound
  ReactorFollows
  HotkeysFollow
  StatusTruthful
