\* Two nodes edit with different clocks, one joins by invite, join requests come in, writes may fail.
SPECIFICATION Spec
CONSTANTS
  a = a
  b = b
  c = c
  Nodes = {a, b, c}
  Founder = a
  Members0 = {b}
  Editors = {a, b}
  Promotable = {b}
  Importers = {c}
  Requesters = {b}
  SaveMayFail = TRUE
  Skew <- AheadB
  MaxFuture = 0
  MaxTime = 2
  MaxEdits = 1
CHECK_DEADLOCK FALSE
INVARIANTS TypeOK RostersComeFromEdits NoSelfPromotion
