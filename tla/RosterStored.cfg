\* A join request arrives between an edit and its reload.
SPECIFICATION Spec
CONSTANTS
  a = a
  b = b
  c = c
  Nodes = {a, b, c}
  Founder = a
  Members0 = {b}
  Editors = {a}
  Promotable = {}
  Importers = {c}
  Requesters = {c}
  SaveMayFail = FALSE
  Skew <- NoSkew
  MaxFuture = 0
  MaxTime = 2
  MaxEdits = 2
PROPERTY StoredStampNeverGoesBack
