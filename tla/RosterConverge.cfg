\* One admin edits, a node joins by invite; publishing and delivery are fair.
SPECIFICATION FairSpec
CONSTANTS
  a = a
  b = b
  c = c
  Nodes = {a, b, c}
  Founder = a
  Members0 = {b}
  Editors = {a}
  Promotable = {}
  Importers = {c}
  Requesters = {}
  SaveMayFail = FALSE
  Skew <- NoSkew
  MaxFuture = 3
  MaxTime = 3
  MaxEdits = 3
INVARIANT StampIdentifiesRoster
PROPERTY Converges
