SPECIFICATION Spec
CONSTANTS
  Rows = {1}
  Phones = {p1}
  Says = {a}
  Nothing = Nothing
  Executors = {x1, x2}
  Editors = {}
  MaxCalls = 2
  MaxCrashes = 0
CHECK_DEADLOCK FALSE
INVARIANT ExecutionsDisjoint
