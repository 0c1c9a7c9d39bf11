\* A claim of the documentation, refuted.
SPECIFICATION Spec
CONSTANTS
  Students = {s1}
  Nonces = {n1, n2}
  Scanners = {r1, r2}
  Markers = {m1}
  Enders = {e1}
  EventActors = {}
  MaxStarts = 1
  MaxBoarded = 3
  MaxCrashes = 0
CHECK_DEADLOCK FALSE
INVARIANT OnlyNoShowsAbsent
