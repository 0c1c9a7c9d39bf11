\* Two students, two tokens, two scans, a manual mark and the override, before and after the start.
SPECIFICATION Spec
CONSTANTS
  Students = {s1, s2}
  Nonces = {n1, n2}
  Scanners = {r1, r2}
  Markers = {m1}
  Enders = {}
  EventActors = {"admin"}
  MaxStarts = 1
  MaxBoarded = 3
  MaxCrashes = 0
CHECK_DEADLOCK FALSE
SYMMETRY Symmetry
INVARIANTS NonceAdmitsOnce BoardingsAudited BoardedCoversLogs
