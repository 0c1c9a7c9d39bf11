\* Two starts, one of which may come late, and two devices that end the trip: a check-in, the deliveries of two tasks.
SPECIFICATION FairSpec
CONSTANTS
  Students = {s1}
  Nonces = {n1}
  Scanners = {r1}
  Markers = {}
  Enders = {e1, e2}
  EventActors = {}
  MaxStarts = 2
  MaxBoarded = 1
  MaxCrashes = 1
CHECK_DEADLOCK FALSE
PROPERTIES PendingIsFinalised TasksAreAcknowledged NoneAbandoned ImplementsAttendance
