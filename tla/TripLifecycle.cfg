\* Overlapping starts, an end, a deactivation, a lost Redis write, a reconciliation; a
\* kiosk opened twice, connected twice, one error.
SPECIFICATION TripsSpec
CONSTANTS
  Trips = {t1}
  NoTrip = NoTrip
  Starters = {h1, h2}
  Enders = {e1}
  Readers = {q1}
  Deactivations = 1
  MaxLost = 1
  KioskTrips = {k1, k2}
  NoKioskTrip = NoKioskTrip
  Rotations = {n1, n2, n3, n4}
  NoRotation = NoRotation
  MaxConns = 2
  MaxOpens = 2
  MaxErrors = 1
CHECK_DEADLOCK FALSE
INVARIANTS ReconciliationHeals EndedHasTask LeakNeedsOverlap
PROPERTIES EntriesFade RotationNeverStops
