\* Three calls, one failure, a renewal and two delays fit the time to live; two buses,
\* two runs of the heartbeat job that may overlap, a reconciliation, one failure.
SPECIFICATION JobsSpec
CONSTANTS
  Calls = {c1, c2, c3}
  NoCall = NoCall
  TTL = 5
  Second = 1
  MaxDelay = 1
  MaxFaults = 1
  Buses = {b1, b2}
  Checks = {r1, r2}
  MaxGpsFaults = 1
CHECK_DEADLOCK FALSE
INVARIANTS CountAgrees
PROPERTIES ReleaseIsOwn ImplementsMutex EndedCallsFree StatusFollows
