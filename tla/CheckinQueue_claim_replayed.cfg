\* A check-in queued while the queue is being flushed.
SPECIFICATION Spec
CONSTANTS
  Scans = {s1, s2}
  Callers = {c1}
  MaxQueue = 2
  MaxRetries = 1
  Concurrency = 1
  MaxScans = 2
  MaxLost = 0
  MaxRestarts = 0
CHECK_DEADLOCK FALSE
INVARIANT QueuedIsReplayed
