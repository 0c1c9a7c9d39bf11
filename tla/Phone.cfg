\* Overlapping attempts, a flush, a restart, a network that comes and goes; or a request of
\* a screen, two runs of the effect, two tokens and one failure.
SPECIFICATION PhoneSpec
CONSTANTS
  Scans = {s1, s2}
  Callers = {c1, c2}
  MaxQueue = 2
  MaxRetries = 1
  Concurrency = 1
  MaxScans = 3
  MaxLost = 0
  MaxRestarts = 1
  Screens = {p1}
  Runs = {1, 2}
  MaxTokens = 2
  MaxTrouble = 1
CHECK_DEADLOCK FALSE
INVARIANTS QueuedIsKept QueueBounded  NobodyWaitsInVain
PROPERTIES QueueDrains ImplementsPhoneQueue AppSettles
