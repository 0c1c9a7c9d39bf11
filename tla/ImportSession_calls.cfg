\* Two executions, retries and edits of two rows, one crash; an incident with three
\* tasks, two deliveries, an operator and one failure; two activations of a delegation,
\* one ending besides the monitor's, one failure; a CRITICAL and a BATCH sender, small
\* thresholds, two failures to open the breaker or give a job up, and one more.
SPECIFICATION OfficeSpec
CONSTANTS
  Rows = {1, 2}
  Phones = {p1, p2}
  Says = {a, b}
  Nothing = Nothing
  Executors = {x1, x2}
  Editors = {e1}
  MaxCalls = 3
  MaxCrashes = 1
  Reports = {i1}
  TaskIds = {k1, k2, k3}
  Deliveries = {d1, d2}
  Operators = {o1}
  NoWork = NoWork
  MaxFailures = 1
  Activations = {a1, a2}
  NoOne = NoOne
  Closers = {g1}
  Monitors = {m1}
  MaxDelegationFaults = 1
  Senders = {s1, s2}
  CriticalSenders = {s1}
  HighSenders = {}
  BatchSenders = {s2}
  DropAt = 0
  DegradeAt = 1
  CrisisAt = 2
  Others = 3
  Threshold = 2
  Attempts = 2
  MaxMishaps = 3
CHECK_DEADLOCK FALSE
INVARIANTS RowsTellOutcome StatusAgrees NeverForgotten OneDelegate NothingVanishes
PROPERTIES ImportingEnds OfficersFirst UnattendedEscalates DelegationsEnd BreakerRecovers
