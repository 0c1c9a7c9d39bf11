\* A login, a request, a revocation and a deactivation, with a lost call; or an
\* account with a login, a request of its own, a handler, two changes of version and one
\* call or handler that fails.
SPECIFICATION SessionsSpec
CONSTANTS
  Devices = {d1}
  NoDevice = NoDevice
  Logins = {l1}
  Requests = {r1}
  Revokers = {v1}
  MaxVersion = 2
  MaxLost = 1
  NoCopy = NoCopy
  NoAdmission = NoAdmission
  Roles = {a1, a2}
  AdminLogins = {m1}
  AdminRequests = {q1}
  Handlers = {h1}
  MaxAdminVersion = 2
  MaxAdminLost = 1
CHECK_DEADLOCK FALSE
INVARIANTS CurrentSession AdminDecisionsHold
PROPERTIES RevokedStaysOut ChangesReachSessions
