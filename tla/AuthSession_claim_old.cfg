SPECIFICATION Spec
CONSTANTS
  Devices = {d1}
  NoDevice = NoDevice
  Logins = {l1}
  Requests = {r1}
  Revokers = {v1}
  MaxVersion = 1
  MaxLost = 0
CHECK_DEADLOCK FALSE
INVARIANT OldVersionRejected
