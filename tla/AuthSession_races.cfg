\* Two logins from two devices against requests and a revocation.
SPECIFICATION Spec
CONSTANTS
  Devices = {d1, d2}
  NoDevice = NoDevice
  Logins = {l1, l2}
  Requests = {r1}
  Revokers = {v1}
  MaxVersion = 1
  MaxLost = 1
CHECK_DEADLOCK FALSE
SYMMETRY Symmetry
INVARIANTS RevocationHolds DeviceHolds
