CONSTANTS
  d1 = d1
  d2 = d2
  Device = {d1, d2}
  PacketSize <- MCPacketSize
  Null = null
  Settings <- MCSettings
  CallLimit = 6
SPECIFICATION Spec
CHECK_DEADLOCK FALSE
INVARIANTS ConnectedClaimed SendsToDevice CallerLockKept ParametersMatch
