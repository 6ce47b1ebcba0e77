CONSTANTS
  t1 = t1
  t2 = t2
  t3 = t3
  NoThread = NoThread
  Thread = {t1, t2}
  Calls <- ReconnectCalls
  CallLimit = 3
  BufferSize <- MCBufferSize
  Faults = {"error", "memory"}
SPECIFICATION Spec
INVARIANTS ConnectedHasHandle
