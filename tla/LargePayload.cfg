CONSTANTS
  t1 = t1
  t2 = t2
  t3 = t3
  NoThread = NoThread
  Thread = {t1, t2}
  Calls <- LargePayloadCalls
  CallLimit = 1
  BufferSize <- MCBufferSize
  Faults = {}
SPECIFICATION Spec
INVARIANTS Exclusion
