CONSTANTS
  t1 = t1
  t2 = t2
  t3 = t3
  NoThread = NoThread
  Thread = {t1, t2}
  Calls <- DisconnectCalls
  CallLimit = 2
  BufferSize <- MCBufferSize
  Faults = {"ignore", "error", "drop"}
SPECIFICATION FairSpec
INVARIANTS NoTransferAfterKill
PROPERTIES GoodbyeIsLast EveryCallReturns ImplementsBus
