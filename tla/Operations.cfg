CONSTANTS
  t1 = t1
  t2 = t2
  t3 = t3
  NoThread = NoThread
  Thread = {t1, t2, t3}
  Calls <- OperationCalls
  CallLimit = 1
  BufferSize <- MCBufferSize
  Faults = {"ignore", "drop"}
SPECIFICATION Spec
INVARIANTS TypeOK LockInv Exclusion OwnReply
PROPERTIES BufferGuarded TransactionOrder
SYMMETRY ThreadSymmetry
