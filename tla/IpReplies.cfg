CONSTANTS
  Replies <- MCReplies
  Acks <- MCAcks
  StrayLengths = {2, 60, 998}
  Word = 1000
  RequestSize = 36
  BufferSize = 36
  BufferMax = 70
  WaitDefault = 1
  Waits = {1, 2}
  Pieces = {3, 4, 50}
  CallLimit = 2
SPECIFICATION FairSpec
INVARIANTS WholeIpReply IpReadFits RefusedStaysOut
PROPERTIES IpTerminates
