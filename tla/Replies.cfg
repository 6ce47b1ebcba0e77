CONSTANTS
  ConnectionTypes = {"PTP_USB", "PTP_IP_USB"}
  MaxPacketSize = 8
  BufferSize = 20
  WaitDefault = 1
  Waits = {1, 3}
  Commands <- SmallCommands
  CallLimit = 2
  Faults = {"ignore"}
SPECIFICATION Spec
INVARIANTS TypeOK ReadFits WholeReply NoRepeat
PROPERTIES ResentOnlyIfIgnored
