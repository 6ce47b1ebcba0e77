CONSTANTS
  ConnectionTypes = {"PTP_USB", "PTP_IP_USB"}
  MaxPacketSize = 8
  BufferSize = 20
  WaitDefault = 1
  Waits = {1}
  Commands <- SmallCommands
  CallLimit = 1
  Faults = {"ignore", "stall", "error", "zlp"}
SPECIFICATION FairSpec
PROPERTIES Terminates
