CONSTANTS
  ConnectionTypes = {"PTP_USB"}
  MaxPacketSize = 8
  BufferSize = 20
  WaitDefault = 1
  Waits = {1}
  Commands <- SmallCommands
  CallLimit = 1
  Faults = {"zlp"}
SPECIFICATION Spec
PROPERTIES ResentOnlyIfIgnored
