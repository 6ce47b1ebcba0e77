CONSTANTS
  Camera = {"EOS", "EOS_BMP", "other"}
  ObjectSize = {0, 2, 3, 4, 5, 6, 9, 10}
  PieceSize = 2
  FirmwareMax = 6
  NameLength = 2
  Word = 32
  BufferSize = 1
  RequestLimit = 4
SPECIFICATION Spec
INVARIANTS SuccessMeansDone CameraAsAsked FileWhole
PROPERTIES NothingAfterFailure
