SPECIFICATION Spec
CONSTANTS
  ConnectionTypes = {"PTP_USB", "PTP_IP"}
  Codes = {8193, 4104}
  Transactions = {1, 70000}
  ParamLists <- MCParamLists
  FieldSize = 6
  ArrayMax = 3
  Structures <- MCStructures
  Descriptions <- MCDescriptions
  Values <- MCValues
  Bitmaps <- MCBitmaps
  Files <- MCFiles
  Names <- MCNames
  ScreenWidth = 2
  ScreenHeight = 2
  VramWidth = 4
  Palette <- MCPalette
INVARIANTS
  CommandWhole
  ReplyRead
  ParsedAsPacked
  ShownAsSet
  FrameCropped
