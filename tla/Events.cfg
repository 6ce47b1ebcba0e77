CONSTANTS
  Code = {"ISOSpeed", "WhiteBalance"}
  Unchecked = {"WhiteBalance"}
  Value = {1, 2}
  Mixed = Mixed
  Lists <- MCLists
  Packets <- MCPackets
  Intruders <- MCIntruders
  DataLength = 64
  StraySizes = {8, 32}
  StrayLists <- MCStrayLists
  StrayCount = 3
SPECIFICATION EventsSpec
INVARIANTS ChainIntact ValidatesLast EntriesFit Delivered ListsApplied
