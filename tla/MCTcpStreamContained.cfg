SPECIFICATION Spec
CONSTANTS
  HalfSpace = 8
  SlotCount = 3
  SlotDataLen = 2
  ReadyCapacity = 3
  MaxPayload = 3
  DefaultRto = 1
  MaxRto = 2
  RetransmitLimit = 1
  TimerMax = 4
  InitialSequences <- MCInitialSequences
  Segment <- MCSegment
  Ticks = {1}
  DataLens = {}
  ReadLens = {1, 3}
  MaxOpens = 1
  PeerIsn = 13
  StreamLen = 5
  LocalIsn = 15
PROPERTY ContainedIsNotStored
CHECK_DEADLOCK FALSE
