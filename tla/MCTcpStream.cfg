SPECIFICATION FairSpec
CONSTANTS
  HalfSpace = 8
  SlotCount = 2
  SlotDataLen = 2
  ReadyCapacity = 3
  MaxPayload = 3
  DefaultRto = 1
  MaxRto = 2
  RetransmitLimit = 1
  TimerMax = 4
  InitialSequences <- MCInitialSequences
  Segment <- MCResetSegment
  Ticks = {1}
  DataLens = {}
  ReadLens = {2}
  MaxOpens = 1
  PeerIsn = 13
  StreamLen = 4
  LocalIsn = 15
INVARIANT PendingFinAhead
PROPERTIES
  ImplementsByteStream
  StreamCompletes
CHECK_DEADLOCK FALSE
