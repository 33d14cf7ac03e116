SPECIFICATION FairClientSpec
CONSTANTS
  HalfSpace = 6
  SlotCount = 2
  SlotDataLen = 1
  ReadyCapacity = 3
  MaxPayload = 2
  DefaultRto = 4
  MaxRto = 6
  RetransmitLimit = 1
  TimerMax = 12
  InitialSequences <- MCInitialSequences
  Segment <- MCSegment
  Ticks = {2}
  DataLens = {1}
  ReadLens = {2}
  MaxOpens = 1
  PeerIsn = 9
  StreamLen = 3
  LocalIsn = 10
  PollMs = 2
  ConnectTimeout = 6
  HttpTimeout = 8
  SilentWaits = {3}
  SegmentWaits = {0, 2}
  RequestLen = 1
  ReadBuffer = 2
  InitialCapacity = 1
  ResponseLimits = {2, 4}
  HeaderLen = 1
  Chunked = 1
  LastChunkEnd = 3
  EmptyBodyLen = 1
INVARIANTS
  ClientTypeOK
  ResponseIsFaithful
  PartialOnlyAfterDeadline
  AckedIsStored
  RoomWheneverWaiting
  TimerNotAheadOfClock
PROPERTY ClientTerminates
CHECK_DEADLOCK FALSE
