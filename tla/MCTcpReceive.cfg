SPECIFICATION Spec
CONSTANTS
  HalfSpace = 4
  SlotCount = 2
  SlotDataLen = 2
  ReadyCapacity = 3
  MaxPayload = 3
  DefaultRto = 1
  MaxRto = 1
  RetransmitLimit = 0
  TimerMax = 2
  InitialSequences <- MCInitialSequences
  Segment <- MCSegment
  Ticks = {}
  DataLens = {}
  ReadLens = {2}
  MaxOpens = 1
  PeerIsn = 5
  LocalIsn = 7
  FinPlaces = {1, 2}
CONSTRAINT UntilFin
INVARIANTS
  TypeOK
  StreamIntegrity
  ReassemblyAccounting
  NoStrandedSegment
CHECK_DEADLOCK FALSE
