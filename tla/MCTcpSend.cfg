SPECIFICATION TimedSpec
CONSTANTS
  HalfSpace = 4
  SlotCount = 1
  SlotDataLen = 1
  ReadyCapacity = 1
  MaxPayload = 3
  DefaultRto = 2
  MaxRto = 5
  RetransmitLimit = 2
  TimerMax = 10
  InitialSequences = {6}
  Segment <- MCSegment
  Ticks = {1, 10}
  DataLens = {1, 2, 3}
  ReadLens = {1}
  MaxOpens = 2
  PeerIsn = 3
INVARIANTS
  OutstandingIsRetransmittable
  FreshRetryBudget
  BackoffHonoured
  CloseMeansAcknowledged
PROPERTY RetransmissionSettles
CHECK_DEADLOCK FALSE
