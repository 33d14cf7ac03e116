SPECIFICATION FairToolsSpec
CONSTANTS
  Address = {1, 2, 3, 6}
  Block = 4
  Self = 1
  Gateway = 3
  Targets = {2, 6}
  Isns = {10, 11, 12}
  ArpTimeout = 1
  ReplyTimeout = 1
  Waits = {0, 1}
  MaxRuns = 3
INVARIANTS
  SentToNextHop
  AnswerIsFromTarget
  HandshakeIsFresh
PROPERTY ToolEnds
CHECK_DEADLOCK FALSE
