SPECIFICATION DnsSpec
CONSTANTS
  Hostnames <- AllHostnames
  RecordLists <- Lists
  TransactionId = 16980
  StaleId = 16981
  MaxHostname = 5
  MaxLabelLen = 4
  MaxLabels = 3
  MaxAnswers = 2
  QueryBufferLen = 23
  DamageTo = {0, 1, 19, 64, 192, 255}
INVARIANTS
  DnsTypeOK
  ReadsInBounds
  ReplyUnderstood
  CutReplyRefused
PROPERTIES
  ParserReturns
CHECK_DEADLOCK FALSE
