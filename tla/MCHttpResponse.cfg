SPECIFICATION ResponseSpec
CONSTANTS
  Responses <- AllResponses
  AnyInput <- ShortInputs
  DamageTo = {13, 10, 9, 48, 49, 70, 59, 120}
  SizeMax = 255
  SpareOutput <- Spares
INVARIANTS
  HeadUnderstood
  CutHeadRefused
  DecoderInBounds
  SizesExact
  WholeOrNothing
  ClientVerdict
CHECK_DEADLOCK FALSE
