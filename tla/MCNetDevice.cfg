SPECIFICATION DeviceSpec
CONSTANTS
  Interface = "eth0"
  RouteTables <- Tables
  Timeout = 2
  MaxFrames = 2
  MaxInterrupts = 2
  MaxOpens = 2
INVARIANTS
  NoDescriptorLeaks
  GatewayIsFirstDefaultRoute
PROPERTIES
  ReceiveReturns
CHECK_DEADLOCK FALSE
