SPECIFICATION FrameSpec
CONSTANTS
  MaxPacketLen = 65535
  EthernetMaxPayload = 56
  Messages <- AllMessages
  Self <- IpSelf
  Peer <- IpPeer
  SelfPort <- PortSelf
  PeerPort <- PortPeer
  Identifier <- Id
  Sequence = 1
  EthernetMinPayload = 46
  ReceiveBufferSize = 80
  DamageBy = {1, 2, 3, 4, 8, 16, 32, 64, 127, 128, 240, 255}
INVARIANTS
  WholeFrameDelivered
  DamagedFrameHarmless
  UnsentOnlyIfTooLong
CHECK_DEADLOCK FALSE
