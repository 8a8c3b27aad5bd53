CONSTANTS
  StartCode = 190
  MaxPacketSize = 8
  SendQueueLength = 2
  RxQueueLength = 1
  MaxSendDrops = 2
  MaxRxDrops = 1
  MaxFaults = 1
  PeerPackets <- MCPeerPackets
  Noise <- MCNoise
SPECIFICATION Spec
INVARIANTS
  TypeOK
  CleanFrameIsHanded
  DropsAtMost1ValidPacket
  TxChainNotCut
PROPERTIES
  LossesAreReported
CHECK_DEADLOCK FALSE
