CONSTANTS
  TransactionQueueLen = 2
  UartBufferSize = 2
  MqttBufferSize = 5
  MaxSwitches = 2
  MaxFaults = 1
SPECIFICATION Spec
INVARIANTS
  TypeOK
  ReadPacketIsHandled
PROPERTIES
  TransportIsFound
  BufferMoves
