CONSTANTS
  TransactionQueueLen = 2
  TxPrequeueLen = 3
  MaxPackets = 3
SPECIFICATION Spec
INVARIANTS
  PacketsAreKept
CHECK_DEADLOCK FALSE
