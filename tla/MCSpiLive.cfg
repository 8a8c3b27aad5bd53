SPECIFICATION Spec
CONSTANTS
  Task = periodicA
  Isr = transportISR
  SendQueueLength = 1
  TransactionQueueLen = 1
  TxPrequeueLen = 1
PROPERTIES
  SendQueueMoves
  SubQueueMoves
