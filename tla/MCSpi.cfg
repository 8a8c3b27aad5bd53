SPECIFICATION Spec
CONSTANTS
  Task = periodicA
  Isr = transportISR
  SendQueueLength = 1
  TransactionQueueLen = 2
  TxPrequeueLen = 1
INVARIANTS
  TypeOK
  ChainNotCut
  MessageWaitingHonest
