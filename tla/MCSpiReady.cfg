SPECIFICATION Spec
CONSTANTS
  Task = periodicA
  Isr = transportISR
  SendQueueLength = 2
  TransactionQueueLen = 2
  TxPrequeueLen = 1
PROPERTIES
  StartsWhenSubReady
