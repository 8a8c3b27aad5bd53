SPECIFICATION Spec
CONSTANTS
  mainLoop = mainLoop
  periodicA = periodicA
  transportISR = transportISR
  Senders = {mainLoop, transportISR}
  Receivers = {periodicA}
  Prio <- MCPrio
  highestSenderPriority = 16
  MaxNumItems = 3
  Items = {p, q}
  Blank = Blank
INVARIANTS
  TypeOK
  CriticalSectionsExclude
  RingConsistent
  PolledDequeueSucceeds
PROPERTIES
  MaskingEnds
  ImplementsFifo
