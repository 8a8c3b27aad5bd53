---------------------------- MODULE BridgeProofs ----------------------------
(***************************************************************************)
(* The main loop of app_main.c counts its transactions right, keeps within *)
(* mqttBuffer and handles each packet that it reads, whichever transport   *)
(* the edge uses and whenever it moves: proofs about EspBridge, for queues *)
(* and buffers of every size.                                              *)
(***************************************************************************)
EXTENDS EspBridge, TLAPS

\* The loop waits on a transport that it knows.
WaitsOnKnown == pc = "wait" => fmtTransport # "unknown"

\* A packet is held from the step that reads it to the step that handles it, and no
\* longer, so that no read overwrites it.
HeldToHandle ==
  /\ pc = "handle" => rxPacket # "none" /\ fmtTransport # "unknown"
  /\ pc # "handle" => rxPacket = "none"

\* handleEdgeMsg: nothing is gathered before the topics are set.
TopicComesFirst == mqttWritePos > 0 => topicSet

BridgeInv == TypeOK /\ WaitsOnKnown /\ HeldToHandle /\ TopicComesFirst

\* What TypeOK says of the loop and its transports, and of the buffer for MQTT.
LoopOK ==
  /\ pc \in {"pass", "wait", "checkSpi", "checkUart", "handle"}
  /\ fmtTransport \in Transports \cup {"unknown"}
  /\ rxPacket \in Packets \cup {"none"}

RxOK ==
  /\ spiQueued \in 0 .. TransactionQueueLen /\ DOMAIN rx = Transports
  /\ rx["spi"] \in Seq(Packets \cup {"short"}) /\ rx["uart"] \in Seq(Packets \cup {"noise"})
  /\ Len(rx["spi"]) <= spiQueued /\ Len(rx["uart"]) <= UartBufferSize

EdgeOK ==
  /\ edgeOn \in Transports /\ switches \in 0 .. MaxSwitches /\ faults \in 0 .. MaxFaults

MqttOK ==
  /\ topicSet \in BOOLEAN /\ txTimeOver \in BOOLEAN
  /\ mqttWritePos \in 0 .. MqttBufferSize - 1

-----------------------------------------------------------------------------
LEMMA Sizes ==
  /\ TransactionQueueLen \in Nat /\ TransactionQueueLen > 0
  /\ UartBufferSize \in Nat /\ UartBufferSize > 0
  /\ MaxSwitches \in Nat /\ MaxFaults \in Nat
  /\ MqttBufferSize \in Nat /\ MqttBufferSize > 2
BY BridgeAssumption

LEMMA TypeParts == TypeOK <=> LoopOK /\ RxOK /\ EdgeOK /\ MqttOK
BY DEF TypeOK, LoopOK, RxOK, EdgeOK, MqttOK, Transports, Fault

LEMMA TypePartsNext == TypeOK' <=> LoopOK' /\ RxOK' /\ EdgeOK' /\ MqttOK'
BY TypeParts, PTL

LEMMA InitBridge == Init => BridgeInv
<1> SUFFICES ASSUME Init PROVE BridgeInv
  OBVIOUS
<1>1. rx["spi"] = <<>> /\ rx["uart"] = <<>> /\ DOMAIN rx = Transports
  BY DEF Init, Transports
<1>2. LoopOK /\ RxOK /\ EdgeOK /\ MqttOK
  <2>1. LoopOK
    BY DEF Init, LoopOK
  <2>2. RxOK
    <3>1. spiQueued = 0
      BY DEF Init
    <3>2. \A S : <<>> \in Seq(S) /\ Len(<<>>) = 0
      OBVIOUS
    <3> QED
      BY <1>1, <3>1, <3>2, Sizes DEF RxOK
  <2>3. EdgeOK /\ MqttOK
    <3>1. /\ edgeOn \in Transports /\ switches = 0 /\ faults = 0 /\ mqttWritePos = 0
          /\ topicSet = FALSE /\ txTimeOver = FALSE
      BY DEF Init
    <3>2. EdgeOK
      BY <3>1, Sizes DEF EdgeOK
    <3>3. mqttWritePos \in 0 .. MqttBufferSize - 1
      BY <3>1, Sizes
    <3> QED
      BY <3>1, <3>2, <3>3 DEF MqttOK
  <2> QED
    BY <2>1, <2>2, <2>3
<1>3. WaitsOnKnown /\ HeldToHandle /\ TopicComesFirst
  BY DEF Init, WaitsOnKnown, HeldToHandle, TopicComesFirst
<1> QED
  BY <1>2, <1>3, TypeParts DEF BridgeInv

\* A driver that takes a packet has room for it.
LEMMA ArrivesOk ==
  ASSUME BridgeInv, NEW t \in Transports, NEW p \in Packets \cup {Fault(t)}, Arrives(t, p),
         faults' \in 0 .. MaxFaults
  PROVE  BridgeInv'
<1> USE DEF BridgeInv
<1>1. LoopOK /\ RxOK /\ EdgeOK /\ MqttOK
  BY TypeParts
<1>2. UNCHANGED <<pc, fmtTransport, rxPacket, spiQueued, edgeOn, switches, mqttVars>>
  BY DEF Arrives
<1>3. rx'["spi"] \in Seq(Packets \cup {"short"}) /\ Len(rx'["spi"]) <= spiQueued
  <2>1. CASE t = "spi"
    <3>1. p \in Packets \cup {"short"}
      BY <2>1 DEF Fault
    <3>2. rx'["spi"] = Append(rx["spi"], p) /\ Len(rx["spi"]) < spiQueued
      BY <1>1, <2>1 DEF Arrives, CanArrive, RxOK
    <3> QED
      BY <1>1, <3>1, <3>2 DEF RxOK
  <2>2. CASE t = "uart"
    BY <1>1, <2>2 DEF Arrives, RxOK
  <2> QED
    BY <2>1, <2>2 DEF Transports
<1>4. rx'["uart"] \in Seq(Packets \cup {"noise"}) /\ Len(rx'["uart"]) <= UartBufferSize
  <2>1. CASE t = "uart"
    <3>1. p \in Packets \cup {"noise"}
      BY <2>1 DEF Fault
    <3>2. rx'["uart"] = Append(rx["uart"], p) /\ Len(rx["uart"]) < UartBufferSize
      BY <1>1, <2>1 DEF Arrives, CanArrive, RxOK
    <3> QED
      BY <1>1, <3>1, <3>2, Sizes DEF RxOK
  <2>2. CASE t = "spi"
    BY <1>1, <2>2 DEF Arrives, RxOK
  <2> QED
    BY <2>1, <2>2 DEF Transports
<1>5. RxOK'
  <2>1. DOMAIN rx' = Transports
    BY <1>1 DEF Arrives, RxOK
  <2> QED
    BY <1>1, <1>2, <1>3, <1>4, <2>1 DEF RxOK
<1> QED
  BY <1>1, <1>2, <1>5, TypePartsNext
  DEF LoopOK, EdgeOK, MqttOK, mqttVars, WaitsOnKnown, HeldToHandle, TopicComesFirst

LEMMA EdgeSwitchesOk == ASSUME BridgeInv, EdgeSwitches PROVE BridgeInv'
<1> USE DEF BridgeInv
<1>1. LoopOK /\ RxOK /\ EdgeOK /\ MqttOK
  BY TypeParts
<1>2. EdgeOK'
  <2>1. edgeOn' \in Transports /\ switches' = switches + 1 /\ switches < MaxSwitches
        /\ faults' = faults
    BY DEF EdgeSwitches
  <2>2. switches' \in 0 .. MaxSwitches
    BY <1>1, <2>1, Sizes DEF EdgeOK
  <2> QED
    BY <1>1, <2>1, <2>2 DEF EdgeOK
<1> QED
  BY <1>1, <1>2, TypePartsNext
  DEF EdgeSwitches, LoopOK, RxOK, MqttOK, mqttVars, WaitsOnKnown, HeldToHandle, TopicComesFirst

-----------------------------------------------------------------------------
LEMMA NextPassOk == ASSUME BridgeInv, NextPass PROVE BridgeInv'
<1> USE DEF BridgeInv
<1>1. LoopOK /\ RxOK /\ EdgeOK /\ MqttOK
  BY TypeParts
<1>2. /\ pc = "pass" /\ pc' \in {"checkSpi", "wait"}
      /\ pc' = "wait" => fmtTransport # "unknown"
      /\ spiQueued' \in {spiQueued, TransactionQueueLen}
      /\ UNCHANGED <<fmtTransport, rxPacket, rx, edgeVars, mqttVars>>
  BY DEF NextPass
<1>3. RxOK'
  BY <1>1, <1>2, Sizes DEF RxOK
<1> QED
  BY <1>1, <1>2, <1>3, TypePartsNext
  DEF LoopOK, EdgeOK, MqttOK, edgeVars, mqttVars, WaitsOnKnown, HeldToHandle, TopicComesFirst

\* Taking the packet at the head of what a driver holds.
LEMMA TakeFacts ==
  ASSUME NEW S, NEW s \in Seq(S), s # <<>>
  PROVE  /\ Head(s) \in S /\ Tail(s) \in Seq(S)
         /\ Len(s) \in Nat /\ Len(s) > 0 /\ Len(Tail(s)) = Len(s) - 1
OBVIOUS

LEMMA WaitForSpiRxOk == ASSUME BridgeInv, WaitForSpiRx PROVE BridgeInv'
<1> USE DEF BridgeInv
<1>1. LoopOK /\ RxOK /\ EdgeOK /\ MqttOK
  BY TypeParts
<1>2. /\ Head(rx["spi"]) \in Packets \cup {"short"}
      /\ Tail(rx["spi"]) \in Seq(Packets \cup {"short"})
      /\ Len(rx["spi"]) \in Nat \ {0} /\ Len(Tail(rx["spi"])) = Len(rx["spi"]) - 1
  BY <1>1, TakeFacts DEF WaitForSpiRx, RxOK
<1>3. /\ rx' = [rx EXCEPT !["spi"] = Tail(@)] /\ spiQueued' = spiQueued - 1
      /\ fmtTransport = "spi" /\ pc = "wait" /\ UNCHANGED <<fmtTransport, edgeVars, mqttVars>>
      /\ \/ Head(rx["spi"]) = "short" /\ pc' = "pass" /\ UNCHANGED rxPacket
         \/ Head(rx["spi"]) # "short" /\ pc' = "handle" /\ rxPacket' = Head(rx["spi"])
  BY DEF WaitForSpiRx
<1>4. RxOK'
  <2>1. rx'["spi"] = Tail(rx["spi"]) /\ rx'["uart"] = rx["uart"] /\ DOMAIN rx' = Transports
    BY <1>1, <1>3 DEF RxOK, Transports
  <2>2. spiQueued' \in 0 .. TransactionQueueLen /\ Len(Tail(rx["spi"])) <= spiQueued'
    BY <1>1, <1>2, <1>3, Sizes DEF RxOK
  <2> QED
    BY <1>1, <1>2, <2>1, <2>2 DEF RxOK
<1>5. LoopOK' /\ WaitsOnKnown' /\ HeldToHandle'
  BY <1>1, <1>2, <1>3 DEF LoopOK, WaitsOnKnown, HeldToHandle, Packets
<1> QED
  BY <1>1, <1>3, <1>4, <1>5, TypePartsNext DEF EdgeOK, MqttOK, edgeVars, mqttVars, TopicComesFirst

LEMMA WaitForUartRxOk == ASSUME BridgeInv, WaitForUartRx PROVE BridgeInv'
<1> USE DEF BridgeInv
<1>1. LoopOK /\ RxOK /\ EdgeOK /\ MqttOK
  BY TypeParts
<1>2. /\ Head(rx["uart"]) \in Packets \cup {"noise"}
      /\ Tail(rx["uart"]) \in Seq(Packets \cup {"noise"})
      /\ Len(rx["uart"]) \in Nat \ {0} /\ Len(Tail(rx["uart"])) = Len(rx["uart"]) - 1
  BY <1>1, TakeFacts DEF WaitForUartRx, RxOK
<1>3. /\ rx' = [rx EXCEPT !["uart"] = Tail(@)]
      /\ fmtTransport = "uart" /\ pc = "wait"
      /\ UNCHANGED <<fmtTransport, spiQueued, edgeVars, mqttVars>>
      /\ \/ Head(rx["uart"]) = "noise" /\ UNCHANGED <<pc, rxPacket>>
         \/ Head(rx["uart"]) # "noise" /\ pc' = "handle" /\ rxPacket' = Head(rx["uart"])
  BY DEF WaitForUartRx
<1>4. RxOK'
  <2>1. rx'["uart"] = Tail(rx["uart"]) /\ rx'["spi"] = rx["spi"] /\ DOMAIN rx' = Transports
    BY <1>1, <1>3 DEF RxOK, Transports
  <2> QED
    BY <1>1, <1>2, <1>3, <2>1, Sizes DEF RxOK
<1>5. LoopOK' /\ WaitsOnKnown' /\ HeldToHandle'
  BY <1>1, <1>2, <1>3 DEF LoopOK, WaitsOnKnown, HeldToHandle, Packets
<1> QED
  BY <1>1, <1>3, <1>4, <1>5, TypePartsNext DEF EdgeOK, MqttOK, edgeVars, mqttVars, TopicComesFirst

LEMMA RxTimeoutOk == ASSUME BridgeInv, RxTimeout PROVE BridgeInv'
<1> USE DEF BridgeInv
<1>1. LoopOK /\ RxOK /\ EdgeOK /\ MqttOK
  BY TypeParts
<1> QED
  BY <1>1, TypePartsNext
  DEF RxTimeout, LoopOK, RxOK, EdgeOK, MqttOK, edgeVars, mqttVars, WaitsOnKnown, HeldToHandle,
      TopicComesFirst

\* checkForTransportChange fills the queue of transactions, and takes one packet at most.
LEMMA CheckSpiOk == ASSUME BridgeInv, CheckSpi PROVE BridgeInv'
<1> USE DEF BridgeInv
<1>1. LoopOK /\ RxOK /\ EdgeOK /\ MqttOK
  BY TypeParts
<1>2. pc = "checkSpi" /\ rxPacket = "none" /\ UNCHANGED <<edgeVars, mqttVars>>
  BY DEF CheckSpi, HeldToHandle
<1>3. CASE rx["spi"] = <<>>
  <2>1. /\ spiQueued' = TransactionQueueLen - 0 /\ pc' = "checkUart"
        /\ rx' = [rx EXCEPT !["spi"] = SubSeq(@, 1, Len(@))]
        /\ UNCHANGED <<fmtTransport, rxPacket>>
    BY <1>3 DEF CheckSpi
  <2>2. /\ rx'["spi"] = <<>> /\ rx'["uart"] = rx["uart"] /\ DOMAIN rx' = Transports
        /\ Len(<<>>) = 0
    BY <1>1, <1>3, <2>1 DEF RxOK, Transports
  <2>3. RxOK'
    <3>1. /\ spiQueued' \in 0 .. TransactionQueueLen /\ Len(rx'["spi"]) <= spiQueued'
          /\ \A S : <<>> \in Seq(S)
      BY <2>1, <2>2, Sizes
    <3> QED
      BY <1>1, <2>2, <3>1 DEF RxOK
  <2> QED
    BY <1>1, <1>2, <2>1, <2>3, TypePartsNext
    DEF LoopOK, EdgeOK, MqttOK, edgeVars, mqttVars, WaitsOnKnown, HeldToHandle, TopicComesFirst
<1>4. CASE rx["spi"] # <<>>
  <2>1. /\ Head(rx["spi"]) \in Packets \cup {"short"}
        /\ SubSeq(rx["spi"], 2, Len(rx["spi"])) \in Seq(Packets \cup {"short"})
        /\ Len(SubSeq(rx["spi"], 2, Len(rx["spi"]))) = Len(rx["spi"]) - 1
    BY <1>1, <1>4, TakeFacts DEF RxOK
  <2>2. /\ spiQueued' = TransactionQueueLen - 1
        /\ rx' = [rx EXCEPT !["spi"] = SubSeq(@, 2, Len(@))]
        /\ \/ pc' = "checkUart" /\ UNCHANGED <<fmtTransport, rxPacket>>
           \/ /\ Head(rx["spi"]) # "short" /\ pc' = "handle"
              /\ fmtTransport' = "spi" /\ rxPacket' = Head(rx["spi"])
    BY <1>4 DEF CheckSpi, AfterSpiWasRead
  <2>3. RxOK'
    <3>1. /\ rx'["spi"] = SubSeq(rx["spi"], 2, Len(rx["spi"])) /\ rx'["uart"] = rx["uart"]
          /\ DOMAIN rx' = Transports
      BY <1>1, <2>2 DEF RxOK, Transports
    <3> QED
      BY <1>1, <2>1, <2>2, <3>1, Sizes DEF RxOK
  <2>4. LoopOK' /\ WaitsOnKnown' /\ HeldToHandle'
    BY <1>1, <1>2, <2>1, <2>2 DEF LoopOK, WaitsOnKnown, HeldToHandle, Packets, Transports
  <2> QED
    BY <1>1, <1>2, <2>3, <2>4, TypePartsNext DEF EdgeOK, MqttOK, edgeVars, mqttVars, TopicComesFirst
<1> QED
  BY <1>3, <1>4

LEMMA CheckUartOk == ASSUME BridgeInv, CheckUart PROVE BridgeInv'
<1> USE DEF BridgeInv
<1>1. LoopOK /\ RxOK /\ EdgeOK /\ MqttOK
  BY TypeParts
<1>2. LoopOK' /\ WaitsOnKnown' /\ HeldToHandle'
  BY <1>1 DEF CheckUart, LoopOK, WaitsOnKnown, HeldToHandle, Transports
<1> QED
  BY <1>1, <1>2, TypePartsNext
  DEF CheckUart, RxOK, EdgeOK, MqttOK, edgeVars, mqttVars, TopicComesFirst

\* A message is gathered only where it ends before the end of mqttBuffer.
LEMMA HandleEdgeMsgOk == ASSUME BridgeInv, HandleEdgeMsg PROVE BridgeInv'
<1> USE DEF BridgeInv
<1> DEFINE pos == IF HasRoom(rxPacket) /\ topicSet' THEN mqttWritePos + MsgLength(rxPacket)
                                                    ELSE mqttWritePos
<1>1. LoopOK /\ RxOK /\ EdgeOK /\ MqttOK
  BY TypeParts
<1>2. /\ pc = "handle" /\ pc' = "pass" /\ rxPacket' = "none"
      /\ topicSet' = (topicSet \/ (HasRoom(rxPacket) /\ rxPacket = "version"))
      /\ UNCHANGED <<fmtTransport, spiQueued, rx, edgeVars>>
      /\ \/ mqttWritePos' = 0 /\ txTimeOver' = FALSE
         \/ mqttWritePos' = pos /\ UNCHANGED txTimeOver
  BY DEF HandleEdgeMsg
<1>3. rxPacket \in Packets
  BY <1>1, <1>2 DEF LoopOK, HeldToHandle
<1>4. MsgLength(rxPacket) \in Nat
  BY <1>3 DEF Packets, MsgLength
<1>5. pos \in 0 .. MqttBufferSize - 1 /\ (pos > 0 => topicSet')
  <2>1. mqttWritePos \in 0 .. MqttBufferSize - 1 /\ topicSet \in BOOLEAN
    BY <1>1 DEF MqttOK
  <2>2. CASE HasRoom(rxPacket) /\ topicSet'
    BY <1>4, <2>1, <2>2, Sizes DEF HasRoom
  <2>3. CASE ~(HasRoom(rxPacket) /\ topicSet')
    BY <1>2, <2>1, <2>3 DEF TopicComesFirst
  <2> QED
    BY <2>2, <2>3
<1>6. MqttOK' /\ TopicComesFirst'
  <2>1. topicSet' \in BOOLEAN /\ txTimeOver' \in BOOLEAN
    BY <1>1, <1>2 DEF MqttOK
  <2>2. mqttWritePos' \in {0, pos}
    BY <1>2
  <2>3. mqttWritePos' \in 0 .. MqttBufferSize - 1 /\ (mqttWritePos' > 0 => topicSet')
    BY <1>5, <2>2, Sizes
  <2> QED
    BY <2>1, <2>3 DEF MqttOK, TopicComesFirst
<1> QED
  BY <1>1, <1>2, <1>6, TypePartsNext
  DEF LoopOK, RxOK, EdgeOK, edgeVars, WaitsOnKnown, HeldToHandle

LEMMA TxTimeIsOverOk == ASSUME BridgeInv, TxTimeIsOver PROVE BridgeInv'
<1> USE DEF BridgeInv
<1>1. LoopOK /\ RxOK /\ EdgeOK /\ MqttOK
  BY TypeParts
<1> QED
  BY <1>1, TypePartsNext
  DEF TxTimeIsOver, LoopOK, RxOK, EdgeOK, MqttOK, edgeVars, WaitsOnKnown, HeldToHandle,
      TopicComesFirst

-----------------------------------------------------------------------------
\* The inductive invariant that the theorems below rest on.
THEOREM BridgeInvariant == Spec => []BridgeInv
<1>1. BridgeInv /\ [Next]_vars => BridgeInv'
  <2> SUFFICES ASSUME BridgeInv, [Next]_vars PROVE BridgeInv'
    OBVIOUS
  <2>1. CASE MainLoop
    BY <2>1, NextPassOk, WaitForSpiRxOk, WaitForUartRxOk, RxTimeoutOk, CheckSpiOk, CheckUartOk,
       HandleEdgeMsgOk
    DEF MainLoop
  <2>2. CASE TxTimeIsOver
    BY <2>2, TxTimeIsOverOk
  <2>3. ASSUME NEW p \in Packets, EdgeSends(p) PROVE BridgeInv'
    <3>1. edgeOn \in Transports /\ faults \in 0 .. MaxFaults
      BY DEF BridgeInv, TypeOK
    <3>2. Arrives(edgeOn, p) /\ faults' \in 0 .. MaxFaults
      BY <2>3, <3>1 DEF EdgeSends
    <3> QED
      BY <3>1, <3>2, ArrivesOk
  <2>4. ASSUME NEW t \in Transports, LineFault(t) PROVE BridgeInv'
    <3>1. Arrives(t, Fault(t)) /\ faults' = faults + 1 /\ faults < MaxFaults
      BY <2>4 DEF LineFault
    <3>2. faults' \in 0 .. MaxFaults
      BY <3>1, Sizes DEF BridgeInv, TypeOK
    <3> QED
      BY <3>1, <3>2, ArrivesOk
  <2>5. CASE EdgeSwitches
    BY <2>5, EdgeSwitchesOk
  <2>6. CASE UNCHANGED vars
    BY <2>6, TypeParts, TypePartsNext
    DEF vars, BridgeInv, LoopOK, RxOK, EdgeOK, MqttOK, WaitsOnKnown, HeldToHandle, TopicComesFirst
  <2> QED
    BY <2>1, <2>2, <2>3, <2>4, <2>5, <2>6 DEF Next
<1> QED
  BY InitBridge, <1>1, PTL DEF Spec

\* app_main.c: numTransactionsQueued never goes below what the driver still has to
\* return, and the next byte always has a place in mqttBuffer (428), for every size of
\* the buffer and whatever the edge sends.
THEOREM BridgeTypeCorrect == Spec => []TypeOK
<1>1. BridgeInv => TypeOK
  BY DEF BridgeInv
<1> QED
  BY <1>1, BridgeInvariant, PTL

\* app_main.c:519-521: what checkForTransportChange reads is handled before the next
\* pass, and no packet that was read is overwritten by another.
THEOREM ReadPacketsAreHandled == Spec => []ReadPacketIsHandled
<1>1. BridgeInv => ReadPacketIsHandled
  BY DEF BridgeInv, HeldToHandle, ReadPacketIsHandled
<1> QED
  BY <1>1, BridgeInvariant, PTL

\* handleEdgeMsg: what is gathered for MQTT has a topic to go to.
THEOREM GatheredHasTopic == Spec => []TopicComesFirst
<1>1. BridgeInv => TopicComesFirst
  BY DEF BridgeInv
<1> QED
  BY <1>1, BridgeInvariant, PTL
=============================================================================
