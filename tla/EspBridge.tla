----------------------------- MODULE EspBridge -----------------------------
(***************************************************************************)
(* The main loop of the bridge, esp/mqtt5/main/app_main.c: it finds the    *)
(* transport that the edge uses, takes packets from it (waitForSpiRx and   *)
(* waitForUartRx), gathers them in mqttBuffer and publishes that.  The     *)
(* edge may be moved from one transport to the other.  What the MQTT       *)
(* client does with a publish, and the way back to the edge, are left out. *)
(***************************************************************************)
EXTENDS Naturals, Sequences

CONSTANTS
  TransactionQueueLen,  \* TRANSACTION_QUEUE_LEN of the SPI driver
  UartBufferSize,       \* packets in the FIFO of the UART driver
  MqttBufferSize,       \* MQTT_BUFFER_SIZE
  MaxSwitches,          \* bound: how often the edge changes its transport
  MaxFaults             \* bound: short transactions and noise on the UART

ASSUME BridgeAssumption ==
  /\ {TransactionQueueLen, UartBufferSize} \subseteq Nat \ {0}
  /\ {MaxSwitches, MaxFaults} \subseteq Nat
  /\ MqttBufferSize \in Nat /\ MqttBufferSize > 2

Transports == {"spi", "uart"}
Packets == {"version", "telemetry", "empty"}
Fault(t) == IF t = "spi" THEN "short" ELSE "noise"

\* A packet with its length byte: an empty one has nothing else.
MsgLength(p) == CASE p = "version" -> 3 [] p = "telemetry" -> 2 [] p = "empty" -> 1

VARIABLES
  pc,            \* of app_main
  fmtTransport,  \* as there
  rxPacket,      \* the packet that was read and not handled; "none" if there is none
  spiQueued,     \* numTransactionsQueued
  rx,            \* of each transport, what was received and not read
  edgeOn,        \* the transport that the edge uses
  switches, faults,
  topicSet,      \* topicHqBound was set
  mqttWritePos,  \* as there
  txTimeOver     \* usSinceTx() > MQTT_PUB_PERIOD_US

vars == <<pc, fmtTransport, rxPacket, spiQueued, rx, edgeOn, switches, faults,
          topicSet, mqttWritePos, txTimeOver>>

edgeVars == <<edgeOn, switches, faults>>
mqttVars == <<topicSet, mqttWritePos, txTimeOver>>

Init ==
  /\ pc = "pass" /\ fmtTransport = "unknown" /\ rxPacket = "none"
  /\ spiQueued = 0 /\ rx = [t \in Transports |-> <<>>]
  /\ edgeOn \in Transports /\ switches = 0 /\ faults = 0
  /\ topicSet = FALSE /\ mqttWritePos = 0 /\ txTimeOver = FALSE

-----------------------------------------------------------------------------
\* The edge.  On SPI it waits for a transaction that the sub has queued.
CanArrive(t) == Len(rx[t]) < IF t = "spi" THEN spiQueued ELSE UartBufferSize

Arrives(t, p) ==
  /\ CanArrive(t)
  /\ rx' = [rx EXCEPT ![t] = Append(@, p)]
  /\ UNCHANGED <<pc, fmtTransport, rxPacket, spiQueued, edgeOn, switches, mqttVars>>

EdgeSends(p) == Arrives(edgeOn, p) /\ UNCHANGED faults

\* A transaction is cut short, or there is noise on a line without a driver.
LineFault(t) ==
  /\ faults < MaxFaults
  /\ faults' = faults + 1
  /\ Arrives(t, Fault(t))

EdgeSwitches ==
  /\ switches < MaxSwitches
  /\ switches' = switches + 1
  /\ edgeOn' \in Transports \ {edgeOn}
  /\ UNCHANGED <<pc, fmtTransport, rxPacket, spiQueued, rx, faults, mqttVars>>

-----------------------------------------------------------------------------
\* One pass of the loop.  waitForSpiRx queues transactions and waits; an unknown transport
\* gets a delay.
NextPass ==
  /\ pc = "pass"
  /\ pc' = IF fmtTransport = "unknown" THEN "checkSpi" ELSE "wait"
  /\ spiQueued' = IF fmtTransport = "spi" THEN TransactionQueueLen ELSE spiQueued
  /\ UNCHANGED <<fmtTransport, rxPacket, rx, edgeVars, mqttVars>>

\* waitForSpiRx: a short transaction is an error, and the pass ends.
WaitForSpiRx ==
  /\ pc = "wait" /\ fmtTransport = "spi" /\ rx["spi"] # <<>>
  /\ rx' = [rx EXCEPT !["spi"] = Tail(@)]
  /\ spiQueued' = spiQueued - 1
  /\ IF Head(rx["spi"]) = "short" THEN pc' = "pass" /\ UNCHANGED rxPacket
                                  ELSE pc' = "handle" /\ rxPacket' = Head(rx["spi"])
  /\ UNCHANGED <<fmtTransport, edgeVars, mqttVars>>

\* waitForUartRx: noise is skipped, and it waits on.
WaitForUartRx ==
  /\ pc = "wait" /\ fmtTransport = "uart" /\ rx["uart"] # <<>>
  /\ rx' = [rx EXCEPT !["uart"] = Tail(@)]
  /\ IF Head(rx["uart"]) = "noise" THEN UNCHANGED <<pc, rxPacket>>
                                   ELSE pc' = "handle" /\ rxPacket' = Head(rx["uart"])
  /\ UNCHANGED <<fmtTransport, spiQueued, edgeVars, mqttVars>>

\* A slip: the transport is not left once it was found.
TimeoutStays ==
  /\ pc = "wait" /\ rx[fmtTransport] = <<>>
  /\ pc' = "pass"
  /\ UNCHANGED <<fmtTransport, rxPacket, spiQueued, rx, edgeVars, mqttVars>>

\* MSG_TIMEOUT_MS without a packet.
RxTimeout ==
  /\ pc = "wait" /\ rx[fmtTransport] = <<>>
  /\ pc' = "checkSpi"
  /\ UNCHANGED <<fmtTransport, rxPacket, spiQueued, rx, edgeVars, mqttVars>>

\* A slip: an else if, that leaves the packet unhandled.
PassAfterCheck == "pass"

AfterSpiWasRead == "handle"

\* checkForTransportChange reads SPI first, without waiting ...
CheckSpi ==
  /\ pc = "checkSpi"
  /\ LET read == IF rx["spi"] = <<>> THEN "short" ELSE Head(rx["spi"])
         taken == IF rx["spi"] = <<>> THEN 0 ELSE 1
     IN  /\ spiQueued' = TransactionQueueLen - taken
         /\ rx' = [rx EXCEPT !["spi"] = SubSeq(@, 1 + taken, Len(@))]
         /\ IF read = "short"
              THEN pc' = "checkUart" /\ UNCHANGED <<fmtTransport, rxPacket>>
              ELSE /\ pc' = AfterSpiWasRead
                   /\ fmtTransport' = "spi" /\ rxPacket' = read
  /\ UNCHANGED <<edgeVars, mqttVars>>

\* ... and then asks whether the UART has data, and leaves it there.
CheckUart ==
  /\ pc = "checkUart"
  /\ pc' = "pass"
  /\ fmtTransport' = IF rx["uart"] # <<>> THEN "uart" ELSE "unknown"
  /\ UNCHANGED <<rxPacket, spiQueued, rx, edgeVars, mqttVars>>

-----------------------------------------------------------------------------
\* A slip: the length of the packet is not counted.
HasRoomForOne(p) == MsgLength(p) > 1 /\ mqttWritePos < MqttBufferSize

\* Empty packets are dropped, and all while there is no room.
HasRoom(p) == MsgLength(p) > 1 /\ mqttWritePos + MsgLength(p) < MqttBufferSize

\* A slip: nothing is done while there is no room.
PublishWhenTaken(p) == HasRoom(p) /\ txTimeOver

PublishNow(p) == txTimeOver

\* handleEdgeMsg: the first version message sets the topics; what is gathered is published
\* when its time is over, and only on a message.
HandleEdgeMsg ==
  /\ pc = "handle"
  /\ pc' = "pass" /\ rxPacket' = "none"
  /\ topicSet' = (topicSet \/ (HasRoom(rxPacket) /\ rxPacket = "version"))
  /\ LET pos == IF HasRoom(rxPacket) /\ topicSet' THEN mqttWritePos + MsgLength(rxPacket)
                                                  ELSE mqttWritePos
     IN  IF PublishNow(rxPacket) /\ pos > 0
           THEN mqttWritePos' = 0 /\ txTimeOver' = FALSE
           ELSE mqttWritePos' = pos /\ UNCHANGED txTimeOver
  /\ UNCHANGED <<fmtTransport, spiQueued, rx, edgeVars>>

TxTimeIsOver ==
  /\ ~txTimeOver
  /\ txTimeOver' = TRUE
  /\ UNCHANGED <<pc, fmtTransport, rxPacket, spiQueued, rx, edgeVars, topicSet, mqttWritePos>>

MainLoop ==
  \/ NextPass
  \/ WaitForSpiRx \/ WaitForUartRx \/ RxTimeout
  \/ CheckSpi \/ CheckUart
  \/ HandleEdgeMsg

Next ==
  \/ MainLoop
  \/ TxTimeIsOver
  \/ \E p \in Packets : EdgeSends(p)
  \/ \E t \in Transports : LineFault(t)
  \/ EdgeSwitches

\* The loop goes on, time passes, and the edge sends telemetry as long as it runs.
Fairness ==
  /\ WF_vars(MainLoop) /\ WF_vars(TxTimeIsOver)
  /\ SF_vars(EdgeSends("telemetry"))

Spec == Init /\ [][Next]_vars /\ Fairness

-----------------------------------------------------------------------------
\* The loop counts the transactions right, and mqttBuffer is not overrun (428): the next
\* byte has a place in it.
TypeOK ==
  /\ pc \in {"pass", "wait", "checkSpi", "checkUart", "handle"}
  /\ fmtTransport \in Transports \cup {"unknown"}
  /\ rxPacket \in Packets \cup {"none"}
  /\ spiQueued \in 0 .. TransactionQueueLen
  /\ DOMAIN rx = Transports
  /\ \A t \in Transports : rx[t] \in Seq(Packets \cup {Fault(t)})
  /\ Len(rx["spi"]) <= spiQueued /\ Len(rx["uart"]) <= UartBufferSize
  /\ edgeOn \in Transports /\ switches \in 0 .. MaxSwitches /\ faults \in 0 .. MaxFaults
  /\ topicSet \in BOOLEAN /\ txTimeOver \in BOOLEAN
  /\ mqttWritePos \in 0 .. MqttBufferSize - 1

\* app_main.c:519-521: a packet that checkForTransportChange reads from SPI is handled
\* "before the next pass through the loop", and with it the transport it came from is known.
ReadPacketIsHandled ==
  /\ pc = "pass" => rxPacket = "none"
  /\ pc = "handle" => rxPacket # "none" /\ fmtTransport # "unknown"

\* app_main.c:512-513: when the edge moves to the other transport, or is moved while its
\* old packets wait, the bridge follows.
TransportIsFound ==
  \A t \in Transports : (edgeOn = t) ~> (fmtTransport = t \/ edgeOn # t)

\* A buffer without room for telemetry is not the end: it is published, though its
\* messages are dropped.
BufferMoves == ~HasRoom("telemetry") ~> HasRoom("telemetry")
=============================================================================
