------------------------------ MODULE UartLink ------------------------------
(***************************************************************************)
(* The UART between the ESP32, whose sendPacketUart writes a start code    *)
(* and a packet, and the edge controller of FmtUart.  The line may lose,   *)
(* change or add a byte, or the driver report an error in its place.       *)
(***************************************************************************)
EXTENDS FmtUart

CONSTANTS
  PeerPackets,  \* the packets the ESP32 may send, from the length to the CRC
  Noise,        \* what a spoilt byte may become
  MaxFaults,    \* bound: bytes that are spoilt
  MaxSendDrops, \* bound: drops of the send queue that are followed
  MaxRxDrops    \* bound: drops of the receive queue that are followed

ASSUME PeerAssumption ==
  /\ Noise \subseteq Nat /\ MaxFaults \in Nat /\ MaxSendDrops \in Nat /\ MaxRxDrops \in Nat
  /\ PeerPackets \subseteq Seq(Nat)
  /\ \A packet \in PeerPackets :
       /\ packet # <<>>
       /\ LengthValid(packet[1])
       /\ Len(packet) = PacketLength(packet[1]) - LengthPosition

VARIABLES
  frame,     \* the bytes still to come of the frame on the line
  sent,      \* the packet of this frame
  inStep,    \* history: the receiver awaited a start code when this frame began
  whole,     \* history: nothing of this frame was spoilt
  heard,     \* history: this frame was handed over as it was sent
  tame,      \* history: see TameFault; and no packet holds a start code
  missed,    \* history: while tame, frames that came whole and were not heard
  faults,    \* history: bytes spoilt
  reported   \* history: the counts of the last report sent

lineVars == <<frame, sent, inStep, whole, heard, tame, missed, faults>>
vars == <<uartVars, lineVars, reported>>

Init ==
  /\ UartInit
  /\ frame = <<>> /\ sent = <<>>
  /\ inStep = TRUE /\ whole = FALSE /\ heard = FALSE
  /\ tame = TRUE /\ missed = 0 /\ faults = 0
  /\ reported = NoErrors

-----------------------------------------------------------------------------
\* sendPacketUart of the ESP32.
SendPacketUart(packet) ==
  /\ frame = <<>>
  /\ errCounts.rxQueueFull < MaxRxDrops
  /\ frame' = <<StartCode>> \o packet
  /\ sent' = packet
  /\ inStep' = (rxState = "AWAITING_START_CODE")
  /\ whole' = TRUE /\ heard' = FALSE
  /\ tame' = (tame /\ \A i \in 1 .. Len(packet) : packet[i] # StartCode)
  /\ UNCHANGED <<uartVars, missed, faults, reported>>

ByteArrives ==
  /\ frame # <<>>
  /\ ReceiveComplete(Head(frame))
  /\ frame' = Tail(frame)
  /\ heard' = (HandsOver /\ PacketWith(Head(frame)) = sent)
  /\ missed' = IF Len(frame) = 1 /\ whole /\ ~heard' /\ tame THEN missed + 1 ELSE missed
  /\ UNCHANGED <<sent, inStep, whole, tame, faults, reported>>

\* The faults of uartFrameTest.cpp:103-130: a byte of the payload or of the CRC is
\* missing, or one too many.  The start code and the length have come.
TameFault(added) == Len(frame) < Len(sent) /\ \A byte \in added : byte # StartCode

Spoil(remaining, added) ==
  /\ frame # <<>> /\ faults < MaxFaults
  /\ faults' = faults + 1
  /\ frame' = remaining
  /\ whole' = FALSE /\ heard' = FALSE
  /\ tame' = (tame /\ TameFault(added))
  /\ UNCHANGED <<sent, inStep, missed, reported>>

ByteIsLost ==
  /\ Spoil(Tail(frame), {})
  /\ UNCHANGED uartVars

ByteIsChanged(byte) ==
  /\ Spoil(Tail(frame), {byte, StartCode})
  /\ ReceiveComplete(byte)

ByteIsAdded(byte) ==
  /\ Spoil(frame, {byte})
  /\ ReceiveComplete(byte)

DriverReportsError ==
  /\ Spoil(Tail(frame), {StartCode})
  /\ RxError

\* What the edge controller sends is not followed further.
Remember == reported' = IF txPacket' = Telemetry THEN reported ELSE txPacket'

SendEnds == SendComplete /\ Remember /\ UNCHANGED lineVars

\* At its bound the count of drops is followed no further.
CountIsFollowed ==
  errCounts.sendQueueFull < MaxSendDrops \/ Len(sendQueue) < SendQueueLength

TaskRuns ==
  /\ pc = "idle" => CountIsFollowed
  /\ Task
  /\ Remember
  /\ UNCHANGED lineVars

Next ==
  \/ TaskRuns
  \/ SendEnds
  \/ \E packet \in PeerPackets : SendPacketUart(packet)
  \/ ByteArrives
  \/ ByteIsLost
  \/ \E byte \in Noise : ByteIsChanged(byte) \/ ByteIsAdded(byte)
  \/ DriverReportsError

\* The periodic task goes on, and in each rotation of comm_handleTelemetry it reports
\* errors; a send ends.  Nobody is obliged to send telemetry or packets, nor the task
\* to find a message.
Fairness ==
  /\ WF_vars(TaskRuns /\ pc # "idle")
  /\ SF_vars(TaskRuns /\ ReportCommsErrors(armRxError))
  /\ WF_vars(SendEnds)

Spec == Init /\ [][Next]_vars /\ Fairness

-----------------------------------------------------------------------------
TypeOK ==
  /\ rxState \in {"AWAITING_START_CODE", "AWAITING_LENGTH_BYTE", "AWAITING_PAYLOAD"}
  /\ Len(sendQueue) <= SendQueueLength
  /\ numReceived \in 0 .. RxQueueLength
  /\ {errCounts, prevErrCounts, txPacket, reported} \subseteq ErrorCounts
  /\ pc \in {"idle", "report", "startTxChain", "dequeue"}
  /\ txBusy \in BOOLEAN
  /\ faults \in 0 .. MaxFaults
  /\ SegmentFits

\* A frame that begins when the receiver awaits a start code, and of which no byte is
\* spoilt, is handed over as it was sent, and leaves the receiver awaiting the next:
\* start codes, lengths and padding inside packets confuse nobody who is in step.
CleanFrameIsHanded ==
  frame = <<>> /\ whole /\ inStep => heard /\ rxState = "AWAITING_START_CODE"

\* uartFrameTest.cpp:103-130, payloadShort1_dropsAtMost1ValidPacket and
\* payloadLong1_dropsAtMost1ValidPacket, for every order of packets and of faults of
\* that kind: each costs at most one packet that came whole.
DropsAtMost1ValidPacket == missed <= faults

\* A packet never waits with the driver idle, unless the task is about to start it: the
\* task that finds the driver busy may leave, since the handler takes the chain up.
TxChainNotCut ==
  sendQueue # <<>> /\ ~txBusy => pc \in {"startTxChain", "dequeue"}

\* Every drop and every error is reported in the end, or the send queue drops another
\* message: the report itself may be dropped, which is a new loss, and as long as the
\* queue is full whenever one is made there is none.  Below the bound no message waits
\* for room.
LossesAreReported ==
  /\ \A n \in 1 .. MaxSendDrops - 1 :
       errCounts.sendQueueFull = n
         ~> (reported.sendQueueFull >= n \/ errCounts.sendQueueFull > n)
  /\ \A drops \in 0 .. MaxSendDrops - 1 :
       /\ \A n \in 1 .. MaxRxDrops :
            (errCounts.rxQueueFull = n /\ errCounts.sendQueueFull = drops)
              ~> (reported.rxQueueFull >= n \/ errCounts.sendQueueFull > drops)
       /\ \A n \in 1 .. MaxFaults :
            (armRxError = n /\ errCounts.sendQueueFull = drops)
              ~> (reported.armRxError >= n \/ errCounts.sendQueueFull > drops)
=============================================================================
