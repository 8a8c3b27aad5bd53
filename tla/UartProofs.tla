----------------------------- MODULE UartProofs -----------------------------
(***************************************************************************)
(* The receiver of fmt_uart_frame.c stays in its buffer, whatever bytes    *)
(* the line delivers: proofs about UartLink for every packet size.         *)
(***************************************************************************)
EXTENDS UartLink, SequenceTheorems, TLAPS

\* Where the receiver is in a packet, and room for what is to come.
FrameInv ==
  /\ rxState \in {"AWAITING_START_CODE", "AWAITING_LENGTH_BYTE", "AWAITING_PAYLOAD"}
  /\ rxPacket \in Seq(Nat)
  /\ segment \in Nat
  /\ \/ rxState = "AWAITING_START_CODE" /\ rxPacket = <<>> /\ segment = 1
     \/ rxState = "AWAITING_LENGTH_BYTE" /\ Len(rxPacket) = 1 /\ segment = 1
     \/ /\ rxState = "AWAITING_PAYLOAD"
        /\ segment > 0
        /\ Len(rxPacket) + segment <= UartPacketSize

\* The bytes on the line.
LineInv == frame \in Seq(Nat)

\* The queues and the counts of errors.
CountsInv ==
  /\ sendQueue \in Seq(ErrorCounts)
  /\ armRxError \in Nat

IInv == TypeOK /\ FrameInv /\ LineInv /\ CountsInv

-----------------------------------------------------------------------------
\* fmt_sizes.h and fmt_uart_frame.h: a valid length leaves a payload and a CRC that
\* fit, since the greatest packet has an even size.
LEMMA PayloadFits ==
  ASSUME NEW length \in Nat, LengthValid(length)
  PROVE  /\ PacketLength(length) - PayloadPosition \in Nat
         /\ PacketLength(length) - PayloadPosition > 0
         /\ PacketLength(length) <= UartPacketSize
<1>1. PICK half \in Nat : MaxPacketSize = 2 * half
  <2>1. MaxPacketSize \div 2 \in Nat /\ MaxPacketSize = 2 * (MaxPacketSize \div 2)
    BY PacketSizeAssumption
  <2> QED BY <2>1
<1>2. PICK k \in Nat : k = (length + 2) \div 2
  OBVIOUS
<1>3. 2 * k <= length + 2 /\ length + 1 <= 2 * k
  BY <1>2
<1>4. length <= 2 * half - 3
  BY <1>1 DEF LengthValid, MaxMessageSize, CrcSize
<1>5. CrcPosition(length) = 2 * k
  BY <1>2 DEF CrcPosition
<1>6. 2 * k <= 2 * half - 2
  BY <1>3, <1>4
<1> QED
  BY <1>1, <1>3, <1>5, <1>6 DEF PacketLength, PayloadPosition, LengthPosition,
     StartCodeSize, CrcSize, UartPacketSize, LengthValid

\* Every state has room in the buffer.
LEMMA FrameInvFits ==
  ASSUME FrameInv PROVE SegmentFits
<1>1. UartPacketSize \in Nat /\ UartPacketSize > 3
  BY PacketSizeAssumption DEF UartPacketSize, StartCodeSize
<1>2. Len(<<>>) = 0
  OBVIOUS
<1>3. CASE rxPacket = <<>> /\ segment = 1
  BY <1>1, <1>2, <1>3 DEF SegmentFits
<1>4. CASE Len(rxPacket) = 1 /\ segment = 1
  BY <1>1, <1>4 DEF SegmentFits
<1>5. CASE segment > 0 /\ Len(rxPacket) + segment <= UartPacketSize
  BY <1>5 DEF SegmentFits
<1> QED BY <1>3, <1>4, <1>5 DEF FrameInv

LEMMA AppendByte ==
  ASSUME NEW bytes \in Seq(Nat), NEW byte \in Nat
  PROVE  Append(bytes, byte) \in Seq(Nat) /\ Len(Append(bytes, byte)) = Len(bytes) + 1
OBVIOUS

LEMMA ReceiveKeepsFrame ==
  ASSUME FrameInv, NEW byte \in Nat, ReceiveByte(byte)
  PROVE  FrameInv'
<1>1. CASE /\ segment > 1
           /\ rxPacket' = Append(rxPacket, byte)
           /\ segment' = segment - 1
           /\ UNCHANGED rxState
  <2>1. rxPacket' \in Seq(Nat) /\ Len(rxPacket') = Len(rxPacket) + 1
    BY <1>1 DEF FrameInv
  <2> QED BY <1>1, <2>1, PacketSizeAssumption DEF FrameInv, UartPacketSize, StartCodeSize
<1>2. CASE /\ segment = 1 /\ rxState = "AWAITING_START_CODE"
           /\ rxPacket' = Append(rxPacket, byte) /\ AwaitLength
  BY <1>2 DEF FrameInv, AwaitLength
<1>3. CASE /\ segment = 1 /\ rxState = "AWAITING_LENGTH_BYTE" /\ LengthValid(byte)
           /\ rxPacket' = Append(rxPacket, byte) /\ AwaitPayload(byte)
  <2>1. Len(rxPacket') = 2 /\ rxPacket' \in Seq(Nat)
    <3>1. rxPacket \in Seq(Nat) /\ Len(rxPacket) = 1
      BY <1>3 DEF FrameInv
    <3>2. rxPacket' = Append(rxPacket, byte)
      BY <1>3
    <3>3. Append(rxPacket, byte) \in Seq(Nat) /\ Len(Append(rxPacket, byte)) = Len(rxPacket) + 1
      BY <3>1, AppendByte
    <3> QED BY <3>1, <3>2, <3>3
  <2>2. /\ segment' \in Nat /\ segment' > 0
        /\ 2 + segment' <= UartPacketSize
    <3>1. segment' = PacketLength(byte) - 2
      BY <1>3 DEF AwaitPayload, PayloadPosition, LengthPosition, StartCodeSize
    <3>2. PacketLength(byte) \in Nat
      BY DEF PacketLength, CrcPosition, LengthPosition, StartCodeSize, CrcSize
    <3>3. UartPacketSize \in Nat
      BY PacketSizeAssumption DEF UartPacketSize, StartCodeSize
    <3> QED BY <3>1, <3>2, <3>3, <1>3, PayloadFits
            DEF PayloadPosition, LengthPosition, StartCodeSize
  <2> QED BY <1>3, <2>1, <2>2 DEF FrameInv, AwaitPayload
<1>4. CASE AwaitStartCode
  BY <1>4 DEF FrameInv, AwaitStartCode, StartCodeSize
<1> QED BY <1>1, <1>2, <1>3, <1>4 DEF ReceiveByte

-----------------------------------------------------------------------------
LEMMA NoErrorsCounts == NoErrors \in ErrorCounts
BY DEF NoErrors, ErrorCounts

\* A count goes up by one and is a count.
LEMMA CountsGoUp ==
  ASSUME NEW counts \in ErrorCounts
  PROVE  /\ [counts EXCEPT !.sendQueueFull = @ + 1] \in ErrorCounts
         /\ [counts EXCEPT !.rxQueueFull = @ + 1] \in ErrorCounts
BY DEF ErrorCounts

LEMMA InitOk == Init => IInv
<1> SUFFICES ASSUME Init PROVE IInv
  OBVIOUS
<1> USE DEF Init, UartInit, FrameInit, CommsInit
<1>1. FrameInv
  BY DEF FrameInv, StartCodeSize
<1>2. LineInv
  BY DEF LineInv
<1>3. CountsInv
  BY QueueAssumption DEF CountsInv
<1>4. TypeOK
  <2>1. Len(sendQueue) <= SendQueueLength
    <3>1. sendQueue = <<>>
      OBVIOUS
    <3> QED BY <3>1, QueueAssumption
  <2>2. {errCounts, prevErrCounts, txPacket, reported} \subseteq ErrorCounts
    BY NoErrorsCounts DEF Telemetry
  <2>3. numReceived \in 0 .. RxQueueLength /\ faults \in 0 .. MaxFaults
    BY QueueAssumption, PeerAssumption
  <2>4. txBusy \in BOOLEAN /\ pc \in {"idle", "report", "startTxChain", "dequeue"}
    OBVIOUS
  <2> QED BY <1>1, <2>1, <2>2, <2>3, <2>4, FrameInvFits DEF TypeOK, FrameInv
<1> QED BY <1>1, <1>2, <1>3, <1>4 DEF IInv

-----------------------------------------------------------------------------
\* A step that leaves the receiver and the line alone: of the task, or a send that ends.
RxUnchanged == UNCHANGED <<frameVars, frame, faults>>

LEMMA FrameKept == ASSUME FrameInv, LineInv, RxUnchanged PROVE FrameInv' /\ LineInv'
BY DEF FrameInv, LineInv, RxUnchanged, frameVars

\* fmt_sendMsg keeps the queue within its length, and the counts are counts.
LEMMA SendMsgOk ==
  ASSUME IInv, NEW message \in ErrorCounts, FmtSendMsg(message)
  PROVE  /\ sendQueue' \in Seq(ErrorCounts) /\ Len(sendQueue') <= SendQueueLength
         /\ errCounts' \in ErrorCounts
         /\ pc' = "startTxChain" /\ numReceived' = numReceived
<1>1. CASE /\ Len(sendQueue) < SendQueueLength
           /\ sendQueue' = Append(sendQueue, message) /\ UNCHANGED errCounts
  <2>1. Len(sendQueue') = Len(sendQueue) + 1 /\ sendQueue' \in Seq(ErrorCounts)
    BY <1>1 DEF IInv, CountsInv
  <2>2. Len(sendQueue) \in Nat
    BY DEF IInv, CountsInv
  <2> QED BY <1>1, <2>1, <2>2, QueueAssumption DEF IInv, TypeOK, FmtSendMsg
<1>2. CASE /\ UNCHANGED sendQueue
           /\ errCounts' = [errCounts EXCEPT !.sendQueueFull = @ + 1]
  <2>1. errCounts' \in ErrorCounts
    BY <1>2, CountsGoUp DEF IInv, TypeOK
  <2> QED BY <1>2, <2>1 DEF IInv, TypeOK, CountsInv, FmtSendMsg
<1> QED BY <1>1, <1>2 DEF FmtSendMsg

\* Taking the next message from the queue.
LEMMA SendNextOk ==
  ASSUME IInv, SendNext
  PROVE  /\ sendQueue' \in Seq(ErrorCounts) /\ Len(sendQueue') <= SendQueueLength
         /\ txPacket' \in ErrorCounts /\ txBusy' \in BOOLEAN
<1>1. CASE sendQueue # <<>>
  <2>1. /\ Head(sendQueue) \in ErrorCounts /\ Tail(sendQueue) \in Seq(ErrorCounts)
        /\ Len(Tail(sendQueue)) = Len(sendQueue) - 1 /\ Len(sendQueue) \in Nat
    BY <1>1 DEF IInv, CountsInv
  <2> QED BY <1>1, <2>1, QueueAssumption DEF IInv, TypeOK, SendNext
<1>2. CASE sendQueue = <<>>
  BY <1>2, NoErrorsCounts DEF IInv, TypeOK, CountsInv, SendNext, Telemetry
<1> QED BY <1>1, <1>2

\* What a step leaves alone or has shown of the rest of IInv.
Rest ==
  /\ Len(sendQueue) <= SendQueueLength
  /\ numReceived \in 0 .. RxQueueLength
  /\ {errCounts, prevErrCounts, txPacket, reported} \subseteq ErrorCounts
  /\ pc \in {"idle", "report", "startTxChain", "dequeue"}
  /\ txBusy \in BOOLEAN
  /\ faults \in 0 .. MaxFaults
  /\ CountsInv

LEMMA IInvParts == IInv <=> FrameInv /\ LineInv /\ Rest
BY FrameInvFits DEF IInv, TypeOK, Rest, FrameInv

LEMMA IInvPartsNext == FrameInv' /\ LineInv' /\ Rest' => IInv'
BY IInvParts, PTL

LEMMA TaskOk == ASSUME IInv, TaskRuns PROVE IInv'
<1> SUFFICES Rest'
  <2>1. RxUnchanged
    BY DEF TaskRuns, Task, RxUnchanged, lineVars, frameVars, StartTxChain, DequeueAndSend
  <2> QED BY <2>1, IInvParts, IInvPartsNext, FrameKept
<1>r. reported' \in {reported, txPacket'}
  BY DEF TaskRuns, Remember
<1>f. faults' = faults
  BY DEF TaskRuns, lineVars
<1>1. CASE SendTelemetry /\ UNCHANGED <<txBusy, txPacket, armRxError>>
  <2>1. FmtSendMsg(NoErrors)
    BY <1>1 DEF SendTelemetry, Telemetry
  <2> QED BY <1>1, <1>r, <1>f, <2>1, SendMsgOk, NoErrorsCounts
          DEF IInv, TypeOK, Rest, CountsInv, SendTelemetry
<1>2. CASE SendReport /\ UNCHANGED <<txBusy, txPacket, armRxError>>
  <2>1. FmtSendMsg(errCounts) /\ errCounts \in ErrorCounts
    BY <1>2 DEF SendReport, IInv, TypeOK
  <2> QED BY <1>2, <1>r, <1>f, <2>1, SendMsgOk
          DEF IInv, TypeOK, Rest, CountsInv, SendReport
<1>3. CASE ReportCommsErrors(armRxError) /\ UNCHANGED <<txBusy, txPacket, armRxError>>
  <2>1. [errCounts EXCEPT !.armRxError = armRxError] \in ErrorCounts
    BY DEF IInv, TypeOK, CountsInv, ErrorCounts
  <2> QED BY <1>3, <1>r, <1>f, <2>1
          DEF IInv, TypeOK, Rest, CountsInv, ReportCommsErrors
<1>4. CASE FmtGetMsg /\ UNCHANGED <<txBusy, txPacket, armRxError>>
  BY <1>4, <1>r, <1>f, QueueAssumption DEF IInv, TypeOK, Rest, CountsInv, FmtGetMsg
<1>5. CASE StartTxChain
  BY <1>5, <1>r, <1>f DEF IInv, TypeOK, Rest, CountsInv, StartTxChain
<1>6. CASE DequeueAndSend
  <2>1. SendNext
    BY <1>6 DEF DequeueAndSend
  <2> QED BY <1>6, <1>r, <1>f, <2>1, SendNextOk
          DEF IInv, TypeOK, Rest, CountsInv, DequeueAndSend
<1> QED BY <1>1, <1>2, <1>3, <1>4, <1>5, <1>6 DEF TaskRuns, Task

LEMMA SendEndsOk == ASSUME IInv, SendEnds PROVE IInv'
<1>1. SendNext /\ RxUnchanged
  BY DEF SendEnds, SendComplete, RxUnchanged, lineVars, frameVars
<1>2. Rest'
  BY <1>1, SendNextOk DEF IInv, TypeOK, Rest, CountsInv, SendEnds, SendComplete, Remember, lineVars
<1> QED BY <1>1, <1>2, IInvParts, IInvPartsNext, FrameKept

-----------------------------------------------------------------------------
\* A byte that the driver takes, from the line or spoilt.
LEMMA ReceiveOk ==
  ASSUME IInv, NEW byte \in Nat, ReceiveComplete(byte)
  PROVE  /\ FrameInv'
         /\ numReceived' \in 0 .. RxQueueLength /\ errCounts' \in ErrorCounts
         /\ UNCHANGED <<sendQueue, prevErrCounts, pc, txBusy, txPacket, armRxError>>
<1>1. FrameInv'
  BY ReceiveKeepsFrame DEF IInv, ReceiveComplete
<1>2. CASE UNCHANGED commsVars
  BY <1>1, <1>2 DEF IInv, TypeOK, ReceiveComplete, commsVars
<1>3. CASE AcceptMsgIfValid
  <2>1. CASE numReceived < RxQueueLength
    BY <1>1, <1>3, <2>1, QueueAssumption DEF IInv, TypeOK, ReceiveComplete, AcceptMsgIfValid
  <2>2. CASE ~(numReceived < RxQueueLength)
    <3>1. errCounts' = [errCounts EXCEPT !.rxQueueFull = @ + 1]
      BY <1>3, <2>2 DEF AcceptMsgIfValid
    <3>2. errCounts' \in ErrorCounts
      BY <3>1, CountsGoUp DEF IInv, TypeOK
    <3> QED BY <1>1, <1>3, <2>2, <3>2 DEF IInv, TypeOK, ReceiveComplete, AcceptMsgIfValid
  <2> QED BY <2>1, <2>2
<1> QED BY <1>2, <1>3 DEF ReceiveComplete

LEMMA ByteArrivesOk == ASSUME IInv, ByteArrives PROVE IInv'
<1>1. Head(frame) \in Nat /\ Tail(frame) \in Seq(Nat)
  BY DEF ByteArrives, IInv, LineInv
<1>2. ReceiveComplete(Head(frame)) /\ frame' = Tail(frame) /\ UNCHANGED <<faults, reported>>
  BY DEF ByteArrives
<1>3. LineInv'
  BY <1>1, <1>2 DEF LineInv
<1>4. FrameInv' /\ Rest'
  BY <1>1, <1>2, ReceiveOk DEF IInv, TypeOK, Rest, CountsInv
<1> QED BY <1>3, <1>4, IInvPartsNext

LEMMA SpoilOk ==
  ASSUME IInv, NEW remaining \in {frame, Tail(frame)}, NEW added, Spoil(remaining, added)
  PROVE  LineInv' /\ faults' \in 0 .. MaxFaults /\ reported' = reported
<1>1. remaining \in Seq(Nat)
  BY SMTT(30) DEF Spoil, IInv, LineInv
<1> QED BY <1>1, PeerAssumption DEF Spoil, IInv, TypeOK, LineInv

LEMMA LostOk == ASSUME IInv, ByteIsLost \/ DriverReportsError PROVE IInv'
<1>1. LineInv' /\ faults' \in 0 .. MaxFaults /\ reported' = reported
  BY SpoilOk DEF ByteIsLost, DriverReportsError
<1>2. CASE ByteIsLost
  <2>1. FrameInv' /\ Rest'
    BY <1>1, <1>2
       DEF IInv, TypeOK, Rest, CountsInv, FrameInv, ByteIsLost, uartVars, frameVars, commsVars
  <2> QED BY <1>1, <2>1, IInvPartsNext
<1>3. CASE DriverReportsError
  <2>1. FrameInv'
    BY <1>3 DEF DriverReportsError, RxError, AwaitStartCode, FrameInv, StartCodeSize
  <2>2. Rest'
    BY <1>1, <1>3, QueueAssumption
       DEF IInv, TypeOK, Rest, CountsInv, DriverReportsError, RxError, commsVars
  <2> QED BY <1>1, <2>1, <2>2, IInvPartsNext
<1> QED BY <1>2, <1>3

LEMMA NoiseOk ==
  ASSUME IInv, NEW byte \in Noise, ByteIsChanged(byte) \/ ByteIsAdded(byte) PROVE IInv'
<1>1. LineInv' /\ faults' \in 0 .. MaxFaults /\ reported' = reported
  BY SpoilOk DEF ByteIsChanged, ByteIsAdded
<1>2. byte \in Nat /\ ReceiveComplete(byte)
  BY PeerAssumption DEF ByteIsChanged, ByteIsAdded
<1>3. FrameInv' /\ Rest'
  BY <1>1, <1>2, ReceiveOk DEF IInv, TypeOK, Rest, CountsInv
<1> QED BY <1>1, <1>3, IInvPartsNext

LEMMA PeerOk ==
  ASSUME IInv, NEW packet \in PeerPackets, SendPacketUart(packet) PROVE IInv'
<1>1. LineInv'
  <2>1. packet \in Seq(Nat) /\ <<StartCode>> \in Seq(Nat)
    BY PeerAssumption, PacketSizeAssumption
  <2>2. frame' = <<StartCode>> \o packet
    BY DEF SendPacketUart
  <2> QED BY <2>1, <2>2 DEF LineInv
<1>2. FrameInv' /\ Rest'
  BY DEF IInv, TypeOK, Rest, CountsInv, FrameInv, SendPacketUart, uartVars, frameVars, commsVars
<1> QED BY <1>1, <1>2, IInvPartsNext

LEMMA UartInvariant == Spec => []IInv
<1>1. IInv /\ [Next]_vars => IInv'
  <2> SUFFICES ASSUME IInv, [Next]_vars PROVE IInv'
    OBVIOUS
  <2>1. CASE TaskRuns
    BY <2>1, TaskOk
  <2>2. CASE SendEnds
    BY <2>2, SendEndsOk
  <2>3. CASE \E packet \in PeerPackets : SendPacketUart(packet)
    BY <2>3, PeerOk
  <2>4. CASE ByteArrives
    BY <2>4, ByteArrivesOk
  <2>5. CASE ByteIsLost \/ DriverReportsError
    BY <2>5, LostOk
  <2>6. CASE \E byte \in Noise : ByteIsChanged(byte) \/ ByteIsAdded(byte)
    BY <2>6, NoiseOk
  <2>7. CASE UNCHANGED vars
    BY <2>7, IInvPartsNext
       DEF IInv, TypeOK, Rest, CountsInv, FrameInv, LineInv, vars, uartVars, lineVars,
           frameVars, commsVars
  <2> QED BY <2>1, <2>2, <2>3, <2>4, <2>5, <2>6, <2>7 DEF Next
<1> QED BY InitOk, <1>1, PTL DEF Spec

\* UartLink: for every packet size, line and load the receiver asks for segments that
\* fit its buffer, the queues keep within their lengths, and counts are counts.
THEOREM UartTypeCorrect == Spec => []TypeOK
<1>1. IInv => TypeOK
  BY DEF IInv
<1> QED BY <1>1, UartInvariant, PTL

\* fmt_uart.c:91-100: no packet waits with the driver idle unless the task is about to
\* start it, for queues of every length.
THEOREM TxChainIsNotCut == Spec => []TxChainNotCut
<1>1. Init => TxChainNotCut
  BY DEF Init, UartInit, CommsInit, TxChainNotCut
<1>2. TxChainNotCut /\ [Next]_vars => TxChainNotCut'
  <2> SUFFICES ASSUME TxChainNotCut, [Next]_vars PROVE TxChainNotCut'
    OBVIOUS
  <2> USE DEF TxChainNotCut
  <2>1. CASE TaskRuns
    <3>1. CASE SendTelemetry \/ SendReport
      BY <3>1 DEF SendTelemetry, SendReport, FmtSendMsg
    <3>2. CASE ReportCommsErrors(armRxError) /\ UNCHANGED txBusy
      BY <3>2 DEF ReportCommsErrors
    <3>3. CASE FmtGetMsg /\ UNCHANGED txBusy
      BY <3>3 DEF FmtGetMsg
    <3>4. CASE StartTxChain
      BY <3>4 DEF StartTxChain
    <3>5. CASE DequeueAndSend
      BY <3>5 DEF DequeueAndSend, SendNext
    <3> QED BY <2>1, <3>1, <3>2, <3>3, <3>4, <3>5 DEF TaskRuns, Task
  <2>2. CASE SendEnds
    BY <2>2 DEF SendEnds, SendComplete, SendNext
  <2>3. ASSUME NEW byte, ReceiveComplete(byte) PROVE TxChainNotCut'
    BY <2>3 DEF ReceiveComplete, AcceptMsgIfValid, commsVars
  <2>4. CASE ByteArrives \/ \E byte \in Noise : ByteIsChanged(byte) \/ ByteIsAdded(byte)
    BY <2>3, <2>4 DEF ByteArrives, ByteIsChanged, ByteIsAdded
  <2>5. CASE ByteIsLost \/ DriverReportsError
    BY <2>5 DEF ByteIsLost, DriverReportsError, RxError, uartVars, commsVars
  <2>6. CASE \E packet \in PeerPackets : SendPacketUart(packet)
    BY <2>6 DEF SendPacketUart, uartVars, commsVars
  <2>7. CASE UNCHANGED vars
    BY <2>7 DEF vars, uartVars, commsVars
  <2> QED BY <2>1, <2>2, <2>4, <2>5, <2>6, <2>7 DEF Next
<1> QED BY <1>1, <1>2, PTL DEF Spec

-----------------------------------------------------------------------------
\* A frame that came whole so far, to a receiver that awaited it: the bytes taken and
\* the bytes to come are the frame, and the segment ends where the frame does.
InFrame ==
  /\ rxPacket \o frame = <<StartCode>> \o sent
  /\ rxState = "AWAITING_PAYLOAD" => segment = Len(frame)

FrameEnded == heard /\ rxState = "AWAITING_START_CODE"

\* The frame on the line is what is left of a packet of the ESP32.
OnLine ==
  /\ sent \in Seq(Nat)
  /\ frame # <<>> => sent \in PeerPackets
  /\ Len(frame) <= Len(sent) + 1

CleanInv ==
  whole /\ inStep => IF frame = <<>> THEN FrameEnded ELSE InFrame

\* The driver takes the first byte on the line.
LEMMA MoveByte ==
  ASSUME NEW bytes \in Seq(Nat), NEW line \in Seq(Nat), line # <<>>
  PROVE  Append(bytes, Head(line)) \o Tail(line) = bytes \o line
<1>1. /\ Head(line) \in Nat /\ Head(line) = line[1] /\ Tail(line) \in Seq(Nat)
      /\ Len(Tail(line)) = Len(line) - 1 /\ Len(line) \in Nat \ {0}
      /\ \A i \in 1 .. Len(Tail(line)) : Tail(line)[i] = line[i + 1]
  BY HeadTailProperties, LenProperties
<1> DEFINE more == Append(bytes, Head(line))
<1>2. /\ more \in Seq(Nat) /\ Len(more) = Len(bytes) + 1 /\ Len(bytes) \in Nat
      /\ \A i \in 1 .. Len(bytes) : more[i] = bytes[i]
      /\ more[Len(bytes) + 1] = line[1]
  BY <1>1, AppendProperties
<1>3. /\ more \o Tail(line) \in Seq(Nat)
      /\ Len(more \o Tail(line)) = Len(bytes) + Len(line)
      /\ \A i \in 1 .. Len(bytes) + Len(line) : (more \o Tail(line))[i] =
           IF i <= Len(bytes) + 1 THEN more[i] ELSE Tail(line)[i - (Len(bytes) + 1)]
  <2> HIDE DEF more
  <2>1. Len(more) + Len(Tail(line)) = Len(bytes) + Len(line)
    BY <1>1, <1>2
  <2>2. /\ more \o Tail(line) \in Seq(Nat)
        /\ Len(more \o Tail(line)) = Len(more) + Len(Tail(line))
        /\ \A i \in 1 .. Len(more) + Len(Tail(line)) : (more \o Tail(line))[i] =
             IF i <= Len(more) THEN more[i] ELSE Tail(line)[i - Len(more)]
    BY <1>1, <1>2, ConcatProperties
  <2> QED BY <1>2, <2>1, <2>2
<1>4. /\ bytes \o line \in Seq(Nat)
      /\ Len(bytes \o line) = Len(bytes) + Len(line)
      /\ \A i \in 1 .. Len(bytes) + Len(line) : (bytes \o line)[i] =
           IF i <= Len(bytes) THEN bytes[i] ELSE line[i - Len(bytes)]
  BY ConcatProperties
<1>5. ASSUME NEW i \in 1 .. Len(bytes) + Len(line)
      PROVE  (more \o Tail(line))[i] = (bytes \o line)[i]
  <2> HIDE DEF more
  <2>1. CASE i <= Len(bytes)
    BY <1>2, <1>3, <1>4, <2>1
  <2>2. CASE i = Len(bytes) + 1
    BY <1>2, <1>3, <1>4, <2>2
  <2>3. CASE i > Len(bytes) + 1
    <3>1. i - (Len(bytes) + 1) \in 1 .. Len(Tail(line))
      BY <1>1, <1>2, <2>3
    <3>2. Tail(line)[i - (Len(bytes) + 1)] = line[i - Len(bytes)]
      BY <1>1, <1>2, <3>1
    <3> QED
      BY SMTT(30), <1>2, <1>3, <1>4, <2>3, <3>2
  <2> QED
    BY SMTT(30), <1>2, <2>1, <2>2, <2>3
<1> QED
  <2> HIDE DEF more
  <2>1. more \o Tail(line) = bytes \o line
    BY <1>3, <1>4, <1>5, SeqEqual
  <2> QED
    BY <2>1 DEF more

\* A packet of the ESP32 is as long as its first byte says, and not only that byte.
LEMMA PeerPacketFacts ==
  ASSUME NEW packet \in PeerPackets
  PROVE  /\ packet \in Seq(Nat) /\ packet # <<>>
         /\ Head(packet) \in Nat /\ LengthValid(Head(packet))
         /\ Len(packet) \in Nat /\ Len(packet) > 1
         /\ Len(packet) = PacketLength(Head(packet)) - LengthPosition
<1>1. /\ packet \in Seq(Nat) /\ packet # <<>> /\ LengthValid(packet[1])
      /\ Len(packet) = PacketLength(packet[1]) - LengthPosition
  BY PeerAssumption
<1>2. Head(packet) = packet[1] /\ Head(packet) \in Nat /\ Len(packet) \in Nat
  BY <1>1
<1>3. /\ PacketLength(packet[1]) - PayloadPosition \in Nat
      /\ PacketLength(packet[1]) - PayloadPosition > 0
  BY <1>1, <1>2, PayloadFits
<1>4. PacketLength(packet[1]) \in Nat
  BY <1>2 DEF PacketLength, CrcPosition, LengthPosition, StartCodeSize, CrcSize
<1> QED
  BY <1>1, <1>2, <1>3, <1>4 DEF PayloadPosition, LengthPosition, StartCodeSize

\* A frame is the start code and a packet.
LEMMA FullFrameFacts ==
  ASSUME NEW packet \in Seq(Nat)
  PROVE  /\ <<StartCode>> \o packet \in Seq(Nat)
         /\ Len(<<StartCode>> \o packet) = Len(packet) + 1
         /\ <<StartCode>> \o packet # <<>>
         /\ Head(<<StartCode>> \o packet) = StartCode
         /\ Tail(<<StartCode>> \o packet) = packet
         /\ <<>> \o (<<StartCode>> \o packet) = <<StartCode>> \o packet
<1>1. StartCode \in Nat /\ <<StartCode>> \in Seq(Nat) /\ Len(<<StartCode>>) = 1
  BY PacketSizeAssumption
<1> DEFINE full == <<StartCode>> \o packet
<1>2. /\ full \in Seq(Nat) /\ Len(full) = Len(packet) + 1 /\ Len(packet) \in Nat
      /\ \A i \in 1 .. Len(packet) + 1 :
           full[i] = IF i <= 1 THEN <<StartCode>>[i] ELSE packet[i - 1]
  BY <1>1, ConcatProperties
<1> HIDE DEF full
<1>3. full # <<>> /\ Head(full) = full[1] /\ full[1] = StartCode
  BY <1>2
<1>4. /\ Tail(full) \in Seq(Nat) /\ Len(Tail(full)) = Len(packet)
      /\ \A i \in 1 .. Len(packet) : Tail(full)[i] = full[i + 1]
  BY <1>2, <1>3, HeadTailProperties
<1>5. \A i \in 1 .. Len(packet) : Tail(full)[i] = packet[i]
  BY SMTT(30), <1>2, <1>4
<1>6. Tail(full) = packet
  BY <1>4, <1>5, SeqEqual
<1>7. <<>> \o full = full
  BY <1>2, ConcatEmptySeq
<1> QED
  BY <1>2, <1>3, <1>6, <1>7 DEF full

LEMMA OnLineInit == Init => OnLine
<1> SUFFICES ASSUME Init PROVE OnLine
  OBVIOUS
<1>1. frame = <<>> /\ sent = <<>> /\ <<>> \in Seq(Nat) /\ Len(<<>>) = 0
  BY DEF Init
<1> QED
  BY <1>1 DEF OnLine

\* A step of the edge controller alone.
LEMMA OnLineRest ==
  ASSUME OnLine, UNCHANGED <<frame, sent>> PROVE OnLine'
BY DEF OnLine

\* The line only gets shorter until a frame begins.
LEMMA OnLineStep ==
  ASSUME IInv, OnLine, [Next]_vars
  PROVE  OnLine'
<1>1. frame \in Seq(Nat)
  BY DEF IInv, LineInv
<1>2. ASSUME frame # <<>>, frame' \in {frame, Tail(frame)}, sent' = sent PROVE OnLine'
  <2>1. Len(Tail(frame)) = Len(frame) - 1 /\ Len(frame) \in Nat /\ Len(sent) \in Nat
    BY <1>1, <1>2 DEF OnLine
  <2> QED
    BY <1>2, <2>1 DEF OnLine
<1>3. ASSUME NEW packet \in PeerPackets, SendPacketUart(packet) PROVE OnLine'
  <2>1. frame' = <<StartCode>> \o packet /\ sent' = packet
    BY <1>3 DEF SendPacketUart
  <2>2. packet \in Seq(Nat) /\ Len(frame') = Len(packet) + 1 /\ Len(packet) \in Nat
    BY <2>1, PeerPacketFacts, FullFrameFacts
  <2> QED
    BY <2>1, <2>2 DEF OnLine
<1>4. CASE ByteArrives
  BY <1>2, <1>4 DEF ByteArrives
<1>5. ASSUME NEW remaining \in {frame, Tail(frame)}, NEW added, Spoil(remaining, added)
      PROVE  OnLine'
  BY <1>2, <1>5 DEF Spoil
<1>6. CASE ByteIsLost \/ DriverReportsError
  BY <1>5, <1>6 DEF ByteIsLost, DriverReportsError
<1>7. ASSUME NEW byte \in Noise, ByteIsChanged(byte) \/ ByteIsAdded(byte) PROVE OnLine'
  BY <1>5, <1>7 DEF ByteIsChanged, ByteIsAdded
<1>8. CASE TaskRuns \/ SendEnds \/ UNCHANGED vars
  BY <1>8, OnLineRest DEF TaskRuns, SendEnds, lineVars, vars
<1> QED
  BY <1>3, <1>4, <1>6, <1>7, <1>8 DEF Next

\* A step of the task, or a send that ends, leaves receiver and line as they are.
LEMMA OtherSteps ==
  ASSUME TaskRuns \/ SendEnds \/ UNCHANGED vars
  PROVE  UNCHANGED <<frameVars, lineVars>>
BY DEF TaskRuns, Task, SendEnds, SendComplete, StartTxChain, DequeueAndSend, vars, uartVars

-----------------------------------------------------------------------------
\* The next byte of a frame that is clean so far.
LEMMA CleanByte ==
  ASSUME IInv, OnLine, frame # <<>>, InFrame, ByteArrives
  PROVE  IF frame' = <<>> THEN FrameEnded' ELSE InFrame'
<1> DEFINE b == Head(frame)
           full == <<StartCode>> \o sent
<1>1. /\ frame \in Seq(Nat) /\ b \in Nat /\ Len(frame) \in Nat \ {0}
      /\ Tail(frame) \in Seq(Nat) /\ Len(Tail(frame)) = Len(frame) - 1
      /\ frame' = Tail(frame) /\ sent' = sent
      /\ heard' = (HandsOver /\ PacketWith(b) = sent)
      /\ ReceiveByte(b)
  BY DEF IInv, LineInv, ByteArrives, ReceiveComplete
<1>2. /\ sent \in PeerPackets /\ sent \in Seq(Nat) /\ sent # <<>>
      /\ Head(sent) \in Nat /\ LengthValid(Head(sent))
      /\ Len(sent) \in Nat /\ Len(sent) > 1
      /\ Len(sent) = PacketLength(Head(sent)) - LengthPosition
  BY PeerPacketFacts DEF OnLine
<1>3. /\ full \in Seq(Nat) /\ Len(full) = Len(sent) + 1
      /\ Head(full) = StartCode /\ Tail(full) = sent /\ <<>> \o full = full
  BY <1>2, FullFrameFacts
<1>4. rxPacket \in Seq(Nat) /\ Append(rxPacket, b) \o frame' = full
  BY <1>1, MoveByte DEF InFrame, IInv, FrameInv
<1>5. rxPacket \o frame = full
  BY DEF InFrame
<1> HIDE DEF full, b
<1>6. Len(rxPacket) + Len(frame) = Len(sent) + 1 /\ Len(rxPacket) \in Nat
  <2>1. Len(rxPacket \o frame) = Len(rxPacket) + Len(frame) /\ Len(rxPacket) \in Nat
    BY <1>1, <1>4, ConcatProperties
  <2> QED
    BY <1>3, <1>5, <2>1
<1>7. CASE rxState = "AWAITING_START_CODE"
  <2>1. rxPacket = <<>> /\ segment = 1
    BY <1>7 DEF IInv, FrameInv
  <2>2. frame = full
    BY <1>1, <1>5, <2>1, ConcatEmptySeq
  <2>3. b = StartCode /\ frame' = sent
    BY <1>1, <1>3, <2>2 DEF b
  <2>4. rxState' = "AWAITING_LENGTH_BYTE" /\ rxPacket' = Append(rxPacket, b)
    BY <1>1, <1>7, <2>1, <2>3 DEF ReceiveByte, IsStartCode, AwaitLength
  <2> QED
    BY <1>1, <1>2, <1>4, <2>3, <2>4 DEF InFrame, full
<1>8. CASE rxState = "AWAITING_LENGTH_BYTE"
  <2>1. Len(rxPacket) = 1 /\ segment = 1
    BY <1>8 DEF IInv, FrameInv
  <2>2. b = Head(sent) /\ frame = sent
    <3>1. Len(frame) = Len(sent)
      BY <1>1, <1>2, <1>6, <2>1
    <3>2. \A i \in 1 .. Len(sent) : frame[i] = full[i + 1]
      <4> SUFFICES ASSUME NEW i \in 1 .. Len(sent) PROVE frame[i] = full[i + 1]
        OBVIOUS
      <4>1. i + 1 \in 1 .. Len(rxPacket) + Len(frame) /\ ~(i + 1 <= Len(rxPacket))
            /\ (i + 1) - Len(rxPacket) = i
        BY <1>2, <2>1, <3>1
      <4> QED
        BY <1>1, <1>4, <1>5, <4>1, ConcatProperties
    <3>3. \A i \in 1 .. Len(Tail(full)) : Tail(full)[i] = full[i + 1]
      <4>1. full # <<>>
        BY <1>2, <1>3
      <4> QED
        BY <1>3, <4>1, HeadTailProperties
    <3>4. frame = sent
      BY <1>1, <1>2, <1>3, <3>1, <3>2, <3>3, SeqEqual
    <3> QED
      BY <3>4 DEF b
  <2>3. /\ rxState' = "AWAITING_PAYLOAD" /\ rxPacket' = Append(rxPacket, b)
        /\ segment' = PacketLength(b) - PayloadPosition
    BY <1>1, <1>2, <1>8, <2>1, <2>2 DEF ReceiveByte, AwaitPayload
  <2>4. segment' = Len(frame') /\ frame' # <<>>
    <3>1. PacketLength(b) \in Nat
      BY <1>1 DEF PacketLength, CrcPosition, LengthPosition, StartCodeSize, CrcSize
    <3>2. Len(frame') = Len(sent) - 1
      BY <1>1, <2>2
    <3>3. Len(sent) = PacketLength(b) - 1
      BY <1>2, <2>2 DEF LengthPosition, StartCodeSize
    <3>4. Len(frame') > 0
      BY <1>2, <3>2
    <3> QED
      BY <2>3, <3>1, <3>2, <3>3, <3>4 DEF PayloadPosition, LengthPosition, StartCodeSize
  <2> QED
    BY <1>1, <1>4, <2>3, <2>4 DEF InFrame, full
<1>9. CASE rxState = "AWAITING_PAYLOAD" /\ segment > 1
  <2>1. segment = Len(frame)
    BY <1>9 DEF InFrame
  <2>2. rxPacket' = Append(rxPacket, b) /\ segment' = segment - 1 /\ rxState' = rxState
    BY <1>1, <1>9 DEF ReceiveByte
  <2>3. segment' = Len(frame') /\ frame' # <<>>
    BY SMTT(30), <1>1, <1>9, <2>1, <2>2
  <2> QED
    BY <1>1, <1>4, <2>2, <2>3 DEF InFrame, full
<1>10. CASE rxState = "AWAITING_PAYLOAD" /\ segment = 1
  <2>1. frame' = <<>>
    <3>1. Len(Tail(frame)) = 0
      BY <1>1, <1>10 DEF InFrame
    <3> QED
      BY <1>1, <3>1, EmptySeq
  <2>2. Append(rxPacket, b) = full
    <3>1. Append(rxPacket, b) \in Seq(Nat)
      BY <1>1, <1>4, AppendByte
    <3> QED
      BY <1>4, <2>1, <3>1, ConcatEmptySeq
  <2>3. heard'
    BY <1>1, <1>3, <1>10, <2>2 DEF HandsOver, PacketWith
  <2>4. rxState' = "AWAITING_START_CODE"
    BY <1>1, <1>10 DEF ReceiveByte, AwaitStartCode
  <2> QED
    BY <2>1, <2>3, <2>4 DEF FrameEnded
<1> QED
  BY <1>7, <1>8, <1>9, <1>10 DEF IInv, FrameInv

LEMMA CleanInit == Init => CleanInv
BY DEF Init, CleanInv

\* Only SendPacketUart begins a frame, and whatever spoils one says so.
LEMMA CleanStep ==
  ASSUME IInv, OnLine, CleanInv, [Next]_vars
  PROVE  CleanInv'
<1> SUFFICES ASSUME whole', inStep'
             PROVE  IF frame' = <<>> THEN FrameEnded' ELSE InFrame'
  BY DEF CleanInv
<1>1. ASSUME NEW packet \in PeerPackets, SendPacketUart(packet)
      PROVE  IF frame' = <<>> THEN FrameEnded' ELSE InFrame'
  <2>1. /\ frame' = <<StartCode>> \o packet /\ sent' = packet
        /\ rxState = "AWAITING_START_CODE" /\ UNCHANGED frameVars
    BY <1>1 DEF SendPacketUart, uartVars
  <2>2. rxPacket' = <<>> /\ rxState' = "AWAITING_START_CODE"
    BY <2>1 DEF IInv, FrameInv, frameVars
  <2>3. /\ <<>> \o (<<StartCode>> \o packet) = <<StartCode>> \o packet
        /\ <<StartCode>> \o packet # <<>>
    BY PeerPacketFacts, FullFrameFacts
  <2> QED
    BY <2>1, <2>2, <2>3 DEF InFrame
<1>2. CASE ByteArrives
  <2>1. whole /\ inStep /\ frame # <<>>
    BY <1>2 DEF ByteArrives
  <2> QED
    BY <1>2, <2>1, CleanByte DEF CleanInv
<1>3. CASE TaskRuns \/ SendEnds \/ UNCHANGED vars
  <2>1. UNCHANGED <<rxState, rxPacket, segment, frame, sent, inStep, whole, heard>>
    BY <1>3, OtherSteps DEF frameVars, lineVars
  <2>2. whole /\ inStep
    BY <2>1
  <2>3. IF frame = <<>> THEN FrameEnded ELSE InFrame
    BY <2>2 DEF CleanInv
  <2>4. (FrameEnded' <=> FrameEnded) /\ (InFrame' <=> InFrame)
    BY <2>1 DEF FrameEnded, InFrame
  <2> QED
    BY <2>1, <2>3, <2>4
<1>4. ASSUME NEW remaining, NEW added, Spoil(remaining, added) PROVE FALSE
  BY <1>4 DEF Spoil
<1>5. CASE ByteIsLost \/ DriverReportsError
  BY <1>4, <1>5 DEF ByteIsLost, DriverReportsError
<1>6. CASE \E byte \in Noise : ByteIsChanged(byte) \/ ByteIsAdded(byte)
  BY <1>4, <1>6 DEF ByteIsChanged, ByteIsAdded
<1> QED
  BY <1>1, <1>2, <1>3, <1>5, <1>6 DEF Next

\* handleRxSegment: for every packet, with start codes, lengths and padding inside it, a
\* frame that meets a receiver in step and is not spoilt is handed over as it was sent,
\* and leaves the receiver in step.
THEOREM CleanFramesAreHanded == Spec => []CleanFrameIsHanded
<1>1. Init => OnLine /\ CleanInv
  BY OnLineInit, CleanInit
<1>2. IInv /\ OnLine /\ CleanInv /\ [Next]_vars => OnLine' /\ CleanInv'
  BY OnLineStep, CleanStep
<1>3. CleanInv => CleanFrameIsHanded
  BY DEF CleanInv, FrameEnded, CleanFrameIsHanded
<1> QED
  BY <1>1, <1>2, <1>3, UartInvariant, PTL DEF Spec

-----------------------------------------------------------------------------
\* The bytes of later frames that the receiver still takes for this packet.
Owed ==
  IF rxState = "AWAITING_PAYLOAD" /\ segment > Len(frame) THEN segment - Len(frame) ELSE 0

\* The frame on the line began while the receiver was in another: it will be missed.
Late == IF frame # <<>> /\ ~inStep THEN 1 ELSE 0

\* With no start code in a packet, the first byte of a frame alone is one.
StartsFrame ==
  \A i \in 1 .. Len(frame) : frame[i] = StartCode => i = 1 /\ Len(frame) = Len(sent) + 1

\* No start code and no length was spoilt, so that the receiver reads no other length.
LengthIsTrue ==
  /\ frame # <<>> /\ Len(frame) >= Len(sent) => whole
  /\ rxState = "AWAITING_LENGTH_BYTE" => whole /\ inStep /\ frame # <<>>
  /\ Len(frame) > Len(sent) /\ ~inStep => rxState = "AWAITING_PAYLOAD"

\* Each fault pays for one packet: the receiver owes as many bytes as it lacks, and every
\* packet that it then misses has paid one of them with its start code at the least.
FaultsPay == missed + Owed + Late <= faults

DamageInv ==
  /\ missed \in Nat /\ missed <= faults
  /\ tame => StartsFrame /\ LengthIsTrue /\ FaultsPay

\* What the proofs below know of every state.
LinkInv == IInv /\ OnLine /\ CleanInv

LEMMA LinkInvariant == Spec => []LinkInv
<1>1. Init => OnLine /\ CleanInv
  BY OnLineInit, CleanInit
<1>2. IInv /\ OnLine /\ CleanInv /\ [Next]_vars => OnLine' /\ CleanInv'
  BY OnLineStep, CleanStep
<1> QED
  BY <1>1, <1>2, UartInvariant, PTL DEF Spec, LinkInv

LEMMA LineFacts ==
  ASSUME LinkInv
  PROVE  /\ frame \in Seq(Nat) /\ Len(frame) \in Nat
         /\ sent \in Seq(Nat) /\ Len(sent) \in Nat
         /\ Len(frame) <= Len(sent) + 1
         /\ segment \in Nat /\ segment > 0
         /\ faults \in Nat
         /\ Owed \in Nat /\ Late \in {0, 1}
<1>1. frame \in Seq(Nat) /\ sent \in Seq(Nat) /\ Len(frame) <= Len(sent) + 1
  BY DEF LinkInv, IInv, LineInv, OnLine
<1>2. Len(frame) \in Nat /\ Len(sent) \in Nat
  BY <1>1, LenProperties
<1>3. segment \in Nat /\ segment > 0
  BY DEF LinkInv, IInv, FrameInv
<1>4. faults \in Nat
  BY PeerAssumption DEF LinkInv, IInv, TypeOK
<1> QED
  BY <1>1, <1>2, <1>3, <1>4 DEF Owed, Late

OwedOK == Owed \in Nat /\ Late \in {0, 1}

LEMMA OwedFacts == LinkInv => OwedOK
BY LineFacts DEF OwedOK

LEMMA OwedFactsNext == LinkInv' => Owed' \in Nat /\ Late' \in {0, 1}
<1>1. LinkInv' => OwedOK'
  BY OwedFacts, PTL
<1> QED
  BY <1>1 DEF OwedOK

\* The length is the next byte of the line when the receiver awaits it in step.
LEMMA LengthIsNext ==
  ASSUME LinkInv, whole, inStep, frame # <<>>, rxState = "AWAITING_LENGTH_BYTE"
  PROVE  Len(frame) = Len(sent)
<1>1. rxPacket \in Seq(Nat) /\ Len(rxPacket) = 1
  BY DEF LinkInv, IInv, FrameInv
<1>2. rxPacket \o frame = <<StartCode>> \o sent
  BY DEF LinkInv, CleanInv, InFrame
<1>3. Len(rxPacket \o frame) = Len(rxPacket) + Len(frame)
  BY <1>1, LineFacts, ConcatProperties
<1>4. Len(<<StartCode>> \o sent) = Len(sent) + 1
  BY LineFacts, FullFrameFacts
<1> QED
  BY <1>1, <1>2, <1>3, <1>4, LineFacts

\* A byte within a packet brings its end nearer by one.
LEMMA PayloadByte ==
  ASSUME LinkInv, NEW byte \in Nat, ReceiveByte(byte), rxState = "AWAITING_PAYLOAD"
  PROVE  \/ rxState' = "AWAITING_PAYLOAD" /\ segment' = segment - 1
         \/ rxState' = "AWAITING_START_CODE" /\ segment = 1
BY DEF ReceiveByte, AwaitStartCode

\* A receiver that awaits a start code goes on when it comes.
LEMMA StartByte ==
  ASSUME LinkInv, NEW byte \in Nat, ReceiveByte(byte), rxState = "AWAITING_START_CODE"
  PROVE  rxState' = IF byte = StartCode THEN "AWAITING_LENGTH_BYTE" ELSE "AWAITING_START_CODE"
<1>1. segment = 1
  BY DEF LinkInv, IInv, FrameInv
<1> QED
  BY <1>1 DEF ReceiveByte, IsStartCode, AwaitLength, AwaitStartCode

LEMMA DamageInit == Init => DamageInv
<1> SUFFICES ASSUME Init PROVE DamageInv
  OBVIOUS
<1>1. /\ frame = <<>> /\ sent = <<>> /\ Len(<<>>) = 0 /\ missed = 0 /\ faults = 0
      /\ rxState = "AWAITING_START_CODE"
  BY DEF Init, UartInit, FrameInit
<1>2. Owed = 0 /\ Late = 0
  BY <1>1 DEF Owed, Late
<1> QED
  BY <1>1, <1>2 DEF DamageInv, StartsFrame, LengthIsTrue, FaultsPay

-----------------------------------------------------------------------------
LEMMA DamagePeer ==
  ASSUME LinkInv, LinkInv', DamageInv, NEW packet \in PeerPackets, SendPacketUart(packet)
  PROVE  DamageInv'
<1>1. /\ frame = <<>> /\ frame' = <<StartCode>> \o packet /\ sent' = packet
      /\ inStep' = (rxState = "AWAITING_START_CODE") /\ whole'
      /\ tame' = (tame /\ \A i \in 1 .. Len(packet) : packet[i] # StartCode)
      /\ missed' = missed /\ faults' = faults
      /\ rxState' = rxState /\ segment' = segment
  BY DEF SendPacketUart, uartVars, frameVars
<1>2. packet \in Seq(Nat) /\ Len(packet) \in Nat /\ Len(packet) > 1
  BY PeerPacketFacts
<1>3. frame' # <<>> /\ Len(frame') = Len(packet) + 1
  BY <1>1, <1>2, FullFrameFacts
<1> SUFFICES ASSUME tame' PROVE StartsFrame' /\ LengthIsTrue' /\ FaultsPay'
  BY <1>1 DEF DamageInv
<1>4. StartsFrame /\ LengthIsTrue /\ FaultsPay
  BY <1>1 DEF DamageInv
<1>5. rxState \in {"AWAITING_START_CODE", "AWAITING_PAYLOAD"}
  BY <1>1, <1>4 DEF LengthIsTrue, LinkInv, IInv, FrameInv
<1>6. StartsFrame'
  <2> SUFFICES ASSUME NEW i \in 1 .. Len(frame'), frame'[i] = StartCode PROVE i = 1
    BY <1>1, <1>3 DEF StartsFrame
  <2>1. ASSUME i # 1 PROVE FALSE
    <3>1. i - 1 \in 1 .. Len(packet) /\ ~(i <= 1) /\ i \in 1 .. 1 + Len(packet)
      BY <1>2, <1>3, <2>1
    <3>2. <<StartCode>> \in Seq(Nat) /\ Len(<<StartCode>>) = 1
      BY PacketSizeAssumption
    <3>3. frame'[i] = packet[i - 1]
      BY <1>1, <1>2, <3>1, <3>2, ConcatProperties
    <3> QED
      BY <1>1, <3>1, <3>3
  <2> QED
    BY <2>1
<1>7. LengthIsTrue'
  BY <1>1, <1>5 DEF LengthIsTrue
<1>8. FaultsPay'
  <2>1. CASE rxState = "AWAITING_START_CODE"
    <3>1. Owed' = 0 /\ Late' = 0
      BY <1>1, <2>1 DEF Owed, Late
    <3> QED
      BY <1>1, <1>4, <3>1, LineFacts DEF FaultsPay, DamageInv
  <2>2. CASE rxState = "AWAITING_PAYLOAD"
    <3>1. Owed = segment /\ Late = 0
      BY <1>1, <2>2, LineFacts DEF Owed, Late
    <3>2. Owed' \in Nat /\ Owed' <= segment - 1
      <4>1. Len(frame') \in Nat /\ Len(frame') > 1 /\ segment \in Nat /\ segment > 0
        BY <1>2, <1>3, LineFacts
      <4>2. Owed' = IF segment > Len(frame') THEN segment - Len(frame') ELSE 0
        BY <1>1, <2>2 DEF Owed
      <4> QED
        BY <4>1, <4>2
    <3>3. Late' \in {0, 1}
      BY OwedFactsNext
    <3> QED
      BY <1>1, <1>4, <3>1, <3>2, <3>3, LineFacts DEF FaultsPay, DamageInv
  <2> QED
    BY <1>5, <2>1, <2>2
<1> QED
  BY <1>6, <1>7, <1>8

LEMMA DamageByte ==
  ASSUME LinkInv, LinkInv', DamageInv, ByteArrives
  PROVE  DamageInv'
<1> DEFINE b == Head(frame)
<1>1. /\ frame # <<>> /\ frame' = Tail(frame) /\ ReceiveByte(b)
      /\ missed' = IF Len(frame) = 1 /\ whole /\ ~heard' /\ tame THEN missed + 1 ELSE missed
      /\ UNCHANGED <<sent, inStep, whole, tame, faults>>
  BY DEF ByteArrives, ReceiveComplete
<1>2. /\ b \in Nat /\ b = frame[1] /\ Len(frame') = Len(frame) - 1 /\ Len(frame) > 0
      /\ \A i \in 1 .. Len(frame') : frame'[i] = frame[i + 1]
  BY <1>1, LineFacts, HeadTailProperties
<1> HIDE DEF b
<1>3. CASE ~tame
  BY <1>1, <1>3 DEF DamageInv
<1>4. CASE tame
  <2> USE <1>4
  <2>1. tame /\ StartsFrame /\ LengthIsTrue /\ FaultsPay
    BY DEF DamageInv
  <2>2. StartsFrame'
    <3> SUFFICES ASSUME NEW i \in 1 .. Len(frame'), frame'[i] = StartCode PROVE FALSE
      BY DEF StartsFrame
    <3>1. Len(frame) \in Nat /\ frame'[i] = frame[i + 1]
      BY <1>2, LineFacts
    <3>2. i + 1 \in 1 .. Len(frame) /\ i + 1 # 1
      BY <1>2, <3>1
    <3> QED
      BY <2>1, <3>1, <3>2 DEF StartsFrame
  <2>3. b = StartCode => Len(frame) = Len(sent) + 1
    <3>1. 1 \in 1 .. Len(frame)
      BY <1>2, LineFacts
    <3> QED
      BY <1>2, <2>1, <3>1 DEF StartsFrame
  <2>4. rxState = "AWAITING_LENGTH_BYTE" => whole /\ inStep /\ Len(frame) = Len(sent)
    BY <1>1, <2>1, LengthIsNext DEF LengthIsTrue
  <2>5. rxState \in {"AWAITING_START_CODE", "AWAITING_LENGTH_BYTE", "AWAITING_PAYLOAD"}
    BY DEF LinkInv, IInv, FrameInv
  <2>6. LengthIsTrue'
    <3>1. frame' # <<>> /\ Len(frame') >= Len(sent) => whole
      BY <1>1, <1>2, <2>1, LineFacts DEF LengthIsTrue
    <3>2. ASSUME rxState' = "AWAITING_LENGTH_BYTE" PROVE whole /\ inStep /\ frame' # <<>>
      <4>1. rxState = "AWAITING_START_CODE" /\ b = StartCode
        <5>1. rxState # "AWAITING_PAYLOAD"
          BY <1>1, <1>2, <3>2, PayloadByte
        <5>2. rxState # "AWAITING_LENGTH_BYTE"
          BY <1>1, <3>2 DEF LinkInv, IInv, FrameInv, ReceiveByte, AwaitPayload, AwaitStartCode
        <5> QED
          BY <1>1, <1>2, <2>5, <3>2, <5>1, <5>2, StartByte
      <4>2. Len(frame) = Len(sent) + 1
        BY <2>3, <4>1
      <4>3. whole /\ inStep
        BY <1>1, <2>1, <4>1, <4>2, LineFacts DEF LengthIsTrue
      <4>4. sent \in PeerPackets
        BY <1>1 DEF LinkInv, OnLine
      <4>5. Len(frame') > 0
        BY <1>2, <4>2, <4>4, LineFacts, PeerPacketFacts
      <4> QED
        BY <4>3, <4>5
    <3>3. ~(Len(frame') > Len(sent))
      BY <1>2, LineFacts
    <3> QED
      BY <1>1, <3>1, <3>2, <3>3 DEF LengthIsTrue
  <2>7. Owed' <= Owed
    <3>1. CASE rxState = "AWAITING_PAYLOAD"
      <4>1. CASE rxState' = "AWAITING_PAYLOAD" /\ segment' = segment - 1
        BY <1>2, <3>1, <4>1, LineFacts DEF Owed
      <4>2. CASE rxState' = "AWAITING_START_CODE"
        BY <4>2, LineFacts DEF Owed
      <4> QED
        BY <1>1, <1>2, <3>1, <4>1, <4>2, PayloadByte
    <3>2. CASE rxState = "AWAITING_START_CODE"
      <4>1. rxState' # "AWAITING_PAYLOAD"
        BY <1>1, <1>2, <3>2, StartByte
      <4> QED
        BY <4>1, LineFacts DEF Owed
    <3>3. CASE rxState = "AWAITING_LENGTH_BYTE"
      <4>1. whole' /\ inStep'
        BY <1>1, <2>4, <3>3
      <4>2. rxState' = "AWAITING_PAYLOAD" => segment' = Len(frame')
        BY <4>1 DEF LinkInv, CleanInv, InFrame, FrameEnded
      <4>3. Owed' = 0
        BY <4>2, LineFacts, OwedFactsNext DEF Owed
      <4> QED
        BY <4>3, LineFacts
    <3> QED
      BY <2>5, <3>1, <3>2, <3>3
  <2>8. missed' + Late' <= missed + Late /\ missed' \in Nat
    <3>1. CASE Len(frame) = 1 /\ whole /\ ~heard'
      <4>1. frame' = <<>>
        <5>1. Tail(frame) \in Seq(Nat) /\ Len(frame') = 0
          BY <1>1, <1>2, <3>1, LineFacts, HeadTailProperties
        <5> QED
          BY <1>1, <5>1, EmptySeq
      <4>2. ~inStep
        BY <1>1, <3>1, <4>1 DEF LinkInv, CleanInv, FrameEnded
      <4>3. Late = 1 /\ Late' = 0
        BY <1>1, <4>1, <4>2 DEF Late
      <4>4. missed' = missed + 1
        BY <1>1, <3>1
      <4> QED
        BY <4>3, <4>4 DEF DamageInv
    <3>2. CASE ~(Len(frame) = 1 /\ whole /\ ~heard')
      <4>1. missed' = missed
        BY <1>1, <3>2
      <4>2. Late' <= Late
        BY <1>1 DEF Late
      <4> QED
        BY <4>1, <4>2, LineFacts, OwedFactsNext DEF DamageInv
    <3> QED
      BY <3>1, <3>2
  <2>9. FaultsPay' /\ missed' <= faults'
    BY SMTT(30), <1>1, <2>1, <2>7, <2>8, LineFacts, OwedFactsNext DEF FaultsPay, DamageInv
  <2> QED
    BY <2>2, <2>6, <2>8, <2>9 DEF DamageInv
<1> QED
  BY <1>3, <1>4

\* A fault that is not tame ends what the property is about.
LEMMA DamageWild ==
  ASSUME LinkInv, DamageInv, NEW remaining, NEW added, Spoil(remaining, added), ~tame'
  PROVE  DamageInv'
<1>1. missed' = missed /\ faults' = faults + 1
  BY DEF Spoil
<1> QED
  BY <1>1, LineFacts DEF DamageInv

\* One more fault pays for one more packet that the receiver may come to miss.
LEMMA OneFaultMore ==
  ASSUME LinkInv, LinkInv', DamageInv, FaultsPay,
         missed' = missed, faults' = faults + 1, Owed' <= Owed + 1, Late' <= Late
  PROVE  FaultsPay' /\ missed' <= faults'
<1>1. /\ Owed \in Nat /\ Late \in Nat /\ faults \in Nat /\ missed \in Nat
      /\ Owed' \in Nat /\ Late' \in Nat
  BY LineFacts, OwedFactsNext DEF DamageInv
<1>2. missed + Owed + Late <= faults
  BY DEF FaultsPay
<1>3. \A m, o, l, f, o1, l1 \in Nat :
        m + o + l <= f /\ o1 <= o + 1 /\ l1 <= l => m + o1 + l1 <= f + 1
  OBVIOUS
<1>4. missed + Owed' + Late' <= faults + 1
  BY <1>1, <1>2, <1>3, Zenon
<1>5. missed <= faults + 1
  BY <1>1 DEF DamageInv
<1> QED
  BY <1>4, <1>5 DEF FaultsPay

\* The receiver is past the length, and a tame fault leaves the start codes where they
\* are; a byte that is lost is one that the receiver lacks.
LEMMA DamageTame ==
  ASSUME LinkInv, LinkInv', DamageInv,
         NEW remaining \in {frame, Tail(frame)}, NEW added, Spoil(remaining, added), tame',
         rxState' # "AWAITING_LENGTH_BYTE",
         Owed' <= Owed + 1
  PROVE  DamageInv'
<1>1. /\ frame # <<>> /\ frame' = remaining /\ tame /\ Len(frame) < Len(sent)
      /\ missed' = missed /\ faults' = faults + 1 /\ UNCHANGED <<sent, inStep>>
  BY DEF Spoil, TameFault
<1>2. StartsFrame /\ FaultsPay
  BY <1>1 DEF DamageInv
<1>3. /\ Len(Tail(frame)) = Len(frame) - 1
      /\ \A i \in 1 .. Len(Tail(frame)) : Tail(frame)[i] = frame[i + 1]
  BY <1>1, LineFacts, HeadTailProperties
<1>4. \A i \in 1 .. Len(frame) : frame[i] # StartCode
  <2>1. Len(frame) # Len(sent) + 1
    BY <1>1, LineFacts
  <2> QED
    BY <1>2, <2>1 DEF StartsFrame
<1>5. StartsFrame'
  <2>1. CASE frame' = frame
    BY <1>4, <2>1 DEF StartsFrame
  <2>2. CASE frame' = Tail(frame)
    <3> SUFFICES ASSUME NEW i \in 1 .. Len(Tail(frame)) PROVE Tail(frame)[i] # StartCode
      BY <2>2 DEF StartsFrame
    <3>1. i + 1 \in 1 .. Len(frame)
      BY <1>3, LineFacts
    <3> QED
      BY <1>3, <1>4, <3>1
  <2> QED
    BY <1>1, <2>1, <2>2
<1>6. Len(frame') < Len(sent)
  BY SMTT(30), <1>1, <1>3, LineFacts
<1>7. LengthIsTrue'
  BY <1>1, <1>6, LineFacts DEF LengthIsTrue
<1>8. Late' <= Late
  BY <1>1 DEF Late
<1>9. FaultsPay' /\ missed' <= faults'
  BY <1>1, <1>2, <1>8, OneFaultMore
<1> QED
  BY <1>1, <1>5, <1>7, <1>9 DEF DamageInv

LEMMA DamageLost ==
  ASSUME LinkInv, LinkInv', DamageInv, ByteIsLost
  PROVE  DamageInv'
<1>1. /\ Spoil(Tail(frame), {}) /\ frame # <<>> /\ frame' = Tail(frame)
      /\ rxState' = rxState /\ segment' = segment
  BY DEF ByteIsLost, Spoil, uartVars, frameVars
<1>2. CASE ~tame'
  BY <1>1, <1>2, DamageWild
<1>3. CASE tame'
  <2>1. tame /\ Len(frame) < Len(sent)
    BY <1>1, <1>3 DEF Spoil, TameFault
  <2>2. rxState # "AWAITING_LENGTH_BYTE"
    BY <1>1, <2>1, LengthIsNext, LineFacts DEF DamageInv, LengthIsTrue
  <2>3. Len(frame') = Len(frame) - 1
    BY <1>1, LineFacts, HeadTailProperties
  <2>4. Owed' <= Owed + 1
    BY <1>1, <2>3, LineFacts DEF Owed
  <2> QED
    BY <1>1, <1>3, <2>2, <2>4, DamageTame
<1> QED
  BY <1>2, <1>3

LEMMA DamageAdded ==
  ASSUME LinkInv, LinkInv', DamageInv, NEW byte \in Nat, ByteIsAdded(byte)
  PROVE  DamageInv'
<1>1. /\ Spoil(frame, {byte}) /\ frame # <<>> /\ frame' = frame /\ ReceiveByte(byte)
  BY DEF ByteIsAdded, Spoil, ReceiveComplete
<1>2. CASE ~tame'
  BY <1>1, <1>2, DamageWild
<1>3. CASE tame'
  <2>1. tame /\ Len(frame) < Len(sent) /\ byte # StartCode
    BY <1>1, <1>3 DEF Spoil, TameFault
  <2>2. rxState # "AWAITING_LENGTH_BYTE"
    BY <1>1, <2>1, LengthIsNext, LineFacts DEF DamageInv, LengthIsTrue
  <2>3. CASE rxState = "AWAITING_START_CODE"
    <3>1. rxState' = "AWAITING_START_CODE"
      BY <1>1, <2>1, <2>3, StartByte
    <3>2. Owed' <= Owed + 1
      BY <3>1, LineFacts DEF Owed
    <3> QED
      BY <1>1, <1>3, <3>1, <3>2, DamageTame
  <2>4. CASE rxState = "AWAITING_PAYLOAD"
    <3>1. \/ rxState' = "AWAITING_PAYLOAD" /\ segment' = segment - 1
          \/ rxState' = "AWAITING_START_CODE"
      BY <1>1, <2>4, PayloadByte
    <3>2. Owed' <= Owed + 1
      <4>1. CASE rxState' = "AWAITING_PAYLOAD" /\ segment' = segment - 1
        BY <1>1, <2>4, <4>1, LineFacts DEF Owed
      <4>2. CASE rxState' = "AWAITING_START_CODE"
        BY <4>2, LineFacts DEF Owed
      <4> QED
        BY <3>1, <4>1, <4>2
    <3> QED
      BY <1>1, <1>3, <3>1, <3>2, DamageTame
  <2> QED
    BY <2>2, <2>3, <2>4 DEF LinkInv, IInv, FrameInv
<1> QED
  BY <1>2, <1>3

\* uartFrameTest.cpp:103-130, for every set of packets without start codes, any number
\* of lost and added bytes in any places after the length, and any frames between them:
\* never more packets that came whole are missed than bytes were spoilt.
THEOREM FaultsCostOnePacketEach == Spec => []DropsAtMost1ValidPacket
<1>1. LinkInv /\ LinkInv' /\ DamageInv /\ [Next]_vars => DamageInv'
  <2> SUFFICES ASSUME LinkInv, LinkInv', DamageInv, [Next]_vars PROVE DamageInv'
    OBVIOUS
  <2>1. ASSUME NEW packet \in PeerPackets, SendPacketUart(packet) PROVE DamageInv'
    BY <2>1, DamagePeer
  <2>2. CASE ByteArrives
    BY <2>2, DamageByte
  <2>3. CASE ByteIsLost
    BY <2>3, DamageLost
  <2>4. CASE DriverReportsError
    <3>1. Spoil(Tail(frame), {StartCode})
      BY <2>4 DEF DriverReportsError
    <3>2. ~tame'
      BY <3>1 DEF Spoil, TameFault
    <3> QED
      BY <3>1, <3>2, DamageWild
  <2>5. ASSUME NEW byte \in Noise, ByteIsChanged(byte) PROVE DamageInv'
    <3>1. Spoil(Tail(frame), {byte, StartCode})
      BY <2>5 DEF ByteIsChanged
    <3>2. ~tame'
      BY <3>1 DEF Spoil, TameFault
    <3> QED
      BY <3>1, <3>2, DamageWild
  <2>6. ASSUME NEW byte \in Noise, ByteIsAdded(byte) PROVE DamageInv'
    BY <2>6, PeerAssumption, DamageAdded
  <2>7. CASE TaskRuns \/ SendEnds \/ UNCHANGED vars
    <3>1. UNCHANGED <<rxState, segment, frame, sent, inStep, whole, tame, missed, faults>>
      BY <2>7, OtherSteps DEF frameVars, lineVars
    <3>2. Owed' = Owed /\ Late' = Late
      BY <3>1 DEF Owed, Late
    <3> QED
      BY <3>1, <3>2 DEF DamageInv, StartsFrame, LengthIsTrue, FaultsPay
  <2> QED
    BY <2>1, <2>2, <2>3, <2>4, <2>5, <2>6, <2>7 DEF Next
<1>2. DamageInv => DropsAtMost1ValidPacket
  BY DEF DamageInv, DropsAtMost1ValidPacket
<1> QED
  BY DamageInit, <1>1, <1>2, LinkInvariant, PTL DEF Spec
=============================================================================
