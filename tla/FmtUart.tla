------------------------------- MODULE FmtUart -------------------------------
(***************************************************************************)
(* firmware/fmt_uart.c, with the periodic task that fmt_comms.c runs in    *)
(* and the driver's event handler, which preempts the task and is not      *)
(* preempted.  The driver reports a segment that is complete, an error of  *)
(* the line, and the end of a send.                                        *)
(***************************************************************************)
EXTENDS UartFrame, FmtComms

VARIABLES
  txBusy,      \* GetStatus().tx_busy
  txPacket,    \* the message being sent, if any
  armRxError   \* uartErrCount.armRxError

uartVars == <<frameVars, commsVars, txBusy, txPacket, armRxError>>

UartInit ==
  /\ FrameInit
  /\ CommsInit
  /\ txBusy = FALSE /\ txPacket = Telemetry /\ armRxError = 0

-----------------------------------------------------------------------------
\* uart_startTxChain, once the driver is not busy: dequeueFront and Send.  Nobody else
\* dequeues while the driver is idle, so that the two are one step.
SendNext ==
  IF sendQueue # <<>>
    THEN /\ txPacket' = Head(sendQueue) /\ txBusy' = TRUE
         /\ sendQueue' = Tail(sendQueue)
    ELSE txPacket' = Telemetry /\ txBusy' = FALSE /\ UNCHANGED sendQueue

\* The task reads tx_busy ...
StartTxChain ==
  /\ pc = "startTxChain"
  /\ pc' = IF txBusy THEN "idle" ELSE "dequeue"
  /\ UNCHANGED <<frameVars, sendQueue, numReceived, errCounts, prevErrCounts>>
  /\ UNCHANGED <<txBusy, txPacket, armRxError>>

\* ... and sends.
DequeueAndSend ==
  /\ pc = "dequeue"
  /\ SendNext
  /\ pc' = "idle"
  /\ UNCHANGED <<frameVars, numReceived, errCounts, prevErrCounts, armRxError>>

Task ==
  \/ /\ SendTelemetry \/ ReportCommsErrors(armRxError) \/ SendReport \/ FmtGetMsg
     /\ UNCHANGED <<frameVars, txBusy, txPacket, armRxError>>
  \/ StartTxChain
  \/ DequeueAndSend

-----------------------------------------------------------------------------
\* A slip: the handler leaves the chain to the next fmt_sendMsg.
SendCompleteOnly ==
  /\ txBusy
  /\ txBusy' = FALSE /\ txPacket' = Telemetry
  /\ UNCHANGED <<frameVars, commsVars, armRxError>>

\* uartEventHandlerISR: the end of a send takes the chain up.
SendComplete ==
  /\ txBusy
  /\ SendNext
  /\ UNCHANGED <<frameVars, numReceived, errCounts, prevErrCounts, pc, armRxError>>

\* ... a byte arrives; the last of a packet hands it to the message layer ...
ReceiveComplete(byte) ==
  /\ ReceiveByte(byte)
  /\ IF HandsOver THEN AcceptMsgIfValid ELSE UNCHANGED commsVars
  /\ UNCHANGED <<txBusy, txPacket, armRxError>>

\* ... the driver gives a byte up: framing, parity, overflow, break.
RxError ==
  /\ AwaitStartCode
  /\ armRxError' = armRxError + 1
  /\ UNCHANGED <<commsVars, txBusy, txPacket>>
=============================================================================
