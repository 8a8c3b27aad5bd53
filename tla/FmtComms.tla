------------------------------- MODULE FmtComms -------------------------------
(***************************************************************************)
(* firmware/fmt_comms.c: messages to and from packets, between the two     *)
(* queues and the transport.  fmt_sendMsg, fmt_getMsg and                  *)
(* reportCommsErrors run in the periodic task, acceptMsgIfValid in the     *)
(* receive interrupt, which may come between any two steps of the task.    *)
(***************************************************************************)
EXTENDS Naturals, Sequences

CONSTANTS
  SendQueueLength,  \* SEND_QUEUE_LENGTH
  RxQueueLength     \* RX_QUEUE_LENGTH

ASSUME QueueAssumption ==
  SendQueueLength \in Nat \ {0} /\ RxQueueLength \in Nat \ {0}

VARIABLES
  sendQueue,
  numReceived,     \* packets in rxQueue
  errCounts,       \* what is dropped because a queue is full, and errors of the driver
  prevErrCounts,   \* the counts when the last report was made
  pc               \* of the periodic task

commsVars == <<sendQueue, numReceived, errCounts, prevErrCounts, pc>>

ErrorCounts == [sendQueueFull : Nat, rxQueueFull : Nat, armRxError : Nat]

NoErrors == [sendQueueFull |-> 0, rxQueueFull |-> 0, armRxError |-> 0]

CommsInit ==
  /\ sendQueue = <<>> /\ numReceived = 0
  /\ errCounts = NoErrors /\ prevErrCounts = NoErrors
  /\ pc = "idle"

\* A message is known by the counts of errors it carries; telemetry carries none.
Telemetry == NoErrors

-----------------------------------------------------------------------------
\* fmt_sendMsg up to fmt_startTxChain; enqueueBack is atomic (module Queue).
FmtSendMsg(message) ==
  /\ IF Len(sendQueue) < SendQueueLength
       THEN /\ sendQueue' = Append(sendQueue, message)
            /\ UNCHANGED errCounts
       ELSE /\ errCounts' = [errCounts EXCEPT !.sendQueueFull = @ + 1]
            /\ UNCHANGED sendQueue
  /\ pc' = "startTxChain"
  /\ UNCHANGED numReceived

SendTelemetry == pc = "idle" /\ FmtSendMsg(Telemetry) /\ UNCHANGED prevErrCounts

\* reportCommsErrors: the counts of the transport, the comparison, the copy ...
ReportCommsErrors(armRxError) ==
  LET counts == [errCounts EXCEPT !.armRxError = armRxError] IN
  /\ pc = "idle"
  /\ counts # prevErrCounts
  /\ prevErrCounts' = counts
  /\ errCounts' = counts
  /\ pc' = "report"
  /\ UNCHANGED <<sendQueue, numReceived>>

\* A slip: the copy is made when the message was sent, dropped or not.
CopyAfterReport ==
  /\ pc = "report"
  /\ FmtSendMsg(errCounts)
  /\ prevErrCounts' = errCounts'

\* ... and the message, with the counts as they are now.
SendReport == pc = "report" /\ FmtSendMsg(errCounts) /\ UNCHANGED prevErrCounts

FmtGetMsg ==
  /\ pc = "idle"
  /\ numReceived > 0
  /\ numReceived' = numReceived - 1
  /\ UNCHANGED <<sendQueue, errCounts, prevErrCounts, pc>>

\* acceptMsgIfValid, of any packet: checkCRCMatch compares the CRC and returns whether
\* the engine computed one, so that the comparison has no effect.
AcceptMsgIfValid ==
  /\ IF numReceived < RxQueueLength
       THEN /\ numReceived' = numReceived + 1
            /\ UNCHANGED errCounts
       ELSE /\ errCounts' = [errCounts EXCEPT !.rxQueueFull = @ + 1]
            /\ UNCHANGED numReceived
  /\ UNCHANGED <<sendQueue, prevErrCounts, pc>>
=============================================================================
