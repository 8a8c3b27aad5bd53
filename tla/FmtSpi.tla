-------------------------------- MODULE FmtSpi --------------------------------
(***************************************************************************)
(* firmware/fmt_spi.c: the SPI transport of the edge controller, which is  *)
(* the main side of the bus.  spi_startTxChain is called by the periodic   *)
(* task (fmt_sendMsg) and by the interrupt handlers of the clear-to-send   *)
(* and message-waiting pins; the third handler is that of the SPI driver.  *)
(* The handlers have one priority: they preempt the task between any two   *)
(* of its steps, and one another never.                                    *)
(***************************************************************************)
EXTENDS Naturals

CONSTANTS
  SendQueueLength,  \* SEND_QUEUE_LENGTH
  Task,             \* periodicA
  Isr               \* the handlers, whichever runs

ASSUME SpiAssumption == SendQueueLength \in Nat \ {0} /\ Task # Isr

Contexts == {Task, Isr}

VARIABLES
  numSending,   \* how many packets sendQueue holds
  txPacket,     \* "fresh" from the queue, "empty", or "sent": handed to the driver
  spiBusy,      \* spi->GetStatus().busy
  slaveSelect,  \* the SS line
  ctsIocOn,     \* the clear-to-send interrupt is enabled
  pending,      \* interrupts that wait to be taken
  pc,           \* where a context is in spi_startTxChain
  txWaiting,    \* the local variable of that name
  onWire,       \* the driver clocks bits
  cts, msgWaiting  \* the two pins that the sub drives

spiVars == <<numSending, txPacket, spiBusy, slaveSelect, ctsIocOn, pending, pc, txWaiting, onWire>>
pins == <<cts, msgWaiting>>

SpiInit ==
  /\ numSending = 0
  /\ txPacket = "empty"
  /\ spiBusy = FALSE
  /\ slaveSelect = FALSE
  /\ ctsIocOn = FALSE
  /\ pending = {}
  /\ pc = [c \in Contexts |-> "idle"]
  /\ txWaiting = [c \in Contexts |-> FALSE]
  /\ onWire = FALSE

Goes(c, from, to) ==
  /\ pc[c] = from
  /\ c = Task => pc[Isr] = "idle"
  /\ pc' = [pc EXCEPT ![c] = to]

-----------------------------------------------------------------------------
(* Who calls spi_startTxChain.                                             *)

\* fmt_sendMsg: enqueueBack, which a full queue refuses, then fmt_startTxChain.
SendMsg ==
  /\ Goes(Task, "idle", "testBusy")
  /\ numSending' = IF numSending < SendQueueLength THEN numSending + 1 ELSE numSending
  /\ UNCHANGED <<txPacket, spiBusy, slaveSelect, ctsIocOn, pending, txWaiting, onWire, pins>>

Takes(interrupt, to) ==
  /\ interrupt \in pending
  /\ pending' = pending \ {interrupt}
  /\ Goes(Isr, "idle", to)

SubMsgWaitingISR ==
  /\ Takes("msgWaiting", "testBusy")
  /\ UNCHANGED <<numSending, txPacket, spiBusy, slaveSelect, ctsIocOn, txWaiting, onWire, pins>>

\* One shot: the handler disables its own interrupt first.
SubClearToSendISR ==
  /\ Takes("clearToSend", "testBusy")
  /\ ctsIocOn' = FALSE
  /\ UNCHANGED <<numSending, txPacket, spiBusy, slaveSelect, txWaiting, onWire, pins>>

\* A slip, for checking that the properties notice: the handler relies on a clear-to-send interrupt that is still enabled.
CompleteUnarmed ==
  /\ "complete" \in pending
  /\ pc[Isr] = "idle"
  /\ pending' = pending \ {"complete"}
  /\ spiBusy' = FALSE
  /\ slaveSelect' = FALSE
  /\ UNCHANGED <<numSending, txPacket, ctsIocOn, pc, txWaiting, onWire, pins>>

\* TRANSFER_COMPLETE: the driver is free again, rxPacket goes to rxCallback, and
\* the next rising edge of clear-to-send continues the chain.
SpiEventHandlerISR ==
  /\ "complete" \in pending
  /\ pc[Isr] = "idle"
  /\ pending' = pending \ {"complete"}
  /\ spiBusy' = FALSE
  /\ slaveSelect' = FALSE
  /\ ctsIocOn' = TRUE
  /\ UNCHANGED <<numSending, txPacket, pc, txWaiting, onWire, pins>>

-----------------------------------------------------------------------------
(* spi_startTxChain, step by step.                                         *)

TestBusy(c) ==
  /\ \/ spiBusy /\ Goes(c, "testBusy", "idle")
     \/ ~spiBusy /\ Goes(c, "testBusy", "testCts")
  /\ UNCHANGED <<numSending, txPacket, spiBusy, slaveSelect, ctsIocOn, pending, txWaiting, onWire, pins>>

TestClearToSend(c) ==
  /\ \/ cts /\ Goes(c, "testCts", "countItems")
     \/ ~cts /\ Goes(c, "testCts", "arm")
  /\ UNCHANGED <<numSending, txPacket, spiBusy, slaveSelect, ctsIocOn, pending, txWaiting, onWire, pins>>

EnableCtsIoc(c) ==
  /\ Goes(c, "arm", "idle")
  /\ ctsIocOn' = TRUE
  /\ UNCHANGED <<numSending, txPacket, spiBusy, slaveSelect, pending, txWaiting, onWire, pins>>

CountItems(c) ==
  /\ Goes(c, "countItems", "testMsgWaiting")
  /\ txWaiting' = [txWaiting EXCEPT ![c] = numSending > 0]
  /\ UNCHANGED <<numSending, txPacket, spiBusy, slaveSelect, ctsIocOn, pending, onWire, pins>>

TestMsgWaiting(c) ==
  /\ \/ (txWaiting[c] \/ msgWaiting) /\ Goes(c, "testMsgWaiting", "fill")
     \/ ~(txWaiting[c] \/ msgWaiting) /\ Goes(c, "testMsgWaiting", "idle")
  /\ UNCHANGED <<numSending, txPacket, spiBusy, slaveSelect, ctsIocOn, pending, txWaiting, onWire, pins>>

\* A slip: while the sub has messages, only empty packets go out.
FillForSubFirst(c) ==
  /\ Goes(c, "fill", "select")
  /\ \/ /\ ~msgWaiting /\ numSending > 0
        /\ numSending' = numSending - 1
        /\ txPacket' = "fresh"
     \/ /\ msgWaiting
        /\ txPacket' = "empty"
        /\ UNCHANGED numSending
     \/ ~msgWaiting /\ numSending = 0 /\ UNCHANGED <<numSending, txPacket>>
  /\ txWaiting' = [txWaiting EXCEPT ![c] = FALSE]
  /\ UNCHANGED <<spiBusy, slaveSelect, ctsIocOn, pending, onWire, pins>>

\* Nothing looks at what dequeueFront returned: when the queue has run empty
\* meanwhile, txPacket keeps the packet it held.
FillTxPacket(c) ==
  /\ Goes(c, "fill", "select")
  /\ \/ /\ txWaiting[c] /\ numSending > 0
        /\ numSending' = numSending - 1
        /\ txPacket' = "fresh"
     \/ txWaiting[c] /\ numSending = 0 /\ UNCHANGED <<numSending, txPacket>>
     \/ /\ ~txWaiting[c]
        /\ txPacket' = "empty"
        /\ UNCHANGED numSending
  /\ txWaiting' = [txWaiting EXCEPT ![c] = FALSE]
  /\ UNCHANGED <<spiBusy, slaveSelect, ctsIocOn, pending, onWire, pins>>

ActivateSlaveSelect(c) ==
  /\ Goes(c, "select", "transfer")
  /\ slaveSelect' = TRUE
  /\ UNCHANGED <<numSending, txPacket, spiBusy, ctsIocOn, pending, txWaiting, onWire, pins>>

\* A driver that is busy refuses.  Nothing looks at what Transfer returned.
Transfer(c) ==
  /\ Goes(c, "transfer", "idle")
  /\ \/ /\ ~spiBusy
        /\ spiBusy' = TRUE /\ onWire' = TRUE
        /\ txPacket' = "sent"
     \/ spiBusy /\ UNCHANGED <<spiBusy, onWire, txPacket>>
  /\ UNCHANGED <<numSending, slaveSelect, ctsIocOn, pending, txWaiting, pins>>

StartTxChain(c) ==
  \/ TestBusy(c) \/ TestClearToSend(c) \/ EnableCtsIoc(c)
  \/ CountItems(c) \/ TestMsgWaiting(c) \/ FillTxPacket(c)
  \/ ActivateSlaveSelect(c) \/ Transfer(c)

TakeInterrupt == SubMsgWaitingISR \/ SubClearToSendISR \/ SpiEventHandlerISR
=============================================================================
