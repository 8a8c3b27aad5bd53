------------------------------- MODULE SpiLink -------------------------------
(***************************************************************************)
(* The SPI link: FmtSpi on the edge controller, and on the ESP32 the sub   *)
(* of esp/mqtt5/main/fmt_esp_spi.c, which has at most TransactionQueueLen  *)
(* transactions set up, tells the main through one pin that it is ready    *)
(* and through another that it holds messages.  The ESP32 has two cores    *)
(* and no lock: sendPacketSpi and my_post_trans_cb, which write the same   *)
(* counter and the same pin, are taken step by step.  (The counter of the  *)
(* prequeue is taken apart in module EspSpi.)                              *)
(***************************************************************************)
EXTENDS FmtSpi, Sequences

CONSTANTS
  TransactionQueueLen,  \* TRANSACTION_QUEUE_LEN
  TxPrequeueLen         \* TX_PREQUEUE_LEN

ASSUME SubAssumption == {TransactionQueueLen, TxPrequeueLen} \subseteq Nat \ {0}

VARIABLES
  trans,     \* queued with the slave driver: "real" ones and ones without message
  finished,  \* transactions waitForSpiRx has not collected yet
  subPhase,  \* "idle", "ready" (set up), "done" (clocked out); in my_post_trans_cb
             \* "loaded", "lower" and "release"
  heard,     \* what the sub takes of the bits on the wire: "none", "part", "whole"
  numWaiting,               \* txPreQ.numWaiting
  lastRealMessagePosition,  \* below zero it is not told from zero
  positionRead,  \* what my_post_trans_cb has loaded of it
  sendPc,        \* of the MQTT task in sendPacketSpi: "idle", "counted" or "placed"
  countRead,     \* what it has loaded of numWaiting
  raced          \* history: the last store of sendPacketSpi fell between the load of
                 \* my_post_trans_cb and its write of the pin

queueVars == <<trans, finished, numWaiting>>
sendVars == <<sendPc, countRead, raced>>
positionVars == <<lastRealMessagePosition, positionRead>>
subVars == <<queueVars, subPhase, heard, positionVars, sendVars>>
vars == <<spiVars, pins, subVars>>

Init ==
  /\ SpiInit
  /\ cts = FALSE /\ msgWaiting = FALSE
  /\ trans = <<>> /\ finished = 0 /\ subPhase = "idle" /\ heard = "none"
  /\ numWaiting = 0 /\ lastRealMessagePosition = 0 /\ positionRead = 0
  /\ sendPc = "idle" /\ countRead = 0 /\ raced = FALSE

\* The main's part of a step; when a transfer starts, the sub hears it from its
\* start if it has a transaction set up and is selected.
Listens == IF subPhase = "ready" /\ slaveSelect THEN "whole" ELSE "none"

SubHears ==
  /\ heard' = IF ~onWire /\ onWire' THEN Listens ELSE heard
  /\ UNCHANGED <<queueVars, subPhase, positionVars, sendVars>>

MainStep ==
  \/ SendMsg /\ SubHears
  \/ TakeInterrupt /\ SubHears
  \/ \E c \in Contexts : StartTxChain(c) /\ SubHears

-----------------------------------------------------------------------------
\* The last bit is clocked.  A transaction that the sub heard, in whole or in part,
\* is over for it.
WireEnds ==
  /\ onWire
  /\ onWire' = FALSE
  /\ pending' = pending \cup {"complete"}
  /\ subPhase' = IF heard = "none" THEN subPhase ELSE "done"
  /\ heard' = "none"
  /\ UNCHANGED <<numSending, txPacket, spiBusy, slaveSelect, ctsIocOn, pc, txWaiting, pins>>
  /\ UNCHANGED <<queueVars, positionVars, sendVars>>

\* sendPacketSpi, called by the MQTT task, counts the packet in; a full queue drops it ...
CountPacket ==
  /\ sendPc = "idle"
  /\ numWaiting < TxPrequeueLen
  /\ numWaiting' = numWaiting + 1
  /\ countRead' = numWaiting'
  /\ sendPc' = "counted"
  /\ UNCHANGED <<spiVars, pins, trans, finished, subPhase, heard, positionVars, raced>>

\* A slip: the position of the last message counts the prequeue only.
PositionInPrequeue(count) == count

PositionOf(count) == count + TransactionQueueLen

\* ... stores the position of the last message, from its register or by another load ...
StorePosition ==
  /\ sendPc = "counted"
  /\ \E count \in {countRead, numWaiting} : lastRealMessagePosition' = PositionOf(count)
  /\ raced' = (subPhase \in {"loaded", "lower"})
  /\ sendPc' = "placed"
  /\ countRead' = 0
  /\ UNCHANGED <<spiVars, pins, queueVars, subPhase, heard, positionRead>>

\* ... and raises the pin.
RaiseMsgWaiting ==
  /\ sendPc = "placed"
  /\ sendPc' = "idle"
  /\ msgWaiting' = TRUE
  /\ pending' = IF msgWaiting THEN pending ELSE pending \cup {"msgWaiting"}
  /\ UNCHANGED <<numSending, txPacket, spiBusy, slaveSelect, ctsIocOn, pc, txWaiting, onWire, cts>>
  /\ UNCHANGED <<queueVars, subPhase, heard, positionVars, countRead, raced>>

\* A slip: one transaction more than there are buffers for.
AddOneTooMany ==
  /\ Len(trans) + finished <= TransactionQueueLen
  /\ trans' = Append(trans, IF numWaiting > 0 THEN "real" ELSE "nada")
  /\ numWaiting' = IF numWaiting > 0 THEN numWaiting - 1 ELSE 0
  /\ UNCHANGED <<spiVars, pins, finished, subPhase, heard, positionVars, sendVars>>

\* addToTransactionQueue: the next message, or a packet without one.
AddToTransactionQueue ==
  /\ Len(trans) + finished < TransactionQueueLen
  /\ trans' = Append(trans, IF numWaiting > 0 THEN "real" ELSE "nada")
  /\ numWaiting' = IF numWaiting > 0 THEN numWaiting - 1 ELSE 0
  /\ UNCHANGED <<spiVars, pins, finished, subPhase, heard, positionVars, sendVars>>

\* spi_slave_get_trans_result hands waitForSpiRx a finished transaction.
Collect ==
  /\ finished > 0
  /\ finished' = finished - 1
  /\ UNCHANGED <<spiVars, pins, trans, subPhase, heard, numWaiting, positionVars, sendVars>>

\* A slip: the sub gets ready and says nothing.
SetUpSilently ==
  /\ subPhase = "idle" /\ trans # <<>>
  /\ subPhase' = "ready"
  /\ heard' = IF onWire /\ slaveSelect THEN "part" ELSE heard
  /\ UNCHANGED <<spiVars, pins, queueVars, positionVars, sendVars>>

\* The slave driver sets up the next transaction and calls my_post_setup_cb.  A sub
\* that gets ready while bits are on the wire hears the rest of them.
PostSetup ==
  /\ subPhase = "idle" /\ trans # <<>>
  /\ subPhase' = "ready"
  /\ cts' = TRUE
  /\ pending' = IF ~cts /\ ctsIocOn THEN pending \cup {"clearToSend"} ELSE pending
  /\ heard' = IF onWire /\ slaveSelect THEN "part" ELSE heard
  /\ UNCHANGED <<numSending, txPacket, spiBusy, slaveSelect, ctsIocOn, pc, txWaiting, onWire>>
  /\ UNCHANGED <<msgWaiting, queueVars, positionVars, sendVars>>

\* my_post_trans_cb, some time after the last bit, loads the position of the last
\* message ...
LoadPosition ==
  /\ subPhase = "done"
  /\ subPhase' = "loaded"
  /\ positionRead' = lastRealMessagePosition
  /\ UNCHANGED <<spiVars, pins, queueVars, heard, lastRealMessagePosition, sendVars>>

\* ... counts this transaction off and tests ...
CountOff ==
  /\ subPhase = "loaded"
  /\ lastRealMessagePosition' = IF positionRead > 0 THEN positionRead - 1 ELSE 0
  /\ subPhase' = IF positionRead > 1 THEN "release" ELSE "lower"
  /\ positionRead' = 0
  /\ UNCHANGED <<spiVars, pins, queueVars, heard, sendVars>>

\* ... lowers the pin if that was the last message ...
LowerMsgWaiting ==
  /\ subPhase = "lower"
  /\ subPhase' = "release"
  /\ msgWaiting' = FALSE
  /\ UNCHANGED <<spiVars, cts, queueVars, heard, positionVars, sendVars>>

\* ... and the other.  The driver hands the transaction back.
PostTrans ==
  /\ subPhase = "release"
  /\ subPhase' = "idle"
  /\ cts' = FALSE
  /\ trans' = Tail(trans)
  /\ finished' = finished + 1
  /\ UNCHANGED <<spiVars, msgWaiting, numWaiting, heard, positionVars, sendVars>>

Next ==
  \/ MainStep
  \/ WireEnds
  \/ CountPacket
  \/ StorePosition
  \/ RaiseMsgWaiting
  \/ AddToTransactionQueue
  \/ Collect
  \/ PostSetup
  \/ LoadPosition
  \/ CountOff
  \/ LowerMsgWaiting
  \/ PostTrans

\* Nobody stops: the main's processor, whose periodicA sends telemetry for ever
\* (comm_handleTelemetry), its interrupts, the bits on the wire, and on the ESP32 the
\* loop, the slave driver and a call of sendPacketSpi.
Fairness ==
  /\ WF_vars(SendMsg /\ SubHears)
  /\ WF_vars(TakeInterrupt /\ SubHears)
  /\ \A c \in Contexts : WF_vars(StartTxChain(c) /\ SubHears)
  /\ WF_vars(WireEnds)
  /\ WF_vars(AddToTransactionQueue \/ Collect)
  /\ WF_vars(PostSetup \/ LoadPosition \/ CountOff \/ LowerMsgWaiting \/ PostTrans)
  /\ WF_vars(StorePosition \/ RaiseMsgWaiting)

Spec == Init /\ [][Next]_vars /\ Fairness

-----------------------------------------------------------------------------
TypeOK ==
  /\ numSending \in 0 .. SendQueueLength
  /\ txPacket \in {"fresh", "empty", "sent"}
  /\ spiBusy \in BOOLEAN /\ slaveSelect \in BOOLEAN /\ ctsIocOn \in BOOLEAN
  /\ onWire \in BOOLEAN /\ cts \in BOOLEAN /\ msgWaiting \in BOOLEAN
  /\ pending \subseteq {"clearToSend", "msgWaiting", "complete"}
  /\ pc \in [Contexts -> {"idle", "testBusy", "testCts", "arm", "countItems",
                          "testMsgWaiting", "fill", "select", "transfer"}]
  /\ txWaiting \in [Contexts -> BOOLEAN]
  /\ trans \in Seq({"real", "nada"})
  /\ finished \in Nat
  /\ Len(trans) + finished <= TransactionQueueLen
  /\ subPhase \in {"idle", "ready", "done", "loaded", "lower", "release"}
  /\ heard \in {"none", "part", "whole"}
  /\ numWaiting \in 0 .. TxPrequeueLen
  /\ {lastRealMessagePosition, positionRead} \subseteq 0 .. TxPrequeueLen + TransactionQueueLen
  /\ sendPc \in {"idle", "counted", "placed"}
  /\ countRead \in 0 .. TxPrequeueLen
  /\ raced \in BOOLEAN

\* When nobody is in the middle of anything and packets wait, the chain is not cut:
\* a transfer is under way, or its clear-to-send interrupt is enabled or pending.
ChainNotCut ==
  (\A c \in Contexts : pc[c] = "idle") /\ numSending > 0 =>
    spiBusy \/ ctsIocOn \/ "clearToSend" \in pending

\* A message that was not clocked out: the first transaction was, once it is over.
HoldsMessage ==
  \/ numWaiting > 0
  \/ \E i \in 1 .. Len(trans) :
       trans[i] = "real" /\ (i > 1 \/ subPhase \in {"idle", "ready"})

\* As long as the sub holds a message, its pin says so, whichever core is how far in its
\* call, unless the last sendPacketSpi stored the position between the load of the
\* interrupt and its write of the pin.  Such a race can leave a message unannounced,
\* until the next packet: that one sets the position and the pin right for all.
MessageWaitingHonest == HoldsMessage /\ sendPc = "idle" /\ ~raced => msgWaiting

\* A full send queue does not stay full: whichever edge of clear-to-send the main
\* misses, the next fmt_sendMsg takes the chain up again.
SendQueueMoves == (numSending = SendQueueLength) ~> (numSending < SendQueueLength)

\* Nor does the queue of the sub, although its messages only go out when the main
\* clocks them out.
SubQueueMoves == (numWaiting = TxPrequeueLen) ~> (numWaiting < TxPrequeueLen)

\* fmt_esp_spi.h:12-13: CLEAR_TO_SEND "indicates sub ready for a transaction.  The
\* main MCU should delay beginning a transaction until this is asserted."
StartsWhenSubReady == [][~onWire /\ onWire' => subPhase = "ready"]_vars

\* fmt_spi.c:99: "fmt_sendMsg calls this fn at any time, so check spi ready."  The
\* packet buffer is never written while the driver reads it.
BufferKeptWhileSending == [][spiBusy /\ spiBusy' => txPacket' = txPacket]_vars
=============================================================================
