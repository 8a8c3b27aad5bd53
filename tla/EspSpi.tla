------------------------------- MODULE EspSpi -------------------------------
(***************************************************************************)
(* The prequeue of esp/mqtt5/main/fmt_esp_spi.c.  sendPacketSpi runs in    *)
(* the task of the MQTT client and getNextTxBuffer in app_main's, on two   *)
(* cores or preempting one another; nothing locks txPreQ.  Each read or    *)
(* write of a field of txPreQ is a step (SpiLink takes the calls whole).   *)
(***************************************************************************)
EXTENDS Naturals, Sequences

CONSTANTS
  TransactionQueueLen,  \* TRANSACTION_QUEUE_LEN
  TxPrequeueLen,        \* TX_PREQUEUE_LEN
  MaxPackets            \* bound: packets that come from the broker

NumTxBuffers == TransactionQueueLen + TxPrequeueLen
Buffers == 0 .. NumTxBuffers - 1

VARIABLES
  numWaiting, readIdx,  \* txPreQ
  txBufs,               \* by number, the packets written to the buffers
  send,                 \* sendPacketSpi: where it is, and its locals
  take,                 \* getNextTxBuffer: where it is, and its locals
  accepted,             \* history: packets for which sendPacketSpi returned true
  taken                 \* history: packets handed to the slave driver

vars == <<numWaiting, readIdx, txBufs, send, take, accepted, taken>>

Init ==
  /\ numWaiting = 0 /\ readIdx = 0
  /\ txBufs = [i \in Buffers |-> 0]
  /\ send = [pc |-> "idle", writeIdx |-> 0, reg |-> 0]
  /\ take = [pc |-> "idle", reg |-> 0]
  /\ accepted = <<>> /\ taken = <<>>

NewPacket == Len(accepted) + 1

-----------------------------------------------------------------------------
\* sendPacketSpi: room is tested, and the place of the new packet computed ...
TestRoom ==
  /\ send.pc = "idle" /\ NewPacket <= MaxPackets
  /\ numWaiting < TxPrequeueLen
  /\ send' = [send EXCEPT !.pc = "place"]
  /\ UNCHANGED <<numWaiting, readIdx, txBufs, take, accepted, taken>>

PlaceAndCopy ==
  /\ send.pc = "place"
  /\ LET writeIdx == (readIdx + numWaiting) % NumTxBuffers IN
       /\ send' = [send EXCEPT !.pc = "load", !.writeIdx = writeIdx]
       /\ txBufs' = [txBufs EXCEPT ![writeIdx] = NewPacket]
  /\ UNCHANGED <<numWaiting, readIdx, take, accepted, taken>>

\* ... numWaiting++ ...
LoadForSend ==
  /\ send.pc = "load"
  /\ send' = [send EXCEPT !.pc = "store", !.reg = numWaiting]
  /\ UNCHANGED <<numWaiting, readIdx, txBufs, take, accepted, taken>>

\* ... and the packet is accepted.
StoreForSend ==
  /\ send.pc = "store"
  /\ numWaiting' = send.reg + 1
  /\ send' = [send EXCEPT !.pc = "idle"]
  /\ accepted' = Append(accepted, NewPacket)
  /\ UNCHANGED <<readIdx, txBufs, take, taken>>

-----------------------------------------------------------------------------
\* getNextTxBuffer: a packet waits; its buffer is handed out ...
TestWaiting ==
  /\ take.pc = "idle" /\ numWaiting > 0
  /\ take' = [take EXCEPT !.pc = "load"]
  /\ taken' = Append(taken, txBufs[readIdx])
  /\ UNCHANGED <<numWaiting, readIdx, txBufs, send, accepted>>

\* ... numWaiting-- ...
LoadForTake ==
  /\ take.pc = "load"
  /\ take' = [pc |-> "store", reg |-> numWaiting]
  /\ UNCHANGED <<numWaiting, readIdx, txBufs, send, accepted, taken>>

StoreForTake ==
  /\ take.pc = "store"
  /\ numWaiting' = take.reg - 1
  /\ take' = [take EXCEPT !.pc = "advance"]
  /\ UNCHANGED <<readIdx, txBufs, send, accepted, taken>>

\* ... and readIdx goes on.
AdvanceReadIdx ==
  /\ take.pc = "advance"
  /\ readIdx' = (readIdx + 1) % NumTxBuffers
  /\ take' = [take EXCEPT !.pc = "idle"]
  /\ UNCHANGED <<numWaiting, txBufs, send, accepted, taken>>

Next ==
  \/ TestRoom \/ PlaceAndCopy \/ LoadForSend \/ StoreForSend
  \/ TestWaiting \/ LoadForTake \/ StoreForTake \/ AdvanceReadIdx

Spec == Init /\ [][Next]_vars

-----------------------------------------------------------------------------
\* fmt_esp_spi.h:8-9: "hardware flow-control lines prevent dropped packets".  Between
\* calls, the packets accepted are those handed to the driver and those that wait, in
\* their order: none was dropped or repeated on the way.
Waiting == [i \in 1 .. numWaiting |-> txBufs[(readIdx + i - 1) % NumTxBuffers]]

PacketsAreKept ==
  send.pc = "idle" /\ take.pc = "idle" => accepted = taken \o Waiting
=============================================================================
