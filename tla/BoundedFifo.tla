----------------------------- MODULE BoundedFifo -----------------------------
(***************************************************************************)
(* What firmware/queue.h promises its callers: a first-in first-out queue  *)
(* of at most MaxNumItems packets whose operations look instantaneous to   *)
(* every context, whatever interrupts whatever.  A call is invoked, takes  *)
(* effect once, and returns what it found.                                 *)
(***************************************************************************)
EXTENDS Naturals, Sequences

CONSTANTS
  Contexts,    \* the thread and the interrupt handlers that use the queue
  Items,       \* the packets they exchange
  Blank,       \* what a buffer holds before a packet was copied into it
  MaxNumItems  \* the capacity given to initQueue

VARIABLES
  fifo,  \* the packets waiting, oldest first
  calls  \* what each context asked for and has been told

fifoVars == <<fifo, calls>>

NoCall == [phase |-> "idle", op |-> "none", item |-> Blank, ok |-> FALSE]

Invoked(operation, packet) ==
  [phase |-> "invoked", op |-> operation, item |-> packet, ok |-> FALSE]

Answered(operation, packet, success) ==
  [phase |-> "done", op |-> operation, item |-> packet, ok |-> success]

FifoInit ==
  /\ fifo = <<>>
  /\ calls = [c \in Contexts |-> NoCall]

InvokeEnqueue(c) ==
  /\ calls[c].phase = "idle"
  /\ \E packet \in Items : calls' = [calls EXCEPT ![c] = Invoked("enq", packet)]
  /\ UNCHANGED fifo

InvokeDequeue(c) ==
  /\ calls[c].phase = "idle"
  /\ calls' = [calls EXCEPT ![c] = Invoked("deq", Blank)]
  /\ UNCHANGED fifo

EnqueueTakesEffect(c) ==
  /\ calls[c].phase = "invoked"
  /\ calls[c].op = "enq"
  /\ \/ /\ Len(fifo) < MaxNumItems
        /\ fifo' = Append(fifo, calls[c].item)
        /\ calls' = [calls EXCEPT ![c] = Answered("enq", calls[c].item, TRUE)]
     \/ /\ Len(fifo) = MaxNumItems
        /\ calls' = [calls EXCEPT ![c] = Answered("enq", calls[c].item, FALSE)]
        /\ UNCHANGED fifo

DequeueTakesEffect(c) ==
  /\ calls[c].phase = "invoked"
  /\ calls[c].op = "deq"
  /\ \/ /\ fifo # <<>>
        /\ fifo' = Tail(fifo)
        /\ calls' = [calls EXCEPT ![c] = Answered("deq", Head(fifo), TRUE)]
     \/ /\ fifo = <<>>
        /\ calls' = [calls EXCEPT ![c] = Answered("deq", Blank, FALSE)]
        /\ UNCHANGED fifo

CallReturns(c) ==
  /\ calls[c].phase = "done"
  /\ calls' = [calls EXCEPT ![c] = NoCall]
  /\ UNCHANGED fifo

FifoNext ==
  \E c \in Contexts :
    \/ InvokeEnqueue(c)
    \/ InvokeDequeue(c)
    \/ EnqueueTakesEffect(c)
    \/ DequeueTakesEffect(c)
    \/ CallReturns(c)

FifoSpec == FifoInit /\ [][FifoNext]_fifoVars
=============================================================================
