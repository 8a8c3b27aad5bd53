-------------------------------- MODULE Queue --------------------------------
(***************************************************************************)
(* firmware/queue.c: the ring buffer between the periodic task and the     *)
(* transport's interrupt handlers.  Every load, store and copy a call      *)
(* makes is a step, and between two steps any interrupt the NVIC lets      *)
(* through may start a call of its own.  A context is a single thread of   *)
(* control with a preemption priority; numerically lesser priorities       *)
(* preempt greater ones, and BASEPRI masks every priority not lesser than  *)
(* its value (port/arm_generic/crit_section.h).                            *)
(***************************************************************************)
EXTENDS Naturals, Sequences

CONSTANTS
  Senders,                \* contexts that call enqueueBack
  Receivers,              \* contexts that call dequeueFront
  Prio,                   \* NVIC priority of every context
  highestSenderPriority,  \* the argument of initQueue, MAX_SENDER_PRIORITY
  MaxNumItems,            \* the argument length of initQueue
  Items,                  \* the packets
  Blank                   \* the zeroes of a packet buffer that holds none

Contexts == Senders \cup Receivers

\* initQueue refuses a length of zero (queue.c:16).
ASSUME CapacityAssumption == MaxNumItems \in Nat \ {0}

\* BASEPRI 0 masks nothing, and every user of the queue is maskable: this is
\* what "highestSenderPriority" means in queue.h:10.
ASSUME PriorityAssumption ==
  /\ highestSenderPriority \in Nat \ {0}
  /\ Prio \in [Contexts -> Nat]
  /\ \A c \in Contexts : Prio[c] >= highestSenderPriority

ASSUME ItemAssumption == Blank \notin Items

VARIABLES
  front, back, numItemsWaiting, items,  \* the fields of queue_t
  basepri,                              \* the BASEPRI register
  pc,      \* where each context is in its call
  op,      \* which operation it called
  buffer,  \* the packet it passes (src) or receives (result)
  ok,      \* its local variable success
  reg,     \* the register in which it counts numItemsWaiting up or down
  polled   \* it called because numItemsInQueue was not 0

queue == <<front, back, numItemsWaiting, items>>
locals == <<op, buffer, ok, reg, polled>>
vars == <<queue, basepri, pc, locals>>

InQueueCode == {"mask", "test", "copy", "index", "load", "store", "unmask", "return"}
Masked == {"test", "copy", "index", "load", "store", "unmask"}

-----------------------------------------------------------------------------
(* Who runs.  There is one core: a context runs when no context of its own *)
(* or a more urgent priority is in the middle of something.                *)

Runs(c) == \A d \in Contexts \ {c} : pc[d] # "idle" => Prio[c] < Prio[d]

MayStart(c) ==
  /\ pc[c] = "idle"
  /\ Runs(c)
  /\ basepri = 0 \/ Prio[c] < basepri

Goes(c, from, to) ==
  /\ pc[c] = from
  /\ Runs(c)
  /\ pc' = [pc EXCEPT ![c] = to]

\* Variants of the code that a slip would make, for checking that the
\* properties below notice: the wrap one index too late, ...
SuccessorLate(index) == IF index = MaxNumItems THEN 0 ELSE index + 1

\* ++index with the wrap of queue.c:41 and queue.c:75.
Successor(index) == IF index + 1 = MaxNumItems THEN 0 ELSE index + 1

-----------------------------------------------------------------------------
Init ==
  /\ front = 0 /\ back = 0 /\ numItemsWaiting = 0
  /\ items = [i \in 0 .. MaxNumItems - 1 |-> Blank]
  /\ basepri = 0
  /\ pc = [c \in Contexts |-> "idle"]
  /\ op = [c \in Contexts |-> "none"]
  /\ buffer = [c \in Contexts |-> Blank]
  /\ ok = [c \in Contexts |-> FALSE]
  /\ reg = [c \in Contexts |-> 0]
  /\ polled = [c \in Contexts |-> FALSE]

CallEnqueueBack(c) ==
  /\ MayStart(c)
  /\ pc' = [pc EXCEPT ![c] = "mask"]
  /\ op' = [op EXCEPT ![c] = "enq"]
  /\ \E packet \in Items : buffer' = [buffer EXCEPT ![c] = packet]
  /\ UNCHANGED <<queue, basepri, ok, reg, polled>>

\* fmt_getMsg and spi_startTxChain look at numItemsInQueue, outside any
\* critical section, before they dequeue.
PollNumItems(c) ==
  /\ MayStart(c)
  /\ numItemsWaiting > 0
  /\ pc' = [pc EXCEPT ![c] = "polled"]
  /\ polled' = [polled EXCEPT ![c] = TRUE]
  /\ UNCHANGED <<queue, basepri, op, buffer, ok, reg>>

CallDequeueFront(c) ==
  /\ MayStart(c) \/ (pc[c] = "polled" /\ Runs(c))
  /\ pc' = [pc EXCEPT ![c] = "mask"]
  /\ op' = [op EXCEPT ![c] = "deq"]
  /\ UNCHANGED <<queue, basepri, buffer, ok, reg, polled>>

-----------------------------------------------------------------------------
\* ... a critical section that masks nothing, ...
DisableNothing(c) ==
  /\ Goes(c, "mask", "test")
  /\ UNCHANGED <<queue, basepri, locals>>

DisableLowPriorityInterrupts(c) ==
  /\ Goes(c, "mask", "test")
  /\ basepri' = highestSenderPriority
  /\ UNCHANGED <<queue, locals>>

\* ... an early return on a full queue that leaves the interrupts masked, ...
EnqueueTestEarlyReturn(c) ==
  /\ op[c] = "enq"
  /\ IF numItemsWaiting < MaxNumItems
       THEN Goes(c, "test", "copy") /\ ok' = [ok EXCEPT ![c] = TRUE]
       ELSE Goes(c, "test", "return") /\ UNCHANGED ok
  /\ UNCHANGED <<queue, basepri, op, buffer, reg, polled>>

EnqueueTest(c) ==
  /\ op[c] = "enq"
  /\ IF numItemsWaiting < MaxNumItems
       THEN Goes(c, "test", "copy") /\ ok' = [ok EXCEPT ![c] = TRUE]
       ELSE Goes(c, "test", "unmask") /\ UNCHANGED ok
  /\ UNCHANGED <<queue, basepri, op, buffer, reg, polled>>

EnqueueCopy(c) ==
  /\ op[c] = "enq"
  /\ Goes(c, "copy", "index")
  /\ items' = [items EXCEPT ![back] = buffer[c]]
  /\ UNCHANGED <<front, back, numItemsWaiting, basepri, locals>>

AdvanceBack(c) ==
  /\ op[c] = "enq"
  /\ Goes(c, "index", "load")
  /\ back' = Successor(back)
  /\ UNCHANGED <<front, numItemsWaiting, items, basepri, locals>>

\* ... and a dequeue that leaves the last packet behind.
DequeueTestOffByOne(c) ==
  /\ op[c] = "deq"
  /\ IF numItemsWaiting > 1
       THEN Goes(c, "test", "copy") /\ ok' = [ok EXCEPT ![c] = TRUE]
       ELSE Goes(c, "test", "unmask") /\ UNCHANGED ok
  /\ UNCHANGED <<queue, basepri, op, buffer, reg, polled>>

DequeueTest(c) ==
  /\ op[c] = "deq"
  /\ IF numItemsWaiting > 0
       THEN Goes(c, "test", "copy") /\ ok' = [ok EXCEPT ![c] = TRUE]
       ELSE Goes(c, "test", "unmask") /\ UNCHANGED ok
  /\ UNCHANGED <<queue, basepri, op, buffer, reg, polled>>

DequeueCopy(c) ==
  /\ op[c] = "deq"
  /\ Goes(c, "copy", "index")
  /\ buffer' = [buffer EXCEPT ![c] = items[front]]
  /\ UNCHANGED <<queue, basepri, op, ok, reg, polled>>

AdvanceFront(c) ==
  /\ op[c] = "deq"
  /\ Goes(c, "index", "load")
  /\ front' = Successor(front)
  /\ UNCHANGED <<back, numItemsWaiting, items, basepri, locals>>

LoadCount(c) ==
  /\ Goes(c, "load", "store")
  /\ reg' = [reg EXCEPT ![c] = numItemsWaiting]
  /\ UNCHANGED <<queue, basepri, op, buffer, ok, polled>>

StoreCount(c) ==
  /\ Goes(c, "store", "unmask")
  /\ numItemsWaiting' = IF op[c] = "enq" THEN reg[c] + 1 ELSE reg[c] - 1
  /\ UNCHANGED <<front, back, items, basepri, locals>>

EnableAllInterrupts(c) ==
  /\ Goes(c, "unmask", "return")
  /\ basepri' = 0
  /\ UNCHANGED <<queue, locals>>

\* The call's locals die here; resetting them merges states that differ in
\* nothing the code can read.
Return(c) ==
  /\ Goes(c, "return", "idle")
  /\ op' = [op EXCEPT ![c] = "none"]
  /\ buffer' = [buffer EXCEPT ![c] = Blank]
  /\ ok' = [ok EXCEPT ![c] = FALSE]
  /\ reg' = [reg EXCEPT ![c] = 0]
  /\ polled' = [polled EXCEPT ![c] = FALSE]
  /\ UNCHANGED <<queue, basepri>>

-----------------------------------------------------------------------------
\* The code of queue.c, once called.
Step(c) ==
  \/ DisableLowPriorityInterrupts(c)
  \/ EnqueueTest(c) \/ EnqueueCopy(c) \/ AdvanceBack(c)
  \/ DequeueTest(c) \/ DequeueCopy(c) \/ AdvanceFront(c)
  \/ LoadCount(c) \/ StoreCount(c)
  \/ EnableAllInterrupts(c)
  \/ Return(c)

Next ==
  \/ \E c \in Senders : CallEnqueueBack(c)
  \/ \E c \in Receivers : PollNumItems(c) \/ CallDequeueFront(c)
  \/ \E c \in Contexts : Step(c)

\* A processor that is in the middle of a call executes its next instruction
\* unless an interrupt takes over.
Fairness == \A c \in Contexts : WF_vars(Step(c))

Spec == Init /\ [][Next]_vars /\ Fairness

-----------------------------------------------------------------------------
TypeOK ==
  /\ front \in 0 .. MaxNumItems - 1
  /\ back \in 0 .. MaxNumItems - 1
  /\ numItemsWaiting \in 0 .. MaxNumItems
  /\ items \in [0 .. MaxNumItems - 1 -> Items \cup {Blank}]
  /\ basepri \in {0, highestSenderPriority}
  /\ pc \in [Contexts -> InQueueCode \cup {"idle", "polled"}]
  /\ op \in [Contexts -> {"none", "enq", "deq"}]
  /\ buffer \in [Contexts -> Items \cup {Blank}]
  /\ ok \in [Contexts -> BOOLEAN]
  /\ reg \in [Contexts -> 0 .. MaxNumItems]
  /\ polled \in [Contexts -> BOOLEAN]

\* The index of the slot k places behind the front; k <= MaxNumItems.
Slot(k) == IF front + k < MaxNumItems THEN front + k ELSE front + k - MaxNumItems

\* Of two contexts that preempt one another in the middle of queue.c, only one
\* is between its disableLowPriorityInterrupts and its enableAllInterrupts.
CriticalSectionsExclude ==
  \A c, d \in Contexts : pc[c] \in Masked /\ pc[d] \in Masked => c = d

\* Whenever no call is inside its critical section, so in every state in which
\* numItemsInQueue or another call can look at the queue, the three fields that
\* queue.c maintains apart agree on which slots hold packets, and every one of
\* those slots has been written.
RingConsistent ==
  (\A c \in Contexts : pc[c] \notin Masked) =>
    /\ back = Slot(numItemsWaiting)
    /\ \A k \in 0 .. MaxNumItems - 1 :
         k < numItemsWaiting => items[Slot(k)] \in Items

\* fmt_getMsg (fmt_comms.c:90-93) decodes its packet without looking at what
\* dequeueFront returned: with a single receiver the count it has seen cannot
\* have dropped meanwhile, so the dequeue it makes succeeds.
PolledDequeueSucceeds ==
  \A c \in Receivers :
    Receivers = {c} /\ polled[c] /\ pc[c] = "return" => ok[c] /\ buffer[c] \in Items

\* Interrupts are masked for the length of one call only: the early answers of
\* a full and of an empty queue unmask them too.
MaskingEnds == (basepri # 0) ~> (basepri = 0)

-----------------------------------------------------------------------------
(* The refinement.  enqueueBack takes effect when it stores the count, and *)
(* dequeueFront when it advances front; a call that finds the queue full   *)
(* or empty takes effect at its test.                                      *)

CountOfEffect ==
  IF \E c \in Contexts : op[c] = "deq" /\ pc[c] \in {"load", "store"}
    THEN numItemsWaiting - 1
    ELSE numItemsWaiting

Waiting == [k \in 1 .. CountOfEffect |-> items[Slot(k - 1)]]

TookEffect(c) ==
  \/ pc[c] \in {"unmask", "return"}
  \/ op[c] = "deq" /\ pc[c] \in {"load", "store"}

CallOf(c) ==
  IF pc[c] \in {"idle", "polled"}
    THEN [phase |-> "idle", op |-> "none", item |-> Blank, ok |-> FALSE]
    ELSE [phase |-> IF TookEffect(c) THEN "done" ELSE "invoked",
          op    |-> op[c],
          item  |-> IF op[c] = "enq" \/ TookEffect(c) THEN buffer[c] ELSE Blank,
          ok    |-> IF TookEffect(c) THEN ok[c] ELSE FALSE]

Calls == [c \in Contexts |-> CallOf(c)]

Fifo == INSTANCE BoundedFifo WITH fifo <- Waiting, calls <- Calls

\* queue.c is a linearizable bounded FIFO: whatever preempts whatever, packets
\* come out once each, whole and in the order in which they went in, and a call
\* fails only on a queue that is full or empty at that moment.
ImplementsFifo == Fifo!FifoSpec
=============================================================================
