----------------------------- MODULE QueueProofs -----------------------------
(***************************************************************************)
(* For every number of contexts, every capacity and every assignment of    *)
(* priorities that the queue's highestSenderPriority covers, queue.c keeps *)
(* its ring consistent and implements a linearizable bounded FIFO.         *)
(***************************************************************************)
EXTENDS Queue, SequenceTheorems, TLAPS

(* The inductive invariant. *)

\* A context inside its critical section masks every other user of the queue,
\* and nothing more urgent than it is in the middle of a call: this is why no
\* second context gets in.
MaskInv ==
  \A c \in Contexts :
    pc[c] \in Masked => Runs(c) /\ basepri = highestSenderPriority

\* What a context has in hand at each place of the code.
LocalsOf(c) ==
  /\ pc[c] \in {"idle", "polled"} => op[c] = "none" /\ buffer[c] = Blank
  /\ pc[c] \in InQueueCode => op[c] \in {"enq", "deq"}
  /\ pc[c] \in {"idle", "polled", "mask", "test"} => ~ok[c]
  /\ pc[c] \in {"copy", "index", "load", "store"} => ok[c]
  /\ pc[c] = "store" => reg[c] = numItemsWaiting
  /\ op[c] = "enq" => buffer[c] \in Items
  /\ op[c] = "enq" /\ pc[c] \in {"copy", "index", "load", "store"} =>
       numItemsWaiting < MaxNumItems
  /\ op[c] = "enq" /\ pc[c] \in {"index", "load", "store"} =>
       items[Slot(numItemsWaiting)] = buffer[c]
  /\ op[c] = "deq" /\ pc[c] \in {"copy", "index", "load", "store"} =>
       numItemsWaiting > 0
  /\ op[c] = "deq" /\ pc[c] \in {"mask", "test", "copy"} => buffer[c] = Blank
  /\ op[c] = "deq" /\ pc[c] = "index" => buffer[c] = items[front]
  /\ op[c] = "deq" /\ pc[c] \in {"load", "store", "unmask", "return"} =>
       buffer[c] \in (IF ok[c] THEN Items ELSE {Blank})

LocalsInv == \A c \in Contexts : LocalsOf(c)

\* How many slots lie between front and back: an enqueue advances back before it
\* counts, a dequeue advances front before it counts.
SlotsSpanned ==
  IF \E c \in Contexts : op[c] = "enq" /\ pc[c] \in {"load", "store"}
    THEN numItemsWaiting + 1
    ELSE CountOfEffect

RingInv ==
  /\ back = Slot(SlotsSpanned)
  /\ \A k \in 0 .. MaxNumItems - 1 : k < CountOfEffect => items[Slot(k)] \in Items

IndInv == TypeOK /\ MaskInv /\ LocalsInv /\ RingInv

-----------------------------------------------------------------------------
(* Who can be acting. *)

\* Two contexts inside their critical sections would each have to be more urgent
\* than the other.
LEMMA MaskInvExcludes ==
  ASSUME TypeOK, MaskInv
  PROVE  CriticalSectionsExclude
<1> SUFFICES ASSUME NEW c \in Contexts, NEW d \in Contexts,
                    pc[c] \in Masked, pc[d] \in Masked, c # d
             PROVE  FALSE
  BY DEF CriticalSectionsExclude
<1>1. Prio[c] \in Nat /\ Prio[d] \in Nat
  BY PriorityAssumption
<1>2. Prio[c] < Prio[d] /\ Prio[d] < Prio[c]
  BY DEF MaskInv, Runs, Masked
<1> QED
  BY <1>1, <1>2

\* The context that acts is the only one that may be inside a critical section:
\* BASEPRI holds back the calls that have not begun, preemption the others.
LEMMA ActorAlone ==
  ASSUME TypeOK, MaskInv, NEW c \in Contexts,
         MayStart(c) \/ (pc[c] # "idle" /\ Runs(c))
  PROVE  \A d \in Contexts \ {c} : pc[d] \notin Masked
<1> SUFFICES ASSUME NEW d \in Contexts \ {c}, pc[d] \in Masked
             PROVE  FALSE
  OBVIOUS
<1>1. /\ Prio[c] \in Nat /\ Prio[d] \in Nat
      /\ highestSenderPriority \in Nat \ {0}
      /\ Prio[c] >= highestSenderPriority
  BY PriorityAssumption
<1>2. Runs(d) /\ basepri = highestSenderPriority
  BY DEF MaskInv
<1>3. CASE MayStart(c)
  BY <1>1, <1>2, <1>3 DEF MayStart
<1>4. CASE pc[c] # "idle" /\ Runs(c)
  BY <1>1, <1>2, <1>4 DEF Runs, Masked
<1> QED
  BY <1>3, <1>4

\* A start or a step of a context leaves the others where they are, and only its
\* own place in the code decides how much of the ring is spanned.
Acts(c) ==
  /\ MayStart(c) \/ (pc[c] # "idle" /\ Runs(c))
  /\ \A d \in Contexts \ {c} :
       /\ pc'[d] = pc[d] /\ op'[d] = op[d] /\ buffer'[d] = buffer[d]
       /\ ok'[d] = ok[d] /\ reg'[d] = reg[d] /\ polled'[d] = polled[d]

LEMMA EffectOfActor ==
  ASSUME TypeOK, MaskInv, NEW c \in Contexts, Acts(c)
  PROVE  /\ CountOfEffect =
              IF op[c] = "deq" /\ pc[c] \in {"load", "store"}
                THEN numItemsWaiting - 1 ELSE numItemsWaiting
         /\ CountOfEffect' =
              IF op'[c] = "deq" /\ pc'[c] \in {"load", "store"}
                THEN numItemsWaiting' - 1 ELSE numItemsWaiting'
         /\ SlotsSpanned =
              IF op[c] = "enq" /\ pc[c] \in {"load", "store"}
                THEN numItemsWaiting + 1 ELSE CountOfEffect
         /\ SlotsSpanned' =
              IF op'[c] = "enq" /\ pc'[c] \in {"load", "store"}
                THEN numItemsWaiting' + 1 ELSE CountOfEffect'
<1>1. \A d \in Contexts \ {c} : pc[d] \notin {"load", "store"} /\ pc'[d] \notin {"load", "store"}
  BY ActorAlone DEF Acts, Masked
<1>2. (\E d \in Contexts : op[d] = "deq" /\ pc[d] \in {"load", "store"})
        <=> op[c] = "deq" /\ pc[c] \in {"load", "store"}
  BY <1>1
<1>3. (\E d \in Contexts : op'[d] = "deq" /\ pc'[d] \in {"load", "store"})
        <=> op'[c] = "deq" /\ pc'[c] \in {"load", "store"}
  BY <1>1
<1>4. (\E d \in Contexts : op[d] = "enq" /\ pc[d] \in {"load", "store"})
        <=> op[c] = "enq" /\ pc[c] \in {"load", "store"}
  BY <1>1
<1>5. (\E d \in Contexts : op'[d] = "enq" /\ pc'[d] \in {"load", "store"})
        <=> op'[c] = "enq" /\ pc'[c] \in {"load", "store"}
  BY <1>1
<1> QED
  BY <1>2, <1>3, <1>4, <1>5 DEF CountOfEffect, SlotsSpanned

LEMMA MaskInvStep ==
  ASSUME TypeOK, MaskInv, NEW c \in Contexts, Acts(c),
         pc'[c] \in Masked => Runs(c) /\ basepri' = highestSenderPriority
  PROVE  MaskInv'
<1>1. \A d \in Contexts \ {c} : pc[d] \notin Masked
  BY ActorAlone DEF Acts
<1>2. Runs(c) => Runs(c)'
  BY DEF Runs, Acts
<1> QED
  BY <1>1, <1>2 DEF MaskInv, Acts

\* What another context holds survives the step: outside its critical section it
\* relies on nothing but its own locals.
LEMMA LocalsOfOthers ==
  ASSUME TypeOK, MaskInv, LocalsInv, NEW c \in Contexts, Acts(c)
  PROVE  \A d \in Contexts \ {c} : LocalsOf(d)'
<1> SUFFICES ASSUME NEW d \in Contexts \ {c}
             PROVE  LocalsOf(d)'
  OBVIOUS
<1>1. pc[d] \notin Masked
  BY ActorAlone DEF Acts
<1>2. LocalsOf(d)
  BY DEF LocalsInv
<1> QED
  BY <1>1, <1>2 DEF LocalsOf, Acts, Masked

\* What is left to show of a start or a step.
LEMMA IndInvStep ==
  ASSUME IndInv, NEW c \in Contexts, Acts(c), TypeOK', LocalsOf(c)', RingInv',
         pc'[c] \in Masked => Runs(c) /\ basepri' = highestSenderPriority
  PROVE  IndInv'
<1>1. MaskInv'
  BY MaskInvStep DEF IndInv
<1>2. LocalsInv'
  BY LocalsOfOthers DEF IndInv, LocalsInv
<1> QED
  BY <1>1, <1>2 DEF IndInv

-----------------------------------------------------------------------------
(* One lemma per action. *)

LEMMA CallEnqueueBackInv ==
  ASSUME IndInv, NEW c \in Contexts, CallEnqueueBack(c)
  PROVE  IndInv'
<1> USE DEF CallEnqueueBack, MayStart, queue
<1>1. TypeOK'
  BY DEF IndInv, TypeOK, InQueueCode
<1>2. Acts(c) /\ pc[c] = "idle" /\ pc'[c] = "mask" /\ op'[c] = "enq"
      /\ buffer'[c] \in Items /\ ok'[c] = ok[c]
  BY DEF IndInv, TypeOK, Acts
<1>3. LocalsOf(c)'
  BY <1>2 DEF IndInv, LocalsInv, LocalsOf
<1>4. RingInv'
  <2>1. CountOfEffect' = CountOfEffect /\ SlotsSpanned' = SlotsSpanned
    BY <1>2, EffectOfActor DEF IndInv
  <2> QED
    BY <2>1 DEF IndInv, RingInv, Slot
<1> QED
  BY <1>1, <1>2, <1>3, <1>4, IndInvStep DEF Masked

LEMMA PollNumItemsInv ==
  ASSUME IndInv, NEW c \in Contexts, PollNumItems(c)
  PROVE  IndInv'
<1> USE DEF PollNumItems, MayStart, queue
<1>1. TypeOK'
  BY DEF IndInv, TypeOK, InQueueCode
<1>2. Acts(c) /\ pc[c] = "idle" /\ pc'[c] = "polled"
  BY DEF IndInv, TypeOK, Acts
<1>3. LocalsOf(c)'
  BY <1>2 DEF IndInv, LocalsInv, LocalsOf, InQueueCode
<1>4. RingInv'
  <2>1. CountOfEffect' = CountOfEffect /\ SlotsSpanned' = SlotsSpanned
    BY <1>2, EffectOfActor DEF IndInv
  <2> QED
    BY <2>1 DEF IndInv, RingInv, Slot
<1> QED
  BY <1>1, <1>2, <1>3, <1>4, IndInvStep DEF Masked

LEMMA CallDequeueFrontInv ==
  ASSUME IndInv, NEW c \in Contexts, CallDequeueFront(c)
  PROVE  IndInv'
<1> USE DEF CallDequeueFront, MayStart, queue
<1>1. TypeOK'
  BY DEF IndInv, TypeOK, InQueueCode
<1>2. Acts(c) /\ pc[c] \in {"idle", "polled"} /\ pc'[c] = "mask" /\ op'[c] = "deq"
  BY DEF IndInv, TypeOK, Acts
<1>3. LocalsOf(c)'
  BY <1>2 DEF IndInv, LocalsInv, LocalsOf
<1>4. RingInv'
  <2>1. CountOfEffect' = CountOfEffect /\ SlotsSpanned' = SlotsSpanned
    BY <1>2, EffectOfActor DEF IndInv
  <2> QED
    BY <2>1 DEF IndInv, RingInv, Slot
<1> QED
  BY <1>1, <1>2, <1>3, <1>4, IndInvStep DEF Masked

\* A step of queue.c is a step of the running context.
LEMMA StepActs ==
  ASSUME TypeOK, NEW c \in Contexts, NEW from \in InQueueCode, NEW to,
         Goes(c, from, to),
         \A d \in Contexts \ {c} :
           /\ op'[d] = op[d] /\ buffer'[d] = buffer[d] /\ ok'[d] = ok[d]
           /\ reg'[d] = reg[d] /\ polled'[d] = polled[d]
  PROVE  Acts(c) /\ Runs(c) /\ pc[c] = from /\ pc'[c] = to
BY DEF Goes, Acts, TypeOK, InQueueCode

LEMMA DisableLowPriorityInterruptsInv ==
  ASSUME IndInv, NEW c \in Contexts, DisableLowPriorityInterrupts(c)
  PROVE  IndInv'
<1> USE DEF DisableLowPriorityInterrupts, queue, locals
<1>1. TypeOK'
  BY DEF IndInv, TypeOK, InQueueCode, Goes
<1>2. Acts(c) /\ Runs(c) /\ pc[c] = "mask" /\ pc'[c] = "test"
  BY StepActs DEF IndInv, InQueueCode
<1>3. LocalsOf(c)'
  BY <1>2 DEF IndInv, LocalsInv, LocalsOf, InQueueCode
<1>4. RingInv'
  <2>1. CountOfEffect' = CountOfEffect /\ SlotsSpanned' = SlotsSpanned
    BY <1>2, EffectOfActor DEF IndInv
  <2> QED
    BY <2>1 DEF IndInv, RingInv, Slot
<1> QED
  BY <1>1, <1>2, <1>3, <1>4, IndInvStep

LEMMA EnqueueTestInv ==
  ASSUME IndInv, NEW c \in Contexts, EnqueueTest(c)
  PROVE  IndInv'
<1> USE DEF EnqueueTest, queue
<1>1. TypeOK'
  BY DEF IndInv, TypeOK, InQueueCode, Goes
<1>2. /\ Acts(c) /\ Runs(c) /\ pc[c] = "test" /\ op[c] = "enq"
      /\ pc'[c] \in {"copy", "unmask"}
  BY StepActs DEF IndInv, TypeOK, InQueueCode, Goes, Acts
<1>3. LocalsOf(c)'
  BY <1>2 DEF IndInv, TypeOK, LocalsInv, LocalsOf, InQueueCode, Goes
<1>4. RingInv'
  <2>1. CountOfEffect' = CountOfEffect /\ SlotsSpanned' = SlotsSpanned
    BY <1>2, EffectOfActor DEF IndInv
  <2> QED
    BY <2>1 DEF IndInv, RingInv, Slot
<1>5. basepri' = highestSenderPriority
  BY <1>2 DEF IndInv, MaskInv, Masked
<1> QED
  BY <1>1, <1>2, <1>3, <1>4, <1>5, IndInvStep

LEMMA DequeueTestInv ==
  ASSUME IndInv, NEW c \in Contexts, DequeueTest(c)
  PROVE  IndInv'
<1> USE DEF DequeueTest, queue
<1>1. TypeOK'
  BY DEF IndInv, TypeOK, InQueueCode, Goes
<1>2. /\ Acts(c) /\ Runs(c) /\ pc[c] = "test" /\ op[c] = "deq"
      /\ pc'[c] \in {"copy", "unmask"}
  BY StepActs DEF IndInv, TypeOK, InQueueCode, Goes, Acts
<1>3. LocalsOf(c)'
  BY <1>2 DEF IndInv, TypeOK, LocalsInv, LocalsOf, InQueueCode, Goes
<1>4. RingInv'
  <2>1. CountOfEffect' = CountOfEffect /\ SlotsSpanned' = SlotsSpanned
    BY <1>2, EffectOfActor DEF IndInv
  <2> QED
    BY <2>1 DEF IndInv, RingInv, Slot
<1>5. basepri' = highestSenderPriority
  BY <1>2 DEF IndInv, MaskInv, Masked
<1> QED
  BY <1>1, <1>2, <1>3, <1>4, <1>5, IndInvStep

-----------------------------------------------------------------------------
(* The ring's arithmetic. *)

LEMMA SlotRange ==
  ASSUME TypeOK
  PROVE  \A k \in 0 .. MaxNumItems : Slot(k) \in 0 .. MaxNumItems - 1
BY CapacityAssumption DEF TypeOK, Slot

LEMMA SlotInjective ==
  ASSUME TypeOK
  PROVE  \A j, k \in 0 .. MaxNumItems - 1 : Slot(j) = Slot(k) => j = k
BY CapacityAssumption DEF TypeOK, Slot

LEMMA SuccessorOfSlot ==
  ASSUME TypeOK
  PROVE  \A k \in 0 .. MaxNumItems - 1 : Successor(Slot(k)) = Slot(k + 1)
BY CapacityAssumption DEF TypeOK, Slot, Successor

\* Seen from the slot behind the front, everything is one place nearer.
LEMMA SlotBehindFront ==
  ASSUME TypeOK, front' = Successor(front)
  PROVE  \A k \in 0 .. MaxNumItems - 1 : Slot(k)' = Slot(k + 1)
BY CapacityAssumption DEF TypeOK, Slot, Successor

-----------------------------------------------------------------------------
LEMMA EnqueueCopyInv ==
  ASSUME IndInv, NEW c \in Contexts, EnqueueCopy(c)
  PROVE  IndInv'
<1> USE DEF EnqueueCopy, locals
<1>1. TypeOK'
  BY DEF IndInv, TypeOK, InQueueCode, Goes
<1>2. Acts(c) /\ Runs(c) /\ pc[c] = "copy" /\ op[c] = "enq" /\ pc'[c] = "index"
  BY StepActs DEF IndInv, InQueueCode
<1>3. basepri' = highestSenderPriority
  BY <1>2 DEF IndInv, MaskInv, Masked
<1>4. CountOfEffect = numItemsWaiting /\ SlotsSpanned = numItemsWaiting
      /\ CountOfEffect' = numItemsWaiting /\ SlotsSpanned' = numItemsWaiting
  BY <1>2, EffectOfActor DEF IndInv
<1>5. back = Slot(numItemsWaiting) /\ numItemsWaiting \in 0 .. MaxNumItems - 1
  BY <1>2, <1>4, CapacityAssumption DEF IndInv, TypeOK, LocalsInv, LocalsOf, RingInv
<1>6. \A k \in 0 .. MaxNumItems : Slot(k)' = Slot(k)
  BY DEF Slot
<1>7. LocalsOf(c)'
  BY <1>2, <1>5, <1>6 DEF IndInv, TypeOK, LocalsInv, LocalsOf, InQueueCode
<1>8. RingInv'
  <2>1. back' = Slot(SlotsSpanned)'
    BY <1>4, <1>5 DEF Slot
  <2>2. ASSUME NEW k \in 0 .. MaxNumItems - 1, k < CountOfEffect'
        PROVE  items'[Slot(k)'] \in Items
    <3>1. Slot(k) # back /\ Slot(k) \in 0 .. MaxNumItems - 1
      BY <1>4, <1>5, <2>2, SlotInjective, SlotRange, CapacityAssumption DEF IndInv
    <3>2. items[Slot(k)] \in Items
      BY <1>4, <2>2 DEF IndInv, RingInv
    <3> QED
      BY <1>6, <3>1, <3>2, CapacityAssumption DEF IndInv, TypeOK
  <2> QED
    BY <2>1, <2>2 DEF RingInv
<1> QED
  BY <1>1, <1>2, <1>3, <1>7, <1>8, IndInvStep

LEMMA AdvanceBackInv ==
  ASSUME IndInv, NEW c \in Contexts, AdvanceBack(c)
  PROVE  IndInv'
<1> USE DEF AdvanceBack, locals
<1>1. TypeOK'
  BY CapacityAssumption DEF IndInv, TypeOK, InQueueCode, Goes, Successor
<1>2. Acts(c) /\ Runs(c) /\ pc[c] = "index" /\ op[c] = "enq" /\ pc'[c] = "load"
  BY StepActs DEF IndInv, InQueueCode
<1>3. basepri' = highestSenderPriority
  BY <1>2 DEF IndInv, MaskInv, Masked
<1>4. CountOfEffect = numItemsWaiting /\ SlotsSpanned = numItemsWaiting
      /\ CountOfEffect' = numItemsWaiting /\ SlotsSpanned' = numItemsWaiting + 1
  BY <1>2, EffectOfActor DEF IndInv
<1>5. back = Slot(numItemsWaiting) /\ numItemsWaiting \in 0 .. MaxNumItems - 1
  BY <1>2, <1>4, CapacityAssumption DEF IndInv, TypeOK, LocalsInv, LocalsOf, RingInv
<1>6. \A k \in 0 .. MaxNumItems : Slot(k)' = Slot(k)
  BY DEF Slot
<1>7. LocalsOf(c)'
  BY <1>2, <1>5, <1>6 DEF IndInv, TypeOK, LocalsInv, LocalsOf, InQueueCode
<1>8. RingInv'
  <2>1. back' = Slot(SlotsSpanned)'
    BY <1>4, <1>5, SuccessorOfSlot DEF IndInv, Slot
  <2>2. ASSUME NEW k \in 0 .. MaxNumItems - 1, k < CountOfEffect'
        PROVE  items'[Slot(k)'] \in Items
    <3>1. Slot(k)' = Slot(k)
      BY DEF Slot
    <3> QED
      BY <1>4, <2>2, <3>1 DEF IndInv, RingInv
  <2> QED
    BY <2>1, <2>2 DEF RingInv
<1> QED
  BY <1>1, <1>2, <1>3, <1>7, <1>8, IndInvStep

LEMMA DequeueCopyInv ==
  ASSUME IndInv, NEW c \in Contexts, DequeueCopy(c)
  PROVE  IndInv'
<1> USE DEF DequeueCopy, queue
<1>1. TypeOK'
  BY DEF IndInv, TypeOK, InQueueCode, Goes
<1>2. Acts(c) /\ Runs(c) /\ pc[c] = "copy" /\ op[c] = "deq" /\ pc'[c] = "index"
  BY StepActs DEF IndInv, InQueueCode
<1>3. basepri' = highestSenderPriority
  BY <1>2 DEF IndInv, MaskInv, Masked
<1>4. CountOfEffect' = CountOfEffect /\ SlotsSpanned' = SlotsSpanned
  BY <1>2, EffectOfActor DEF IndInv
<1>5. LocalsOf(c)'
  BY <1>2 DEF IndInv, TypeOK, LocalsInv, LocalsOf, InQueueCode
<1>6. RingInv'
  BY <1>4 DEF IndInv, RingInv, Slot
<1> QED
  BY <1>1, <1>2, <1>3, <1>5, <1>6, IndInvStep

LEMMA AdvanceFrontInv ==
  ASSUME IndInv, NEW c \in Contexts, AdvanceFront(c)
  PROVE  IndInv'
<1> USE DEF AdvanceFront, locals
<1>1. TypeOK'
  BY CapacityAssumption DEF IndInv, TypeOK, InQueueCode, Goes, Successor
<1>2. Acts(c) /\ Runs(c) /\ pc[c] = "index" /\ op[c] = "deq" /\ pc'[c] = "load"
  BY StepActs DEF IndInv, InQueueCode
<1>3. basepri' = highestSenderPriority
  BY <1>2 DEF IndInv, MaskInv, Masked
<1>4. CountOfEffect = numItemsWaiting /\ SlotsSpanned = numItemsWaiting
      /\ CountOfEffect' = numItemsWaiting - 1 /\ SlotsSpanned' = numItemsWaiting - 1
  BY <1>2, EffectOfActor DEF IndInv
<1>5. /\ back = Slot(numItemsWaiting) /\ numItemsWaiting \in 1 .. MaxNumItems
      /\ buffer[c] = items[front] /\ ok[c]
  BY <1>2, <1>4, CapacityAssumption DEF IndInv, TypeOK, LocalsInv, LocalsOf, RingInv
<1>6. \A k \in 0 .. MaxNumItems - 1 : Slot(k)' = Slot(k + 1)
  BY SlotBehindFront DEF IndInv
<1>7. items[front] \in Items
  <2>1. Slot(0) = front
    BY CapacityAssumption DEF IndInv, TypeOK, Slot
  <2> QED
    BY <1>4, <1>5, <2>1, CapacityAssumption DEF IndInv, RingInv
<1>8. LocalsOf(c)'
  BY <1>2, <1>5, <1>7 DEF IndInv, TypeOK, LocalsInv, LocalsOf, InQueueCode
<1>9. RingInv'
  <2>1. back' = Slot(SlotsSpanned)'
    BY <1>4, <1>5, CapacityAssumption DEF IndInv, TypeOK, Slot, Successor
  <2>2. ASSUME NEW k \in 0 .. MaxNumItems - 1, k < CountOfEffect'
        PROVE  items'[Slot(k)'] \in Items
    <3>1. k + 1 \in 0 .. MaxNumItems - 1 /\ k + 1 < numItemsWaiting
      BY <1>4, <1>5, <2>2, CapacityAssumption
    <3> QED
      BY <1>4, <1>6, <3>1 DEF IndInv, RingInv
  <2> QED
    BY <2>1, <2>2 DEF RingInv
<1> QED
  BY <1>1, <1>2, <1>3, <1>8, <1>9, IndInvStep

LEMMA LoadCountInv ==
  ASSUME IndInv, NEW c \in Contexts, LoadCount(c)
  PROVE  IndInv'
<1> USE DEF LoadCount, queue
<1>1. TypeOK'
  BY DEF IndInv, TypeOK, InQueueCode, Goes
<1>2. Acts(c) /\ Runs(c) /\ pc[c] = "load" /\ pc'[c] = "store"
  BY StepActs DEF IndInv, TypeOK, InQueueCode
<1>3. basepri' = highestSenderPriority
  BY <1>2 DEF IndInv, MaskInv, Masked
<1>4. CountOfEffect' = CountOfEffect /\ SlotsSpanned' = SlotsSpanned
  BY <1>2, EffectOfActor DEF IndInv
<1>5. LocalsOf(c)'
  BY <1>2 DEF IndInv, TypeOK, LocalsInv, LocalsOf, InQueueCode, Slot
<1>6. RingInv'
  BY <1>4 DEF IndInv, RingInv, Slot
<1> QED
  BY <1>1, <1>2, <1>3, <1>5, <1>6, IndInvStep

LEMMA StoreCountInv ==
  ASSUME IndInv, NEW c \in Contexts, StoreCount(c)
  PROVE  IndInv'
<1> USE DEF StoreCount, locals
<1>1. Acts(c) /\ Runs(c) /\ pc[c] = "store" /\ pc'[c] = "unmask"
  BY StepActs DEF IndInv, InQueueCode
<1>2. /\ op[c] \in {"enq", "deq"} /\ ok[c] /\ reg[c] = numItemsWaiting
      /\ numItemsWaiting \in 0 .. MaxNumItems
      /\ op[c] = "enq" => /\ numItemsWaiting < MaxNumItems
                          /\ items[Slot(numItemsWaiting)] = buffer[c]
                          /\ buffer[c] \in Items
      /\ op[c] = "deq" => numItemsWaiting > 0 /\ buffer[c] \in Items
  BY <1>1 DEF IndInv, TypeOK, LocalsInv, LocalsOf, InQueueCode
<1>3. TypeOK'
  BY <1>2, CapacityAssumption DEF IndInv, TypeOK, InQueueCode, Goes
<1>4. basepri' = highestSenderPriority
  BY <1>1 DEF IndInv, MaskInv, Masked
<1>5. LocalsOf(c)'
  BY <1>1, <1>2 DEF LocalsOf, InQueueCode
<1>6. RingInv'
  <2>1. CASE op[c] = "enq"
    <3>1. CountOfEffect = numItemsWaiting /\ SlotsSpanned = numItemsWaiting + 1
          /\ CountOfEffect' = numItemsWaiting + 1 /\ SlotsSpanned' = numItemsWaiting + 1
      BY <1>1, <1>2, <2>1, EffectOfActor DEF IndInv
    <3>2. back' = Slot(SlotsSpanned)'
      BY <3>1 DEF IndInv, RingInv, Slot
    <3>3. ASSUME NEW k \in 0 .. MaxNumItems - 1, k < CountOfEffect'
          PROVE  items'[Slot(k)'] \in Items
      <4>1. Slot(k)' = Slot(k)
        BY DEF Slot
      <4>2. k < numItemsWaiting \/ k = numItemsWaiting
        BY <1>2, <3>1, <3>3, CapacityAssumption
      <4> QED
        BY <1>2, <2>1, <3>1, <4>1, <4>2 DEF IndInv, RingInv
    <3> QED
      BY <3>2, <3>3 DEF RingInv
  <2>2. CASE op[c] = "deq"
    <3>1. CountOfEffect' = CountOfEffect /\ SlotsSpanned' = SlotsSpanned
      BY <1>1, <1>2, <2>2, EffectOfActor DEF IndInv
    <3> QED
      BY <3>1 DEF IndInv, RingInv, Slot
  <2> QED
    BY <1>2, <2>1, <2>2
<1> QED
  BY <1>1, <1>3, <1>4, <1>5, <1>6, IndInvStep

LEMMA EnableAllInterruptsInv ==
  ASSUME IndInv, NEW c \in Contexts, EnableAllInterrupts(c)
  PROVE  IndInv'
<1> USE DEF EnableAllInterrupts, queue, locals
<1>1. TypeOK'
  BY DEF IndInv, TypeOK, InQueueCode, Goes
<1>2. Acts(c) /\ pc[c] = "unmask" /\ pc'[c] = "return"
  BY StepActs DEF IndInv, InQueueCode
<1>3. LocalsOf(c)'
  BY <1>2 DEF IndInv, LocalsInv, LocalsOf, InQueueCode
<1>4. RingInv'
  <2>1. CountOfEffect' = CountOfEffect /\ SlotsSpanned' = SlotsSpanned
    BY <1>2, EffectOfActor DEF IndInv
  <2> QED
    BY <2>1 DEF IndInv, RingInv, Slot
<1> QED
  BY <1>1, <1>2, <1>3, <1>4, IndInvStep DEF Masked

LEMMA ReturnInv ==
  ASSUME IndInv, NEW c \in Contexts, Return(c)
  PROVE  IndInv'
<1> USE DEF Return, queue
<1>1. TypeOK'
  BY CapacityAssumption DEF IndInv, TypeOK, InQueueCode, Goes
<1>2. Acts(c) /\ pc[c] = "return" /\ pc'[c] = "idle"
  BY DEF IndInv, TypeOK, InQueueCode, Goes, Acts
<1>3. LocalsOf(c)'
  BY <1>2 DEF IndInv, TypeOK, LocalsOf, InQueueCode
<1>4. RingInv'
  <2>1. CountOfEffect' = CountOfEffect /\ SlotsSpanned' = SlotsSpanned
    BY <1>2, EffectOfActor DEF IndInv
  <2> QED
    BY <2>1 DEF IndInv, RingInv, Slot
<1> QED
  BY <1>1, <1>2, <1>3, <1>4, IndInvStep DEF Masked

-----------------------------------------------------------------------------
LEMMA InitIndInv == Init => IndInv
<1> SUFFICES ASSUME Init
             PROVE  IndInv
  OBVIOUS
<1>1. TypeOK
  BY CapacityAssumption DEF Init, TypeOK
<1>2. MaskInv /\ LocalsInv
  BY DEF Init, MaskInv, Masked, LocalsInv, LocalsOf, InQueueCode
<1>3. CountOfEffect = 0 /\ SlotsSpanned = 0
  BY DEF Init, CountOfEffect, SlotsSpanned
<1>4. RingInv
  BY <1>3, CapacityAssumption DEF Init, RingInv, Slot
<1> QED
  BY <1>1, <1>2, <1>4 DEF IndInv

LEMMA StutterIndInv == IndInv /\ UNCHANGED vars => IndInv'
BY DEF IndInv, TypeOK, MaskInv, Runs, LocalsInv, LocalsOf, RingInv, Slot,
       SlotsSpanned, CountOfEffect, vars, queue, locals

LEMMA NextIndInv == IndInv /\ [Next]_vars => IndInv'
<1> SUFFICES ASSUME IndInv, Next
             PROVE  IndInv'
  BY StutterIndInv
<1>1. ASSUME NEW c \in Senders, CallEnqueueBack(c)
      PROVE  IndInv'
  BY <1>1, CallEnqueueBackInv DEF Contexts
<1>2. ASSUME NEW c \in Receivers, PollNumItems(c) \/ CallDequeueFront(c)
      PROVE  IndInv'
  BY <1>2, PollNumItemsInv, CallDequeueFrontInv DEF Contexts
<1>3. ASSUME NEW c \in Contexts, Step(c)
      PROVE  IndInv'
  BY <1>3, DisableLowPriorityInterruptsInv, EnqueueTestInv, EnqueueCopyInv,
     AdvanceBackInv, DequeueTestInv, DequeueCopyInv, AdvanceFrontInv,
     LoadCountInv, StoreCountInv, EnableAllInterruptsInv, ReturnInv DEF Step
<1> QED
  BY <1>1, <1>2, <1>3 DEF Next

LEMMA Inductive == Spec => []IndInv
BY InitIndInv, NextIndInv, PTL DEF Spec

\* Every field and every local keeps its type: no index leaves the store and the
\* count never passes the capacity or falls below zero.
THEOREM TypeCorrect == Spec => []TypeOK
<1>1. IndInv => TypeOK
  BY DEF IndInv
<1> QED
  BY <1>1, Inductive, PTL

\* No two contexts are ever inside the critical sections of one queue.
THEOREM MutualExclusion == Spec => []CriticalSectionsExclude
<1>1. IndInv => CriticalSectionsExclude
  BY MaskInvExcludes DEF IndInv
<1> QED
  BY <1>1, Inductive, PTL

\* Whatever sees the queue between two calls sees front, back and the count agree.
THEOREM RingIsConsistent == Spec => []RingConsistent
<1>1. IndInv => RingConsistent
  <2> SUFFICES ASSUME IndInv, \A c \in Contexts : pc[c] \notin Masked
               PROVE  /\ back = Slot(numItemsWaiting)
                      /\ \A k \in 0 .. MaxNumItems - 1 :
                           k < numItemsWaiting => items[Slot(k)] \in Items
    BY DEF RingConsistent
  <2>1. CountOfEffect = numItemsWaiting /\ SlotsSpanned = numItemsWaiting
    BY DEF CountOfEffect, SlotsSpanned, Masked
  <2> QED
    BY <2>1 DEF IndInv, RingInv
<1> QED
  BY <1>1, Inductive, PTL

-----------------------------------------------------------------------------
(* The single receiver.  It alone takes packets out, so what it has seen   *)
(* waiting is still there when it gets to its dequeue.                     *)

PollInv ==
  \A c \in Receivers : Receivers = {c} =>
    /\ \A d \in Contexts \ {c} : op[d] # "deq"
    /\ pc[c] = "idle" => ~polled[c]
    /\ polled[c] => op[c] # "enq"
    /\ polled[c] /\ pc[c] \in {"polled", "mask", "test"} => numItemsWaiting > 0
    /\ polled[c] /\ pc[c] \in {"copy", "index", "load", "store", "unmask", "return"} => ok[c]

LEMMA NextPollInv == IndInv /\ PollInv /\ [Next]_vars => PollInv'
<1> SUFFICES ASSUME IndInv, PollInv, [Next]_vars, NEW c \in Receivers, Receivers = {c}
             PROVE  /\ \A d \in Contexts \ {c} : op'[d] # "deq"
                    /\ pc'[c] = "idle" => ~polled'[c]
                    /\ polled'[c] => op'[c] # "enq"
                    /\ polled'[c] /\ pc'[c] \in {"polled", "mask", "test"}
                         => numItemsWaiting' > 0
                    /\ polled'[c] /\ pc'[c] \in {"copy", "index", "load", "store", "unmask", "return"}
                         => ok'[c]
  BY DEF PollInv
<1>0. /\ c \in Contexts
      /\ \A d \in Contexts \ {c} : op[d] # "deq"
      /\ pc[c] = "idle" => ~polled[c]
      /\ polled[c] => op[c] # "enq"
      /\ polled[c] /\ pc[c] \in {"polled", "mask", "test"} => numItemsWaiting > 0
      /\ polled[c] /\ pc[c] \in {"copy", "index", "load", "store", "unmask", "return"} => ok[c]
  BY DEF PollInv, Contexts
<1> USE <1>0 DEF IndInv, TypeOK, queue, locals, Goes, MayStart
<1>1. ASSUME NEW d \in Senders, CallEnqueueBack(d)
      PROVE  PollInv'
  BY <1>1 DEF CallEnqueueBack, PollInv, Contexts
<1>2. ASSUME NEW d \in Receivers, PollNumItems(d)
      PROVE  PollInv'
  BY <1>2 DEF PollNumItems, PollInv, Contexts, LocalsInv, LocalsOf
<1>3. ASSUME NEW d \in Receivers, CallDequeueFront(d)
      PROVE  PollInv'
  BY <1>3 DEF CallDequeueFront, PollInv, Contexts
<1>4. ASSUME NEW d \in Contexts, StoreCount(d)
      PROVE  PollInv'
  <2>1. op[d] \in {"enq", "deq"} /\ reg[d] = numItemsWaiting /\ (d # c => op[d] = "enq")
    BY <1>4 DEF StoreCount, LocalsInv, LocalsOf, InQueueCode
  <2> QED
    BY <1>4, <2>1 DEF StoreCount, PollInv
<1>5. ASSUME NEW d \in Contexts, EnqueueTest(d) \/ DequeueTest(d)
      PROVE  PollInv'
  BY <1>5 DEF EnqueueTest, DequeueTest, PollInv
<1>6. ASSUME NEW d \in Contexts,
             \/ DisableLowPriorityInterrupts(d) \/ EnqueueCopy(d) \/ AdvanceBack(d)
             \/ DequeueCopy(d) \/ AdvanceFront(d) \/ LoadCount(d)
             \/ EnableAllInterrupts(d)
      PROVE  PollInv'
  BY <1>6 DEF DisableLowPriorityInterrupts, EnqueueCopy, AdvanceBack, DequeueCopy,
              AdvanceFront, LoadCount, EnableAllInterrupts, PollInv
<1>7. ASSUME NEW d \in Contexts, Return(d)
      PROVE  PollInv'
  BY <1>7 DEF Return, PollInv
<1>8. CASE UNCHANGED vars
  BY <1>8 DEF vars
<1>9. PollInv' => /\ \A d \in Contexts \ {c} : op'[d] # "deq"
                  /\ pc'[c] = "idle" => ~polled'[c]
                  /\ polled'[c] => op'[c] # "enq"
                  /\ polled'[c] /\ pc'[c] \in {"polled", "mask", "test"}
                       => numItemsWaiting' > 0
                  /\ polled'[c] /\ pc'[c] \in {"copy", "index", "load", "store", "unmask", "return"}
                       => ok'[c]
  BY DEF PollInv
<1> QED
  BY <1>1, <1>2, <1>3, <1>4, <1>5, <1>6, <1>7, <1>8, <1>9 DEF Next, Step

\* A receiver that is alone never decodes a packet it did not get, however the
\* senders interrupt it between its look at the count and its dequeue.
THEOREM SingleReceiverGetsItsPacket == Spec => []PolledDequeueSucceeds
<1>1. Init => PollInv
  BY DEF Init, PollInv, Contexts
<1>2. IndInv /\ PollInv => PolledDequeueSucceeds
  <2> SUFFICES ASSUME IndInv, PollInv, NEW c \in Receivers, Receivers = {c},
                      polled[c], pc[c] = "return"
               PROVE  ok[c] /\ buffer[c] \in Items
    BY DEF PolledDequeueSucceeds
  <2>1. ok[c] /\ op[c] # "enq"
    BY DEF PollInv
  <2>2. c \in Contexts /\ LocalsOf(c)
    BY DEF IndInv, LocalsInv, Contexts
  <2> QED
    BY <2>1, <2>2 DEF LocalsOf, InQueueCode
<1> QED
  BY <1>1, <1>2, Inductive, NextPollInv, PTL DEF Spec

-----------------------------------------------------------------------------
(* The refinement. *)

LEMMA WaitingIsSeq ==
  ASSUME IndInv
  PROVE  /\ CountOfEffect \in 0 .. MaxNumItems
         /\ Waiting \in Seq(Items)
         /\ Len(Waiting) = CountOfEffect
<1>1. CountOfEffect \in 0 .. MaxNumItems
  BY CapacityAssumption
  DEF IndInv, TypeOK, LocalsInv, LocalsOf, CountOfEffect
<1>2. \A k \in 1 .. CountOfEffect : items[Slot(k - 1)] \in Items
  <2> SUFFICES ASSUME NEW k \in 1 .. CountOfEffect
               PROVE  items[Slot(k - 1)] \in Items
    OBVIOUS
  <2>1. k - 1 \in 0 .. MaxNumItems - 1 /\ k - 1 < CountOfEffect
    BY <1>1, CapacityAssumption
  <2> QED
    BY <2>1 DEF IndInv, RingInv
<1>3. Waiting \in [1 .. CountOfEffect -> Items]
  BY <1>2 DEF Waiting
<1> QED
  BY <1>1, <1>3

\* The calls of the other contexts look as before; so does the queue unless the
\* step is one of the two that take effect on it.
LEMMA CallsFrame ==
  ASSUME TypeOK, NEW c \in Contexts, Acts(c)
  PROVE  Calls' = [Calls EXCEPT ![c] = CallOf(c)']
<1>1. \A d \in Contexts \ {c} : CallOf(d)' = CallOf(d)
  BY DEF Acts, CallOf, TookEffect
<1> QED
  BY <1>1 DEF Calls

LEMMA WaitingFrame ==
  ASSUME IndInv, front' = front, CountOfEffect' = CountOfEffect,
         \A k \in 0 .. MaxNumItems - 1 :
           k < CountOfEffect => items'[Slot(k)] = items[Slot(k)]
  PROVE  Waiting' = Waiting
<1>1. CountOfEffect \in 0 .. MaxNumItems
  BY WaitingIsSeq
<1>2. \A k \in 1 .. CountOfEffect : items'[Slot(k - 1)'] = items[Slot(k - 1)]
  <2> SUFFICES ASSUME NEW k \in 1 .. CountOfEffect
               PROVE  items'[Slot(k - 1)'] = items[Slot(k - 1)]
    OBVIOUS
  <2>1. k - 1 \in 0 .. MaxNumItems - 1 /\ k - 1 < CountOfEffect
    BY <1>1, CapacityAssumption
  <2>2. Slot(k - 1)' = Slot(k - 1)
    BY DEF Slot
  <2> QED
    BY <2>1, <2>2
<1> QED
  BY <1>2 DEF Waiting

LEMMA InitRefines == Init => Fifo!FifoInit
<1> SUFFICES ASSUME Init
             PROVE  Fifo!FifoInit
  OBVIOUS
<1>1. CountOfEffect = 0
  BY DEF Init, CountOfEffect
<1>2. Waiting = <<>>
  BY <1>1 DEF Waiting
<1>3. Calls = [c \in Contexts |-> Fifo!NoCall]
  BY DEF Init, Calls, CallOf, Fifo!NoCall
<1> QED
  BY <1>2, <1>3 DEF Fifo!FifoInit

\* A step that takes no effect on the queue and leaves the caller's request and
\* answer as they are.
LEMMA StepStutters ==
  ASSUME IndInv, NEW c \in Contexts, Acts(c), front' = front,
         CountOfEffect' = CountOfEffect, CallOf(c)' = CallOf(c),
         \A k \in 0 .. MaxNumItems - 1 :
           k < CountOfEffect => items'[Slot(k)] = items[Slot(k)]
  PROVE  UNCHANGED <<Waiting, Calls>>
<1>1. Calls' = [Calls EXCEPT ![c] = CallOf(c)]
  BY CallsFrame DEF IndInv
<1>2. Calls' = Calls
  BY <1>1 DEF Calls
<1> QED
  BY <1>2, WaitingFrame

LEMMA CallEnqueueBackRefines ==
  ASSUME IndInv, NEW c \in Contexts, CallEnqueueBack(c)
  PROVE  Fifo!InvokeEnqueue(c)
<1>1. PICK packet \in Items : buffer' = [buffer EXCEPT ![c] = packet]
  BY DEF CallEnqueueBack
<1>2. /\ Acts(c) /\ pc[c] = "idle" /\ pc'[c] = "mask" /\ op'[c] = "enq"
      /\ buffer'[c] = packet /\ front' = front /\ items' = items
      /\ numItemsWaiting' = numItemsWaiting
  BY <1>1 DEF CallEnqueueBack, MayStart, queue, IndInv, TypeOK, Acts
<1>3. CountOfEffect' = CountOfEffect
  BY <1>2, EffectOfActor DEF IndInv
<1>4. Waiting' = Waiting
  BY <1>2, <1>3, WaitingFrame
<1>5. CallOf(c)' = Fifo!Invoked("enq", packet)
  BY <1>2 DEF CallOf, TookEffect, Fifo!Invoked
<1>6. Calls[c].phase = "idle"
  BY <1>2 DEF Calls, CallOf
<1> QED
  BY <1>2, <1>4, <1>5, <1>6, CallsFrame DEF IndInv, Fifo!InvokeEnqueue

LEMMA PollNumItemsRefines ==
  ASSUME IndInv, NEW c \in Contexts, PollNumItems(c)
  PROVE  UNCHANGED <<Waiting, Calls>>
<1>1. /\ Acts(c) /\ pc[c] = "idle" /\ pc'[c] = "polled"
      /\ front' = front /\ items' = items /\ numItemsWaiting' = numItemsWaiting
  BY DEF PollNumItems, MayStart, queue, IndInv, TypeOK, Acts
<1>2. CountOfEffect' = CountOfEffect
  BY <1>1, EffectOfActor DEF IndInv
<1>3. CallOf(c)' = CallOf(c)
  BY <1>1 DEF CallOf
<1> QED
  BY <1>1, <1>2, <1>3, StepStutters

LEMMA CallDequeueFrontRefines ==
  ASSUME IndInv, NEW c \in Contexts, CallDequeueFront(c)
  PROVE  Fifo!InvokeDequeue(c)
<1>1. /\ Acts(c) /\ pc[c] \in {"idle", "polled"} /\ pc'[c] = "mask" /\ op'[c] = "deq"
      /\ front' = front /\ items' = items /\ numItemsWaiting' = numItemsWaiting
  BY DEF CallDequeueFront, MayStart, queue, IndInv, TypeOK, Acts
<1>2. CountOfEffect' = CountOfEffect
  BY <1>1, EffectOfActor DEF IndInv
<1>3. Waiting' = Waiting
  BY <1>1, <1>2, WaitingFrame
<1>4. CallOf(c)' = Fifo!Invoked("deq", Blank)
  BY <1>1 DEF CallOf, TookEffect, Fifo!Invoked
<1>5. Calls[c].phase = "idle"
  BY <1>1 DEF Calls, CallOf
<1> QED
  BY <1>1, <1>3, <1>4, <1>5, CallsFrame DEF IndInv, Fifo!InvokeDequeue

LEMMA EnqueueTestRefines ==
  ASSUME IndInv, NEW c \in Contexts, EnqueueTest(c)
  PROVE  Fifo!EnqueueTakesEffect(c) \/ UNCHANGED <<Waiting, Calls>>
<1>1. /\ Acts(c) /\ pc[c] = "test" /\ op[c] = "enq" /\ pc'[c] \in {"copy", "unmask"}
      /\ op'[c] = "enq" /\ buffer'[c] = buffer[c] /\ front' = front /\ items' = items
      /\ numItemsWaiting' = numItemsWaiting /\ numItemsWaiting \in 0 .. MaxNumItems
  BY StepActs DEF EnqueueTest, queue, IndInv, TypeOK, Goes, Acts
<1>2. CountOfEffect = numItemsWaiting /\ CountOfEffect' = numItemsWaiting
  BY <1>1, EffectOfActor DEF IndInv
<1>3. CASE numItemsWaiting < MaxNumItems
  <2>1. CallOf(c)' = CallOf(c)
    BY <1>1, <1>3 DEF EnqueueTest, Goes, IndInv, TypeOK, CallOf, TookEffect
  <2> QED
    BY <1>1, <1>2, <2>1, StepStutters
<1>4. CASE ~(numItemsWaiting < MaxNumItems)
  <2>1. pc'[c] = "unmask" /\ ok'[c] = FALSE
    BY <1>1, <1>4 DEF EnqueueTest, Goes, IndInv, TypeOK, LocalsInv, LocalsOf
  <2>2. CallOf(c)' = Fifo!Answered("enq", buffer[c], FALSE)
    BY <1>1, <2>1 DEF CallOf, TookEffect, Fifo!Answered
  <2>3. Calls[c].phase = "invoked" /\ Calls[c].op = "enq" /\ Calls[c].item = buffer[c]
    BY <1>1 DEF Calls, CallOf, TookEffect
  <2>4. Len(Waiting) = MaxNumItems
    BY <1>1, <1>2, <1>4, WaitingIsSeq, CapacityAssumption
  <2>5. Waiting' = Waiting
    BY <1>1, <1>2, WaitingFrame
  <2> QED
    BY <1>1, <2>2, <2>3, <2>4, <2>5, CallsFrame DEF IndInv, Fifo!EnqueueTakesEffect
<1> QED
  BY <1>3, <1>4

LEMMA DequeueTestRefines ==
  ASSUME IndInv, NEW c \in Contexts, DequeueTest(c)
  PROVE  Fifo!DequeueTakesEffect(c) \/ UNCHANGED <<Waiting, Calls>>
<1>1. /\ Acts(c) /\ pc[c] = "test" /\ op[c] = "deq" /\ pc'[c] \in {"copy", "unmask"}
      /\ op'[c] = "deq" /\ buffer'[c] = buffer[c] /\ buffer[c] = Blank
      /\ front' = front /\ items' = items
      /\ numItemsWaiting' = numItemsWaiting /\ numItemsWaiting \in 0 .. MaxNumItems
  BY StepActs DEF DequeueTest, queue, IndInv, TypeOK, Goes, Acts, LocalsInv, LocalsOf
<1>2. CountOfEffect = numItemsWaiting /\ CountOfEffect' = numItemsWaiting
  BY <1>1, EffectOfActor DEF IndInv
<1>3. CASE numItemsWaiting > 0
  <2>1. CallOf(c)' = CallOf(c)
    BY <1>1, <1>3 DEF DequeueTest, Goes, IndInv, TypeOK, CallOf, TookEffect
  <2> QED
    BY <1>1, <1>2, <2>1, StepStutters
<1>4. CASE ~(numItemsWaiting > 0)
  <2>1. pc'[c] = "unmask" /\ ok'[c] = FALSE
    BY <1>1, <1>4 DEF DequeueTest, Goes, IndInv, TypeOK, LocalsInv, LocalsOf
  <2>2. CallOf(c)' = Fifo!Answered("deq", Blank, FALSE)
    BY <1>1, <2>1 DEF CallOf, TookEffect, Fifo!Answered
  <2>3. Calls[c].phase = "invoked" /\ Calls[c].op = "deq"
    BY <1>1 DEF Calls, CallOf, TookEffect
  <2>4. Waiting = <<>>
    BY <1>1, <1>2, <1>4, WaitingIsSeq, CapacityAssumption
  <2>5. Waiting' = Waiting
    BY <1>1, <1>2, WaitingFrame
  <2> QED
    BY <1>1, <2>2, <2>3, <2>4, <2>5, CallsFrame DEF IndInv, Fifo!DequeueTakesEffect
<1> QED
  BY <1>3, <1>4

LEMMA EnqueueCopyRefines ==
  ASSUME IndInv, NEW c \in Contexts, EnqueueCopy(c)
  PROVE  UNCHANGED <<Waiting, Calls>>
<1>1. /\ Acts(c) /\ pc[c] = "copy" /\ op[c] = "enq" /\ pc'[c] = "index"
      /\ op'[c] = "enq" /\ buffer'[c] = buffer[c] /\ front' = front
      /\ items' = [items EXCEPT ![back] = buffer[c]] /\ numItemsWaiting' = numItemsWaiting
  BY StepActs DEF EnqueueCopy, locals, IndInv, InQueueCode
<1>2. /\ CountOfEffect = numItemsWaiting /\ CountOfEffect' = numItemsWaiting
      /\ SlotsSpanned = numItemsWaiting
  BY <1>1, EffectOfActor DEF IndInv
<1>3. back = Slot(numItemsWaiting) /\ numItemsWaiting \in 0 .. MaxNumItems - 1
  BY <1>1, <1>2, CapacityAssumption DEF IndInv, TypeOK, LocalsInv, LocalsOf, RingInv
<1>4. \A k \in 0 .. MaxNumItems - 1 :
        k < CountOfEffect => items'[Slot(k)] = items[Slot(k)]
  <2> SUFFICES ASSUME NEW k \in 0 .. MaxNumItems - 1, k < numItemsWaiting
               PROVE  items'[Slot(k)] = items[Slot(k)]
    BY <1>2
  <2>1. Slot(k) # back /\ Slot(k) \in 0 .. MaxNumItems - 1
    BY <1>3, SlotInjective, SlotRange, CapacityAssumption DEF IndInv
  <2> QED
    BY <1>1, <2>1 DEF IndInv, TypeOK
<1>5. CallOf(c)' = CallOf(c)
  BY <1>1 DEF CallOf, TookEffect
<1> QED
  BY <1>1, <1>2, <1>4, <1>5, StepStutters

\* The steps inside a call that touch nothing the abstract queue shows.
LEMMA HiddenStepRefines ==
  ASSUME IndInv, NEW c \in Contexts,
         \/ DisableLowPriorityInterrupts(c) \/ AdvanceBack(c) \/ DequeueCopy(c)
         \/ LoadCount(c) \/ EnableAllInterrupts(c)
  PROVE  UNCHANGED <<Waiting, Calls>>
<1> USE DEF IndInv, queue, locals
<1>1. CASE DisableLowPriorityInterrupts(c)
  <2>1. /\ Acts(c) /\ pc[c] = "mask" /\ pc'[c] = "test" /\ op' = op /\ buffer' = buffer
        /\ front' = front /\ items' = items /\ numItemsWaiting' = numItemsWaiting
    BY <1>1, StepActs DEF DisableLowPriorityInterrupts, InQueueCode
  <2>2. CountOfEffect' = CountOfEffect /\ CallOf(c)' = CallOf(c)
    BY <2>1, EffectOfActor DEF CallOf, TookEffect
  <2> QED
    BY <2>1, <2>2, StepStutters
<1>2. CASE AdvanceBack(c)
  <2>1. /\ Acts(c) /\ pc[c] = "index" /\ pc'[c] = "load" /\ op[c] = "enq"
        /\ op' = op /\ buffer' = buffer
        /\ front' = front /\ items' = items /\ numItemsWaiting' = numItemsWaiting
    BY <1>2, StepActs DEF AdvanceBack, InQueueCode
  <2>2. CountOfEffect' = CountOfEffect /\ CallOf(c)' = CallOf(c)
    BY <2>1, EffectOfActor DEF CallOf, TookEffect
  <2> QED
    BY <2>1, <2>2, StepStutters
<1>3. CASE DequeueCopy(c)
  <2>1. /\ Acts(c) /\ pc[c] = "copy" /\ pc'[c] = "index" /\ op[c] = "deq" /\ op' = op
        /\ front' = front /\ items' = items /\ numItemsWaiting' = numItemsWaiting
    BY <1>3, StepActs DEF DequeueCopy, InQueueCode
  <2>2. CountOfEffect' = CountOfEffect /\ CallOf(c)' = CallOf(c)
    BY <2>1, EffectOfActor DEF CallOf, TookEffect
  <2> QED
    BY <2>1, <2>2, StepStutters
<1>4. CASE LoadCount(c)
  <2>1. /\ Acts(c) /\ pc[c] = "load" /\ pc'[c] = "store"
        /\ op' = op /\ buffer' = buffer /\ ok' = ok
        /\ front' = front /\ items' = items /\ numItemsWaiting' = numItemsWaiting
    BY <1>4, StepActs DEF LoadCount, TypeOK, InQueueCode
  <2>2. CountOfEffect' = CountOfEffect /\ CallOf(c)' = CallOf(c)
    BY <2>1, EffectOfActor DEF CallOf, TookEffect
  <2> QED
    BY <2>1, <2>2, StepStutters
<1>5. CASE EnableAllInterrupts(c)
  <2>1. /\ Acts(c) /\ pc[c] = "unmask" /\ pc'[c] = "return"
        /\ op' = op /\ buffer' = buffer /\ ok' = ok
        /\ front' = front /\ items' = items /\ numItemsWaiting' = numItemsWaiting
    BY <1>5, StepActs DEF EnableAllInterrupts, InQueueCode
  <2>2. CountOfEffect' = CountOfEffect /\ CallOf(c)' = CallOf(c)
    BY <2>1, EffectOfActor DEF CallOf, TookEffect
  <2> QED
    BY <2>1, <2>2, StepStutters
<1> QED
  BY <1>1, <1>2, <1>3, <1>4, <1>5

LEMMA AdvanceFrontRefines ==
  ASSUME IndInv, NEW c \in Contexts, AdvanceFront(c)
  PROVE  Fifo!DequeueTakesEffect(c)
<1>1. /\ Acts(c) /\ pc[c] = "index" /\ op[c] = "deq" /\ pc'[c] = "load" /\ op' = op
      /\ buffer' = buffer /\ ok' = ok /\ front' = Successor(front) /\ items' = items
      /\ numItemsWaiting' = numItemsWaiting
  BY StepActs DEF AdvanceFront, locals, IndInv, InQueueCode
<1>2. CountOfEffect = numItemsWaiting /\ CountOfEffect' = numItemsWaiting - 1
  BY <1>1, EffectOfActor DEF IndInv
<1>3. /\ numItemsWaiting \in 1 .. MaxNumItems /\ buffer[c] = items[front]
      /\ ok[c] = TRUE
  BY <1>1, CapacityAssumption DEF IndInv, TypeOK, LocalsInv, LocalsOf
<1>4. Waiting # <<>> /\ Head(Waiting) = buffer[c]
  <2>1. Waiting \in Seq(Items) /\ Len(Waiting) = numItemsWaiting
    BY <1>2, WaitingIsSeq
  <2>2. Slot(0) = front
    BY CapacityAssumption DEF IndInv, TypeOK, Slot
  <2>3. Waiting[1] = items[Slot(0)]
    BY <1>2, <1>3, CapacityAssumption DEF Waiting
  <2> QED
    BY <1>3, <2>1, <2>2, <2>3, CapacityAssumption
<1>5. Waiting' = Tail(Waiting)
  <2>1. Waiting \in Seq(Items) /\ Len(Waiting) = numItemsWaiting
    BY <1>2, WaitingIsSeq
  <2>2. /\ Tail(Waiting) \in Seq(Items) /\ Len(Tail(Waiting)) = numItemsWaiting - 1
        /\ \A k \in 1 .. numItemsWaiting - 1 : Tail(Waiting)[k] = Waiting[k + 1]
    BY <1>3, <1>4, <2>1, CapacityAssumption
  <2>3. \A k \in 1 .. numItemsWaiting - 1 : items[Slot(k - 1)'] = Waiting[k + 1]
    <3> SUFFICES ASSUME NEW k \in 1 .. numItemsWaiting - 1
                 PROVE  items[Slot(k - 1)'] = Waiting[k + 1]
      OBVIOUS
    <3>1. Slot(k - 1)' = Slot(k)
      BY <1>1, <1>3, CapacityAssumption DEF IndInv, TypeOK, Slot, Successor
    <3>2. Waiting[k + 1] = items[Slot(k + 1 - 1)]
      BY <1>2, <1>3, CapacityAssumption DEF Waiting
    <3>3. k + 1 - 1 = k
      BY <1>3, CapacityAssumption
    <3> QED
      BY <3>1, <3>2, <3>3
  <2>4. Tail(Waiting) = [k \in 1 .. numItemsWaiting - 1 |-> Tail(Waiting)[k]]
    <3>1. Tail(Waiting) \in [1 .. numItemsWaiting - 1 -> Items]
      BY <2>2, LenProperties
    <3> QED
      BY <3>1
  <2>5. Waiting' = [k \in 1 .. numItemsWaiting - 1 |-> items[Slot(k - 1)']]
    BY <1>1, <1>2 DEF Waiting
  <2> QED
    BY <2>2, <2>3, <2>4, <2>5
<1>6. CallOf(c)' = Fifo!Answered("deq", Head(Waiting), TRUE)
  BY <1>1, <1>3, <1>4 DEF CallOf, TookEffect, Fifo!Answered
<1>7. Calls[c].phase = "invoked" /\ Calls[c].op = "deq"
  BY <1>1 DEF Calls, CallOf, TookEffect
<1> QED
  BY <1>1, <1>4, <1>5, <1>6, <1>7, CallsFrame DEF IndInv, Fifo!DequeueTakesEffect

LEMMA StoreCountRefines ==
  ASSUME IndInv, NEW c \in Contexts, StoreCount(c)
  PROVE  Fifo!EnqueueTakesEffect(c) \/ UNCHANGED <<Waiting, Calls>>
<1>1. /\ Acts(c) /\ pc[c] = "store" /\ pc'[c] = "unmask" /\ op' = op
      /\ buffer' = buffer /\ ok' = ok /\ front' = front /\ items' = items
      /\ numItemsWaiting' = IF op[c] = "enq" THEN reg[c] + 1 ELSE reg[c] - 1
  BY StepActs DEF StoreCount, locals, IndInv, InQueueCode
<1>2. /\ op[c] \in {"enq", "deq"} /\ ok[c] = TRUE /\ reg[c] = numItemsWaiting
      /\ numItemsWaiting \in 0 .. MaxNumItems
      /\ op[c] = "enq" => /\ numItemsWaiting < MaxNumItems
                          /\ items[Slot(numItemsWaiting)] = buffer[c]
  BY <1>1 DEF IndInv, TypeOK, LocalsInv, LocalsOf, InQueueCode
<1>3. CASE op[c] = "deq"
  <2>1. CountOfEffect' = CountOfEffect
    BY <1>1, <1>2, <1>3, EffectOfActor DEF IndInv
  <2>2. CallOf(c)' = CallOf(c)
    BY <1>1, <1>3 DEF CallOf, TookEffect
  <2> QED
    BY <1>1, <2>1, <2>2, StepStutters
<1>4. CASE op[c] = "enq"
  <2>1. CountOfEffect = numItemsWaiting /\ CountOfEffect' = numItemsWaiting + 1
    BY <1>1, <1>2, <1>4, EffectOfActor DEF IndInv
  <2>2. Waiting \in Seq(Items) /\ Len(Waiting) = numItemsWaiting
    BY <2>1, WaitingIsSeq
  <2>3. Waiting' = Append(Waiting, buffer[c])
    <3>1. \A k \in 1 .. numItemsWaiting + 1 :
            items[Slot(k - 1)'] = Append(Waiting, buffer[c])[k]
      <4> SUFFICES ASSUME NEW k \in 1 .. numItemsWaiting + 1
                   PROVE  items[Slot(k - 1)'] = Append(Waiting, buffer[c])[k]
        OBVIOUS
      <4>1. Slot(k - 1)' = Slot(k - 1)
        BY <1>1 DEF Slot
      <4>2. CASE k = numItemsWaiting + 1
        <5>1. k - 1 = numItemsWaiting
          BY <1>2, <4>2, CapacityAssumption
        <5> QED
          BY <1>2, <1>4, <2>2, <4>1, <4>2, <5>1
      <4>3. CASE k # numItemsWaiting + 1
        <5>1. k \in 1 .. numItemsWaiting
          BY <1>2, <4>3, CapacityAssumption
        <5>2. Waiting[k] = items[Slot(k - 1)]
          BY <2>1, <5>1 DEF Waiting
        <5>3. Append(Waiting, buffer[c])[k] = Waiting[k]
          BY <2>2, <5>1
        <5> QED
          BY <4>1, <5>2, <5>3
      <4> QED
        BY <4>2, <4>3
    <3>2. Append(Waiting, buffer[c])
            = [k \in 1 .. numItemsWaiting + 1 |-> Append(Waiting, buffer[c])[k]]
      BY <1>2, <2>2
    <3>3. Waiting' = [k \in 1 .. numItemsWaiting + 1 |-> items[Slot(k - 1)']]
      BY <1>1, <2>1 DEF Waiting
    <3> QED
      BY <3>1, <3>2, <3>3
  <2>4. CallOf(c)' = Fifo!Answered("enq", buffer[c], TRUE)
    BY <1>1, <1>2, <1>4 DEF CallOf, TookEffect, Fifo!Answered
  <2>5. Calls[c].phase = "invoked" /\ Calls[c].op = "enq" /\ Calls[c].item = buffer[c]
    BY <1>1, <1>4 DEF Calls, CallOf, TookEffect
  <2> QED
    BY <1>1, <1>2, <1>4, <2>2, <2>3, <2>4, <2>5, CallsFrame
    DEF IndInv, Fifo!EnqueueTakesEffect
<1> QED
  BY <1>2, <1>3, <1>4

LEMMA ReturnRefines ==
  ASSUME IndInv, NEW c \in Contexts, Return(c)
  PROVE  Fifo!CallReturns(c)
<1>1. /\ Acts(c) /\ pc[c] = "return" /\ pc'[c] = "idle"
      /\ front' = front /\ items' = items /\ numItemsWaiting' = numItemsWaiting
  BY DEF Return, queue, IndInv, TypeOK, InQueueCode, Goes, Acts
<1>2. CountOfEffect' = CountOfEffect
  BY <1>1, EffectOfActor DEF IndInv
<1>3. Waiting' = Waiting
  BY <1>1, <1>2, WaitingFrame
<1>4. CallOf(c)' = Fifo!NoCall
  BY <1>1 DEF CallOf, Fifo!NoCall
<1>5. Calls[c].phase = "done"
  BY <1>1 DEF Calls, CallOf, TookEffect
<1> QED
  BY <1>1, <1>3, <1>4, <1>5, CallsFrame DEF IndInv, Fifo!CallReturns

LEMMA NextRefines == IndInv /\ [Next]_vars => [Fifo!FifoNext]_(Fifo!fifoVars)
<1> SUFFICES ASSUME IndInv, [Next]_vars
             PROVE  Fifo!FifoNext \/ UNCHANGED <<Waiting, Calls>>
  BY DEF Fifo!fifoVars
<1>1. ASSUME NEW c \in Senders, CallEnqueueBack(c)
      PROVE  Fifo!FifoNext
  BY <1>1, CallEnqueueBackRefines DEF Contexts, Fifo!FifoNext
<1>2. ASSUME NEW c \in Receivers, PollNumItems(c) \/ CallDequeueFront(c)
      PROVE  Fifo!FifoNext \/ UNCHANGED <<Waiting, Calls>>
  BY <1>2, PollNumItemsRefines, CallDequeueFrontRefines DEF Contexts, Fifo!FifoNext
<1>3. ASSUME NEW c \in Contexts, Step(c)
      PROVE  Fifo!FifoNext \/ UNCHANGED <<Waiting, Calls>>
  BY <1>3, HiddenStepRefines, EnqueueTestRefines, DequeueTestRefines,
     EnqueueCopyRefines, AdvanceFrontRefines, StoreCountRefines, ReturnRefines
  DEF Step, Fifo!FifoNext
<1>4. CASE UNCHANGED vars
  BY <1>4 DEF vars, queue, locals, Waiting, CountOfEffect, Slot, Calls, CallOf, TookEffect
<1> QED
  BY <1>1, <1>2, <1>3, <1>4 DEF Next

\* queue.c implements a linearizable bounded FIFO for every capacity, every set of
\* contexts and every interleaving that preemption allows.
THEOREM QueueImplementsFifo == Spec => ImplementsFifo
BY InitRefines, NextRefines, Inductive, PTL DEF Spec, ImplementsFifo, Fifo!FifoSpec
=============================================================================
