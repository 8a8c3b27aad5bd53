------------------------------ MODULE SpiProofs ------------------------------
(***************************************************************************)
(* For queues of every length: the chain of transmissions is never cut,    *)
(* and the message-waiting pin is high as long as the sub holds a message, *)
(* but for the race of sendPacketSpi with my_post_trans_cb.                *)
(***************************************************************************)
EXTENDS SpiLink, TLAPS

\* A sub that is not idle has the transaction it is set up for, and it hears bits
\* of no other.
PhaseInv ==
  /\ subPhase # "idle" => Len(trans) > 0
  /\ heard # "none" => subPhase = "ready"

\* The transactions that are still queued and counted off already.
Past == IF subPhase \in {"lower", "release"} THEN 1 ELSE 0

\* The position that sendPacketSpi stored does not fall behind the messages, once it is
\* stored and unless it raced: those in the prequeue go out after every queued
\* transaction, a queued one after those before it.  my_post_trans_cb still holds the
\* position it loaded, and lowers the pin at none.
PositionInv ==
  /\ sendPc # "counted" /\ ~raced =>
       /\ numWaiting > 0 => lastRealMessagePosition >= numWaiting + Len(trans) - Past
       /\ \A i \in 1 .. Len(trans) : trans[i] = "real" => lastRealMessagePosition >= i - Past
       /\ subPhase = "loaded" => positionRead = lastRealMessagePosition
       /\ subPhase = "lower" => lastRealMessagePosition = 0
       /\ sendPc = "idle" /\ lastRealMessagePosition > 0 => msgWaiting
  /\ sendPc = "counted" => numWaiting <= countRead

\* A context that saw an empty send queue is right until it gives up: the task, the
\* only one that fills the queue, is that context or preempted by it.
EmptySeen ==
  \A c \in Contexts : pc[c] = "testMsgWaiting" /\ ~txWaiting[c] => numSending = 0

Inv == TypeOK /\ PhaseInv /\ PositionInv /\ EmptySeen /\ ChainNotCut

-----------------------------------------------------------------------------
THEOREM InitInv == Init => Inv
<1> SUFFICES ASSUME Init PROVE Inv
  OBVIOUS
<1> USE SpiAssumption, SubAssumption DEF Init, SpiInit
<1>1. TypeOK
  <2>1. trans = <<>> /\ finished = 0
    OBVIOUS
  <2>2. trans \in Seq({"real", "nada"}) /\ Len(trans) = 0
    BY <2>1
  <2>3. TransactionQueueLen \in Nat /\ TxPrequeueLen \in Nat /\ SendQueueLength \in Nat
    OBVIOUS
  <2>4. /\ 0 \in 0 .. SendQueueLength /\ 0 \in 0 .. TxPrequeueLen
        /\ 0 \in 0 .. TxPrequeueLen + TransactionQueueLen
        /\ Len(trans) + finished <= TransactionQueueLen /\ finished \in Nat
    BY <2>1, <2>2, <2>3
  <2>5. /\ pc \in [Contexts -> {"idle", "testBusy", "testCts", "arm", "countItems",
                                "testMsgWaiting", "fill", "select", "transfer"}]
        /\ txWaiting \in [Contexts -> BOOLEAN]
    OBVIOUS
  <2>6. /\ pending \subseteq {"clearToSend", "msgWaiting", "complete"}
        /\ cts \in BOOLEAN /\ msgWaiting \in BOOLEAN
    OBVIOUS
  <2> QED
    BY <2>2, <2>4, <2>5, <2>6 DEF TypeOK
<1>2. PhaseInv /\ PositionInv
  BY DEF PhaseInv, PositionInv
<1>3. EmptySeen /\ ChainNotCut
  BY DEF EmptySeen, ChainNotCut
<1> QED
  BY <1>1, <1>2, <1>3 DEF Inv

-----------------------------------------------------------------------------
(* The type invariant, with the phases of the sub.                         *)

\* The variables of the main, and those of the sub.
MainTypes ==
  /\ numSending \in 0 .. SendQueueLength
  /\ txPacket \in {"fresh", "empty", "sent"}
  /\ spiBusy \in BOOLEAN /\ slaveSelect \in BOOLEAN /\ ctsIocOn \in BOOLEAN
  /\ onWire \in BOOLEAN /\ cts \in BOOLEAN /\ msgWaiting \in BOOLEAN
  /\ pending \subseteq {"clearToSend", "msgWaiting", "complete"}
  /\ pc \in [Contexts -> {"idle", "testBusy", "testCts", "arm", "countItems",
                          "testMsgWaiting", "fill", "select", "transfer"}]
  /\ txWaiting \in [Contexts -> BOOLEAN]

LEMMA TypesFromMain ==
  ASSUME TypeOK, SubHears, MainTypes'
  PROVE  TypeOK'
BY DEF TypeOK, MainTypes, SubHears, Listens, queueVars, positionVars, sendVars

LEMMA MainStepTypes ==
  ASSUME TypeOK, MainStep
  PROVE  TypeOK'
<1> USE SpiAssumption DEF Goes, Contexts, pins, MainTypes
<1>1. SubHears /\ MainTypes
  BY DEF MainStep, TypeOK
<1>2. CASE SendMsg
  BY <1>1, <1>2, TypesFromMain DEF SendMsg
<1>3. CASE SubMsgWaitingISR
  BY <1>1, <1>3, TypesFromMain DEF SubMsgWaitingISR, Takes
<1>4. CASE SubClearToSendISR
  BY <1>1, <1>4, TypesFromMain DEF SubClearToSendISR, Takes
<1>5. CASE SpiEventHandlerISR
  BY <1>1, <1>5, TypesFromMain DEF SpiEventHandlerISR
<1>6. ASSUME NEW c \in Contexts, StartTxChain(c)
      PROVE  TypeOK'
  <2>1. CASE TestBusy(c)
    BY <1>1, <2>1, TypesFromMain DEF TestBusy
  <2>2. CASE TestClearToSend(c)
    BY <1>1, <2>2, TypesFromMain DEF TestClearToSend
  <2>3. CASE EnableCtsIoc(c)
    BY <1>1, <2>3, TypesFromMain DEF EnableCtsIoc
  <2>4. CASE CountItems(c)
    BY <1>1, <2>4, TypesFromMain DEF CountItems
  <2>5. CASE TestMsgWaiting(c)
    BY <1>1, <2>5, TypesFromMain DEF TestMsgWaiting
  <2>6. CASE FillTxPacket(c)
    BY <1>1, <2>6, TypesFromMain DEF FillTxPacket
  <2>7. CASE ActivateSlaveSelect(c)
    BY <1>1, <2>7, TypesFromMain DEF ActivateSlaveSelect
  <2>8. CASE Transfer(c)
    BY <1>1, <2>8, TypesFromMain DEF Transfer
  <2> QED
    BY <1>6, <2>1, <2>2, <2>3, <2>4, <2>5, <2>6, <2>7, <2>8, Zenon DEF StartTxChain
<1> QED
  BY <1>2, <1>3, <1>4, <1>5, <1>6, Zenon DEF MainStep, TakeInterrupt

\* The steps of the two calls that race.
SendPacketSteps == CountPacket \/ StorePosition \/ RaiseMsgWaiting
PostTransSteps == LoadPosition \/ CountOff \/ LowerMsgWaiting \/ PostTrans

THEOREM TypesStep ==
  ASSUME TypeOK, PhaseInv, [Next]_vars
  PROVE  TypeOK' /\ PhaseInv'
<1> USE SpiAssumption, SubAssumption
<1>1. CASE MainStep
  <2>1. TypeOK'
    BY <1>1, MainStepTypes
  <2>2. SubHears
    BY <1>1 DEF MainStep
  <2>3. PhaseInv'
    BY <2>2 DEF SubHears, PhaseInv, Listens, queueVars
  <2> QED
    BY <2>1, <2>3
<1>2. CASE WireEnds
  <2>1. MainTypes'
    BY <1>2 DEF WireEnds, TypeOK, MainTypes, pins
  <2>2. /\ UNCHANGED <<queueVars, positionVars, sendVars>>
        /\ subPhase' \in {subPhase, "done"} /\ heard' = "none"
        /\ subPhase' # subPhase => heard # "none"
    BY <1>2 DEF WireEnds
  <2>3. TypeOK'
    BY <2>1, <2>2 DEF TypeOK, MainTypes, queueVars, positionVars, sendVars
  <2>4. PhaseInv'
    BY <2>2 DEF PhaseInv, queueVars
  <2> QED
    BY <2>3, <2>4
<1>3. CASE SendPacketSteps
  <2> USE DEF TypeOK, PhaseInv, spiVars, pins, queueVars, positionVars, sendVars
  <2>1. CASE CountPacket
    BY <2>1 DEF CountPacket
  <2>2. CASE StorePosition
    <3>1. PICK count \in {countRead, numWaiting} :
            lastRealMessagePosition' = count + TransactionQueueLen
      BY <2>2 DEF StorePosition, PositionOf
    <3>2. lastRealMessagePosition' \in 0 .. TxPrequeueLen + TransactionQueueLen
      BY <3>1
    <3> QED
      BY <2>2, <3>2 DEF StorePosition
  <2>3. CASE RaiseMsgWaiting
    BY <2>3 DEF RaiseMsgWaiting
  <2> QED
    BY <1>3, <2>1, <2>2, <2>3 DEF SendPacketSteps
<1>4. CASE AddToTransactionQueue
  <2>1. PICK t \in {"real", "nada"} : trans' = Append(trans, t)
    BY <1>4 DEF AddToTransactionQueue
  <2>2. trans' \in Seq({"real", "nada"}) /\ Len(trans') = Len(trans) + 1
    BY <2>1 DEF TypeOK
  <2> QED
    BY <1>4, <2>2
    DEF AddToTransactionQueue, TypeOK, PhaseInv, spiVars, pins, positionVars, sendVars
<1>5. CASE Collect
  BY <1>5 DEF Collect, TypeOK, PhaseInv, spiVars, pins, positionVars, sendVars
<1>6. CASE PostSetup
  BY <1>6 DEF PostSetup, TypeOK, PhaseInv, queueVars, positionVars, sendVars
<1>7. CASE PostTransSteps
  <2> USE DEF PhaseInv, spiVars, pins, queueVars, positionVars, sendVars
  <2>1. CASE LoadPosition
    BY <2>1 DEF LoadPosition, TypeOK
  <2>2. CASE CountOff
    BY <2>2 DEF CountOff, TypeOK
  <2>3. CASE LowerMsgWaiting
    <3>1. MainTypes'
      BY <2>3 DEF LowerMsgWaiting, TypeOK, MainTypes
    <3>2. /\ UNCHANGED <<queueVars, heard, positionVars, sendVars>>
          /\ subPhase = "lower" /\ subPhase' = "release"
      BY <2>3 DEF LowerMsgWaiting
    <3>3. TypeOK'
      BY <3>1, <3>2 DEF TypeOK, MainTypes
    <3> QED
      BY <3>2, <3>3
  <2>4. CASE PostTrans
    <3>1. trans # <<>>
      BY <2>4 DEF PostTrans, TypeOK
    <3>2. trans' \in Seq({"real", "nada"}) /\ Len(trans') = Len(trans) - 1
      BY <2>4, <3>1 DEF PostTrans, TypeOK
    <3>3. finished' \in Nat /\ Len(trans') + finished' <= TransactionQueueLen
      BY <2>4, <3>2 DEF PostTrans, TypeOK
    <3>4. cts' \in BOOLEAN /\ subPhase' = "idle" /\ heard' = "none"
      BY <2>4 DEF PostTrans, TypeOK
    <3> QED
      BY <2>4, <3>2, <3>3, <3>4 DEF PostTrans, TypeOK
  <2> QED
    BY <1>7, <2>1, <2>2, <2>3, <2>4 DEF PostTransSteps
<1>8. CASE UNCHANGED vars
  BY <1>8 DEF vars, spiVars, pins, subVars, queueVars, positionVars, sendVars, TypeOK, PhaseInv
<1> QED
  BY <1>1, <1>2, <1>3, <1>4, <1>5, <1>6, <1>7, <1>8 DEF Next, SendPacketSteps, PostTransSteps

-----------------------------------------------------------------------------
(* The message-waiting pin.                                                *)

\* A main that only reads the pins leaves the sub's bookkeeping alone.
LEMMA MainKeepsPins ==
  ASSUME MainStep
  PROVE  UNCHANGED <<pins, queueVars, subPhase, positionVars, sendVars>>
<1>1. SubHears
  BY DEF MainStep
<1>2. CASE SendMsg
  BY <1>1, <1>2 DEF SendMsg, SubHears
<1>3. CASE TakeInterrupt
  BY <1>1, <1>3 DEF TakeInterrupt, SubMsgWaitingISR, SubClearToSendISR, SpiEventHandlerISR, SubHears
<1>4. ASSUME NEW c \in Contexts, StartTxChain(c)
      PROVE  UNCHANGED <<pins, queueVars, subPhase, positionVars, sendVars>>
  BY <1>1, <1>4 DEF StartTxChain, TestBusy, TestClearToSend, EnableCtsIoc, CountItems,
     TestMsgWaiting, FillTxPacket, ActivateSlaveSelect, Transfer, SubHears
<1> QED
  BY <1>2, <1>3, <1>4 DEF MainStep

LEMMA SendPacketPosition ==
  ASSUME TypeOK, PhaseInv, PositionInv, SendPacketSteps
  PROVE  PositionInv'
<1> USE SpiAssumption, SubAssumption
    DEF TypeOK, Past, PositionInv, spiVars, pins, queueVars, positionVars, sendVars
<1>1. CASE CountPacket
  BY <1>1 DEF CountPacket
<1>2. CASE StorePosition
  <2>1. PICK count \in {countRead, numWaiting} :
          lastRealMessagePosition' = count + TransactionQueueLen
    BY <1>2 DEF StorePosition, PositionOf
  <2>2. /\ sendPc = "counted" /\ sendPc' = "placed"
        /\ raced' = (subPhase \in {"loaded", "lower"})
        /\ UNCHANGED <<trans, numWaiting, subPhase, positionRead, msgWaiting>>
    BY <1>2 DEF StorePosition
  <2>3. numWaiting <= count /\ Len(trans) <= TransactionQueueLen /\ Len(trans) \in Nat
    BY <2>2
  <2>4. lastRealMessagePosition' >= numWaiting + Len(trans) - Past
    BY <2>1, <2>3
  <2>5. \A i \in 1 .. Len(trans) : lastRealMessagePosition' >= i - Past
    BY <2>1, <2>3
  <2> QED
    BY <2>2, <2>4, <2>5
<1>3. CASE RaiseMsgWaiting
  BY <1>3 DEF RaiseMsgWaiting
<1> QED
  BY <1>1, <1>2, <1>3 DEF SendPacketSteps

LEMMA AddPosition ==
  ASSUME TypeOK, PositionInv, AddToTransactionQueue
  PROVE  PositionInv'
<1> USE SpiAssumption, SubAssumption DEF TypeOK, Past, PositionInv
<1>1. UNCHANGED <<msgWaiting, lastRealMessagePosition, positionRead, subPhase, sendPc, countRead, raced>>
  BY DEF AddToTransactionQueue, pins, positionVars, sendVars
<1>2. CASE numWaiting > 0
  <2>1. trans' = Append(trans, "real") /\ numWaiting' = numWaiting - 1
    BY <1>2 DEF AddToTransactionQueue
  <2>2. /\ Len(trans') = Len(trans) + 1
        /\ \A i \in 1 .. Len(trans) : trans'[i] = trans[i]
    BY <2>1
  <2>3. ASSUME sendPc # "counted", ~raced
        PROVE  /\ numWaiting' > 0 =>
                    lastRealMessagePosition >= numWaiting' + Len(trans') - Past
               /\ \A i \in 1 .. Len(trans') :
                    trans'[i] = "real" => lastRealMessagePosition >= i - Past
    <3>1. /\ lastRealMessagePosition >= numWaiting + Len(trans) - Past
          /\ \A i \in 1 .. Len(trans) :
               trans[i] = "real" => lastRealMessagePosition >= i - Past
      BY <1>2, <2>3
    <3>2. lastRealMessagePosition >= numWaiting' + Len(trans') - Past
      BY <3>1, <2>1, <2>2
    <3>3. lastRealMessagePosition >= Len(trans') - Past
      BY <1>2, <3>1, <2>2
    <3>4. ASSUME NEW i \in 1 .. Len(trans'), trans'[i] = "real"
          PROVE  lastRealMessagePosition >= i - Past
      <4>1. CASE i \in 1 .. Len(trans)
        BY <3>1, <3>4, <2>2, <4>1
      <4>2. CASE i = Len(trans')
        BY <3>3, <4>2
      <4> QED
        BY <2>2, <4>1, <4>2
    <3> QED
      BY <3>2, <3>4
  <2>4. sendPc = "counted" => numWaiting' <= countRead
    BY <1>2, <2>1
  <2>5. sendPc # "counted" /\ ~raced =>
          /\ subPhase = "loaded" => positionRead = lastRealMessagePosition
          /\ subPhase = "lower" => lastRealMessagePosition = 0
          /\ sendPc = "idle" /\ lastRealMessagePosition > 0 => msgWaiting
    OBVIOUS
  <2> QED
    BY <1>1, <2>3, <2>4, <2>5
<1>3. CASE ~(numWaiting > 0)
  <2>1. trans' = Append(trans, "nada") /\ numWaiting' = 0
    BY <1>3 DEF AddToTransactionQueue
  <2>2. /\ Len(trans') = Len(trans) + 1
        /\ \A i \in 1 .. Len(trans) : trans'[i] = trans[i]
        /\ trans'[Len(trans) + 1] = "nada"
    BY <2>1
  <2>3. \A i \in 1 .. Len(trans') : trans'[i] = "real" => i \in 1 .. Len(trans)
    BY <2>2
  <2> QED
    BY <1>1, <2>1, <2>2, <2>3
<1> QED
  BY <1>2, <1>3

LEMMA PostTransPosition ==
  ASSUME TypeOK, PhaseInv, PositionInv, PostTransSteps
  PROVE  PositionInv'
<1> USE SpiAssumption, SubAssumption
    DEF TypeOK, Past, PositionInv, spiVars, pins, queueVars, positionVars, sendVars
<1>1. CASE LoadPosition
  BY <1>1 DEF LoadPosition
<1>2. CASE CountOff
  <2>1. Len(trans) > 0 /\ Len(trans) \in Nat
    BY <1>2 DEF CountOff, PhaseInv
  <2> QED
    BY <1>2, <2>1 DEF CountOff
<1>3. CASE LowerMsgWaiting
  BY <1>3 DEF LowerMsgWaiting
<1>4. CASE PostTrans
  <2>1. trans # <<>>
    BY <1>4 DEF PostTrans, PhaseInv
  <2>2. /\ Len(trans') = Len(trans) - 1
        /\ \A i \in 1 .. Len(trans') : i + 1 \in 1 .. Len(trans) /\ trans'[i] = trans[i + 1]
    BY <1>4, <2>1 DEF PostTrans
  <2>3. /\ subPhase = "release" /\ subPhase' = "idle"
        /\ UNCHANGED <<msgWaiting, numWaiting, lastRealMessagePosition, positionRead,
                       sendPc, countRead, raced>>
    BY <1>4 DEF PostTrans
  <2>4. ASSUME sendPc # "counted", ~raced
        PROVE  /\ numWaiting > 0 => lastRealMessagePosition >= numWaiting + Len(trans')
               /\ \A i \in 1 .. Len(trans') : trans'[i] = "real" => lastRealMessagePosition >= i
               /\ sendPc = "idle" /\ lastRealMessagePosition > 0 => msgWaiting
    BY <2>2, <2>3, <2>4
  <2> QED
    BY <2>3, <2>4
<1> QED
  BY <1>1, <1>2, <1>3, <1>4 DEF PostTransSteps

THEOREM PositionStep ==
  ASSUME TypeOK, PhaseInv, PositionInv, [Next]_vars
  PROVE  PositionInv'
<1> USE DEF Past, pins, queueVars, positionVars, sendVars
<1>1. CASE MainStep
  BY <1>1, MainKeepsPins DEF PositionInv
<1>2. CASE WireEnds
  BY <1>2 DEF WireEnds, PositionInv, PhaseInv
<1>3. CASE SendPacketSteps
  BY <1>3, SendPacketPosition
<1>4. CASE AddToTransactionQueue
  BY <1>4, AddPosition
<1>5. CASE Collect
  BY <1>5 DEF Collect, PositionInv
<1>6. CASE PostSetup
  BY <1>6 DEF PostSetup, PositionInv
<1>7. CASE PostTransSteps
  BY <1>7, PostTransPosition
<1>8. CASE UNCHANGED vars
  BY <1>8 DEF vars, subVars, PositionInv
<1> QED
  BY <1>1, <1>2, <1>3, <1>4, <1>5, <1>6, <1>7, <1>8 DEF Next, SendPacketSteps, PostTransSteps

-----------------------------------------------------------------------------
(* The chain of transmissions.                                             *)

Armed == spiBusy \/ ctsIocOn \/ "clearToSend" \in pending

\* What a step of the sub or of the wire does to the main.
LEMMA ChainOutside ==
  ASSUME EmptySeen, ChainNotCut, UNCHANGED <<numSending, pc, txWaiting>>, Armed => Armed'
  PROVE  EmptySeen' /\ ChainNotCut'
BY DEF EmptySeen, ChainNotCut, Armed

THEOREM ChainStep ==
  ASSUME TypeOK, EmptySeen, ChainNotCut, [Next]_vars
  PROVE  EmptySeen' /\ ChainNotCut'
<1> USE SpiAssumption
<1>1. CASE MainStep
  <2> USE DEF TypeOK, EmptySeen, ChainNotCut, Goes, Contexts
  <2>1. CASE SendMsg
    BY <2>1 DEF SendMsg
  <2>2. CASE SubMsgWaitingISR
    BY <2>2 DEF SubMsgWaitingISR, Takes
  <2>3. CASE SubClearToSendISR
    BY <2>3 DEF SubClearToSendISR, Takes
  <2>4. CASE SpiEventHandlerISR
    BY <2>4 DEF SpiEventHandlerISR
  <2>5. ASSUME NEW c \in Contexts, StartTxChain(c)
        PROVE  EmptySeen' /\ ChainNotCut'
    <3>1. CASE TestBusy(c)
      BY <3>1 DEF TestBusy
    <3>2. CASE TestClearToSend(c)
      BY <3>2 DEF TestClearToSend
    <3>3. CASE EnableCtsIoc(c)
      BY <3>3 DEF EnableCtsIoc
    <3>4. CASE CountItems(c)
      <4>1. /\ pc' = [pc EXCEPT ![c] = "testMsgWaiting"]
            /\ txWaiting' = [txWaiting EXCEPT ![c] = numSending > 0]
            /\ UNCHANGED numSending
        BY <3>4 DEF CountItems
      <4>2. pc'[c] = "testMsgWaiting" /\ (~txWaiting'[c] => numSending = 0)
        <5>1. pc'[c] = "testMsgWaiting"
          BY <4>1
        <5>2. txWaiting'[c] = (numSending > 0)
          BY <4>1, Zenon
        <5>3. ~(numSending > 0) => numSending = 0
          OBVIOUS
        <5> QED
          BY <5>1, <5>2, <5>3, Zenon
      <4>3. \A d \in Contexts \ {c} : pc'[d] = pc[d] /\ txWaiting'[d] = txWaiting[d]
        BY <4>1
      <4>4. ChainNotCut'
        BY <4>2
      <4>5. EmptySeen'
        BY <4>1, <4>2, <4>3
      <4> QED
        BY <4>4, <4>5
    <3>5. CASE TestMsgWaiting(c)
      BY <3>5 DEF TestMsgWaiting
    <3>6. CASE FillTxPacket(c)
      BY <3>6 DEF FillTxPacket
    <3>7. CASE ActivateSlaveSelect(c)
      BY <3>7 DEF ActivateSlaveSelect
    <3>8. CASE Transfer(c)
      BY <3>8 DEF Transfer
    <3> QED
      BY <2>5, <3>1, <3>2, <3>3, <3>4, <3>5, <3>6, <3>7, <3>8 DEF StartTxChain
  <2> QED
    BY <1>1, <2>1, <2>2, <2>3, <2>4, <2>5 DEF MainStep, TakeInterrupt
<1>2. CASE WireEnds
  BY <1>2, ChainOutside DEF WireEnds, Armed
<1>3. CASE RaiseMsgWaiting
  BY <1>3, ChainOutside DEF RaiseMsgWaiting, Armed
<1>4. CASE CountPacket \/ StorePosition \/ AddToTransactionQueue \/ Collect \/ PostTransSteps
  BY <1>4, ChainOutside DEF CountPacket, StorePosition, AddToTransactionQueue, Collect,
     PostTransSteps, LoadPosition, CountOff, LowerMsgWaiting, PostTrans, spiVars, Armed
<1>5. CASE PostSetup
  BY <1>5, ChainOutside DEF PostSetup, Armed
<1>6. CASE UNCHANGED vars
  BY <1>6, ChainOutside DEF vars, spiVars, Armed
<1> QED
  BY <1>1, <1>2, <1>3, <1>4, <1>5, <1>6 DEF Next, PostTransSteps

-----------------------------------------------------------------------------
THEOREM Invariance == Spec => []Inv
<1>1. Inv /\ [Next]_vars => Inv'
  BY TypesStep, PositionStep, ChainStep DEF Inv
<1> QED
  BY InitInv, <1>1, PTL DEF Spec

\* Every variable keeps to its type: no queue of either side overfills.
THEOREM SpiTypeCorrect == Spec => []TypeOK
BY Invariance, PTL DEF Inv

\* Packets never wait behind a chain of transmissions that nothing takes up again,
\* however calls, interrupts and edges of the pins interleave.
THEOREM ChainIsNotCut == Spec => []ChainNotCut
BY Invariance, PTL DEF Inv

\* The main is told of every message that the sub holds, unless the last sendPacketSpi
\* raced with the end of a transaction.
THEOREM MessageWaitingIsHonest == Spec => []MessageWaitingHonest
<1>1. Inv => MessageWaitingHonest
  <2> SUFFICES ASSUME Inv, HoldsMessage, sendPc = "idle", ~raced
               PROVE  msgWaiting
    BY DEF MessageWaitingHonest
  <2> USE DEF Inv, TypeOK, PhaseInv, PositionInv, Past
  <2>1. CASE numWaiting > 0
    BY <2>1
  <2>2. CASE \E i \in 1 .. Len(trans) :
               trans[i] = "real" /\ (i > 1 \/ subPhase \in {"idle", "ready"})
    BY <2>2
  <2> QED
    BY <2>1, <2>2 DEF HoldsMessage
<1> QED
  BY Invariance, <1>1, PTL
=============================================================================
