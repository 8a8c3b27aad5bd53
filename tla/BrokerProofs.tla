---------------------------- MODULE BrokerProofs ----------------------------
(***************************************************************************)
(* A page has one session at most, and neither "Active Data" nor an        *)
(* attempt stays without a timer, for any number of submits and any order  *)
(* of timers, renders and callbacks, those of ended clients included:      *)
(* proofs about BrokerLink.                                                *)
(***************************************************************************)
EXTENDS BrokerLink, TLAPS

\* Every client made has a closure; closures are numbered in the order of clients.
\* Before the first client there is only the first render.
ClosuresInv ==
  /\ client = 0 => rendered
  /\ \A c \in 1 .. client : closureOf[c] \in 1 .. Closure
  /\ Closure \in 0 .. client

\* While an attempt is shown as under way, a timer is pending that will give it up.
AttemptIsTimed == connectStatus = "connecting" => connectTimers # {}

BrokerInv ==
  /\ TypeOK
  /\ ClosuresInv
  /\ OneSession
  /\ ActiveDataIsWatched
  /\ AttemptIsTimed

\* What the page shows, and the sessions and timers behind it.
Shown == OneSession /\ ActiveDataIsWatched /\ AttemptIsTimed

USE SubmitsAssumption

-----------------------------------------------------------------------------
LEMMA InitBroker == Init => BrokerInv
<1> SUFFICES ASSUME Init PROVE BrokerInv
  OBVIOUS
<1>1. client = 0 /\ Closure = 0 /\ 0 \in 0 .. MaxSubmits
  BY DEF Init, Closure
<1>2. /\ shown \in [Closures -> BOOLEAN]
      /\ closureOf \in [Clients -> 0 .. MaxSubmits]
  BY <1>1 DEF Init
<1>3. TypeOK
  BY <1>1, <1>2 DEF Init, TypeOK
<1>4. ClosuresInv
  BY <1>1 DEF Init, ClosuresInv
<1> QED
  BY <1>3, <1>4 DEF BrokerInv, Init, OneSession, ActiveDataIsWatched, AttemptIsTimed

-----------------------------------------------------------------------------
\* The closure of a new client is that of the last one, or the next number.
NewClosure == IF rendered THEN Closure + 1 ELSE Closure

LEMMA NewClosureOk ==
  ASSUME BrokerInv, ConnectToBroker
  PROVE  /\ client \in Nat /\ client < MaxSubmits /\ client' = client + 1
         /\ NewClosure \in 1 .. client' /\ Closure \in 0 .. NewClosure
         /\ closureOf' = [closureOf EXCEPT ![client + 1] = NewClosure]
         /\ connectTimers' = connectTimers \cup {NewClosure}
         /\ staleTimers' = staleTimers \ {NewClosure}
<1>1. client \in Nat /\ client < MaxSubmits /\ client' = client + 1
  BY DEF BrokerInv, TypeOK, ConnectToBroker, SetupMq
<1>2. Closure \in 0 .. client
  BY DEF BrokerInv, ClosuresInv
<1>3. CASE rendered
  BY <1>1, <1>2, <1>3 DEF ConnectToBroker, NewClosure, StartConnectTimeout
<1>4. CASE ~rendered
  <2>1. client # 0
    BY <1>4 DEF BrokerInv, ClosuresInv
  <2>2. Closure \in 1 .. client
    <3>1. client \in 1 .. client
      BY <1>1, <2>1
    <3>2. closureOf[client] \in 1 .. Closure
      BY <3>1 DEF BrokerInv, ClosuresInv
    <3> QED
      BY <1>1, <1>2, <2>1, <3>2
  <2> QED
    BY <1>1, <1>4, <2>2 DEF ConnectToBroker, NewClosure, StartConnectTimeout
<1> QED
  BY <1>3, <1>4

\* A new client: it is the only one live, and its attempt is timed.
LEMMA ConnectOk == ASSUME BrokerInv, ConnectToBroker PROVE BrokerInv'
<1>1. /\ client \in Nat /\ client < MaxSubmits /\ client' = client + 1
      /\ NewClosure \in 1 .. client' /\ Closure \in 0 .. NewClosure
      /\ closureOf' = [closureOf EXCEPT ![client + 1] = NewClosure]
      /\ connectTimers' = connectTimers \cup {NewClosure}
      /\ staleTimers' = staleTimers \ {NewClosure}
  BY NewClosureOk
<1>2. /\ live' = {client'} /\ open' = open \cup {client'}
      /\ connectStatus' = "connecting"
      /\ UNCHANGED <<devices, asked, greeted, listening>>
  BY DEF ConnectToBroker, SetupMq
<1>3. /\ closureOf' \in [Clients -> 0 .. MaxSubmits]
      /\ closureOf'[client'] = NewClosure
      /\ \A c \in 1 .. client : closureOf'[c] = closureOf[c]
  BY <1>1 DEF BrokerInv, TypeOK, Clients
<1>4. Closure' = NewClosure
  BY <1>1, <1>3 DEF Closure
<1>5. TypeOK'
  <2>1. shown' \in [Closures -> BOOLEAN] /\ rendered' \in BOOLEAN /\ devices' \in BOOLEAN
    BY DEF BrokerInv, ConnectToBroker, SetupMq, TypeOK
  <2>2. connectTimers' \cup staleTimers' \subseteq 1 .. NewClosure
    <3>1. connectTimers \cup staleTimers \subseteq 1 .. Closure
      BY DEF BrokerInv, TypeOK
    <3> QED
      BY <1>1, <3>1
  <2>3. /\ live' \subseteq open'
        /\ open' \cup greeted' \cup listening' \subseteq 1 .. client'
        /\ asked' \subseteq (1 .. client') \X open'
    BY <1>1, <1>2 DEF BrokerInv, TypeOK
  <2> QED
    BY <1>1, <1>2, <1>3, <1>4, <2>1, <2>2, <2>3 DEF TypeOK
<1>6. ClosuresInv'
  <2>1. ASSUME NEW c \in 1 .. client' PROVE closureOf'[c] \in 1 .. NewClosure
    <3>1. CASE c = client'
      BY <1>1, <1>3, <3>1
    <3>2. CASE c \in 1 .. client
      <4>1. closureOf[c] \in 1 .. Closure
        BY <3>2 DEF BrokerInv, ClosuresInv
      <4> QED
        BY <1>1, <1>3, <3>2, <4>1
    <3> QED
      BY <1>1, <3>1, <3>2
  <2> QED
    BY <1>1, <1>4, <2>1 DEF ClosuresInv
<1>7. Shown'
  BY <1>1, <1>2 DEF Shown, OneSession, ActiveDataIsWatched, AttemptIsTimed
<1> QED
  BY <1>5, <1>6, <1>7 DEF BrokerInv, Shown

\* The clients and their closures as they were: all but who asks, is open and live.
SameClosures ==
  /\ UNCHANGED <<closureOf, client, shown>>
  /\ rendered => rendered'

LEMMA ClosuresKept ==
  ASSUME BrokerInv, SameClosures PROVE ClosuresInv' /\ Closure' = Closure
<1>1. Closure' = Closure
  BY DEF SameClosures, Closure
<1>2. client' = 0 => rendered'
  <2>1. client = 0 => rendered
    BY DEF BrokerInv, ClosuresInv
  <2>2. client' = client
    BY DEF SameClosures
  <2>3. rendered => rendered'
    BY Zenon DEF SameClosures
  <2> QED
    BY <2>1, <2>2, <2>3
<1>3. /\ \A c \in 1 .. client' : closureOf'[c] \in 1 .. Closure'
      /\ Closure' \in 0 .. client'
  BY <1>1 DEF BrokerInv, ClosuresInv, SameClosures
<1> QED
  BY <1>1, <1>2, <1>3 DEF ClosuresInv

LEMMA OnConnectOk == ASSUME BrokerInv, NEW c \in Clients, OnConnect(c) PROVE BrokerInv'
<1>1. ClosuresInv' /\ Closure' = Closure
  BY ClosuresKept DEF OnConnect, SameClosures
<1>2. c \in 1 .. client /\ client \in open /\ client \in 1 .. client
  BY DEF BrokerInv, TypeOK, OnConnect
<1>3. TypeOK'
  BY <1>1, <1>2 DEF BrokerInv, TypeOK, OnConnect, timerVars
<1>4. Shown'
  BY DEF BrokerInv, Shown, OneSession, ActiveDataIsWatched, AttemptIsTimed, OnConnect, timerVars
<1> QED
  BY <1>1, <1>3, <1>4 DEF BrokerInv, Shown

\* An answer, of a client that may have been ended, shows "Connected, No data".
LEMMA OnSubscribeOk ==
  ASSUME BrokerInv, NEW c \in Clients, NEW d \in Clients, OnSubscribe(c, d) PROVE BrokerInv'
<1>r. rendered' \in BOOLEAN /\ (rendered => rendered')
  BY DEF BrokerInv, TypeOK, OnSubscribe, SetConnectStatus
<1>1. ClosuresInv' /\ Closure' = Closure
  BY <1>r, ClosuresKept DEF OnSubscribe, SameClosures
<1>2. TypeOK'
  BY <1>r, <1>1 DEF BrokerInv, TypeOK, OnSubscribe, SetConnectStatus
<1>3. Shown'
  BY DEF BrokerInv, Shown, OneSession, ActiveDataIsWatched, AttemptIsTimed, OnSubscribe,
         SetConnectStatus
<1> QED
  BY <1>1, <1>2, <1>3 DEF BrokerInv, Shown

\* A render that leaves the session as it is.
LEMMA RenderOk ==
  ASSUME BrokerInv, (\E c \in Clients : OnHelloMessage(c)) \/ OnSelectDevice \/ SetAddress
  PROVE  BrokerInv'
<1>1. ClosuresInv' /\ Closure' = Closure
  BY ClosuresKept DEF OnHelloMessage, OnSelectDevice, SetAddress, SameClosures, clientVars
<1>2. TypeOK'
  BY <1>1 DEF BrokerInv, TypeOK, OnHelloMessage, OnSelectDevice, SetAddress, timerVars,
              clientVars
<1>3. Shown'
  BY DEF BrokerInv, Shown, OneSession, ActiveDataIsWatched, AttemptIsTimed, OnHelloMessage,
         OnSelectDevice, SetAddress, timerVars, clientVars
<1> QED
  BY <1>1, <1>2, <1>3 DEF BrokerInv, Shown

\* Data, of a client that may have been ended, starts the timer of its closure.
LEMMA OnMessageOk == ASSUME BrokerInv, NEW c \in Clients, OnMessage(c) PROVE BrokerInv'
<1>r. /\ rendered' \in BOOLEAN /\ (rendered => rendered')
      /\ connectStatus' \in {connectStatus, "connected"}
  BY DEF BrokerInv, TypeOK, OnMessage, SetConnectStatus
<1>1. ClosuresInv' /\ Closure' = Closure
  BY <1>r, ClosuresKept DEF OnMessage, SameClosures, clientVars
<1>2. closureOf[c] \in 1 .. Closure
  BY DEF BrokerInv, TypeOK, ClosuresInv, OnMessage
<1>3. TypeOK'
  BY <1>r, <1>1, <1>2 DEF BrokerInv, TypeOK, OnMessage, clientVars
<1>4. Shown'
  BY <1>r DEF BrokerInv, Shown, OneSession, ActiveDataIsWatched, AttemptIsTimed, OnMessage,
              clientVars
<1> QED
  BY <1>1, <1>3, <1>4 DEF BrokerInv, Shown

LEMMA StreamClosesOk == ASSUME BrokerInv, NEW c \in Clients, StreamCloses(c) PROVE BrokerInv'
<1>1. ClosuresInv' /\ Closure' = Closure
  BY ClosuresKept DEF StreamCloses, SameClosures
<1>2. asked' \subseteq (1 .. client') \X open'
  <2>1. ASSUME NEW pair \in asked' PROVE pair \in (1 .. client) \X (open \ {c})
    <3>1. pair \in (1 .. client) \X open /\ pair[2] # c
      BY DEF BrokerInv, TypeOK, StreamCloses
    <3> QED
      BY <3>1
  <2> QED
    BY <2>1 DEF StreamCloses
<1>3. TypeOK'
  BY <1>1, <1>2 DEF BrokerInv, TypeOK, StreamCloses, timerVars
<1>4. Shown'
  BY DEF BrokerInv, Shown, OneSession, ActiveDataIsWatched, AttemptIsTimed, StreamCloses,
         timerVars
<1> QED
  BY <1>1, <1>3, <1>4 DEF BrokerInv, Shown

-----------------------------------------------------------------------------
\* The timers of any render.
LEMMA StaleTimeoutOk ==
  ASSUME BrokerInv, NEW k \in Closures, StaleTimeout(k) PROVE BrokerInv'
<1>r. rendered' \in BOOLEAN /\ (rendered => rendered')
  BY DEF BrokerInv, TypeOK, StaleTimeout, SetConnectStatus
<1>1. ClosuresInv' /\ Closure' = Closure
  BY <1>r, ClosuresKept DEF StaleTimeout, SameClosures, clientVars
<1>2. TypeOK'
  BY <1>r, <1>1 DEF BrokerInv, TypeOK, StaleTimeout, SetConnectStatus, clientVars
<1>3. Shown'
  BY DEF BrokerInv, Shown, OneSession, ActiveDataIsWatched, AttemptIsTimed, StaleTimeout,
         SetConnectStatus, clientVars
<1> QED
  BY <1>1, <1>2, <1>3 DEF BrokerInv, Shown

\* onConnectFail of any render ends the last client, and shows that.
LEMMA OnConnectFailOk ==
  ASSUME BrokerInv, NEW k \in Closures, OnConnectFail(k) PROVE BrokerInv'
<1>r. rendered' \in BOOLEAN /\ (rendered => rendered')
  BY DEF BrokerInv, TypeOK, OnConnectFail, SetConnectStatus
<1>1. ClosuresInv' /\ Closure' = Closure
  BY <1>r, ClosuresKept DEF OnConnectFail, SameClosures
<1>2. TypeOK'
  BY <1>r, <1>1 DEF BrokerInv, TypeOK, OnConnectFail, SetConnectStatus
<1>3. Shown'
  BY DEF BrokerInv, Shown, OneSession, ActiveDataIsWatched, AttemptIsTimed, OnConnectFail,
         SetConnectStatus
<1> QED
  BY <1>1, <1>2, <1>3 DEF BrokerInv, Shown

\* The inductive invariant that the theorems below rest on.
THEOREM BrokerInvariant == Spec => []BrokerInv
<1>1. BrokerInv /\ [Next]_vars => BrokerInv'
  <2> SUFFICES ASSUME BrokerInv, [Next]_vars PROVE BrokerInv'
    OBVIOUS
  <2>1. CASE ConnectToBroker
    BY <2>1, ConnectOk
  <2>2. CASE \E c \in Clients : OnConnect(c) \/ \E d \in Clients : OnSubscribe(c, d)
    BY <2>2, OnConnectOk, OnSubscribeOk
  <2>3. CASE (\E c \in Clients : OnHelloMessage(c)) \/ OnSelectDevice \/ SetAddress
    BY <2>3, RenderOk
  <2>4. CASE \E c \in Clients : OnMessage(c) \/ StreamCloses(c)
    BY <2>4, OnMessageOk, StreamClosesOk
  <2>5. CASE \E k \in Closures : StaleTimeout(k) \/ OnConnectFail(k)
    BY <2>5, StaleTimeoutOk, OnConnectFailOk
  <2>6. CASE UNCHANGED vars
    BY <2>6
    DEF vars, timerVars, clientVars, BrokerInv, TypeOK, ClosuresInv, Closure, OneSession,
        ActiveDataIsWatched, AttemptIsTimed
  <2> QED
    BY <2>1, <2>2, <2>3, <2>4, <2>5, <2>6 DEF Next
<1> QED
  BY InitBroker, <1>1, PTL DEF Spec
-----------------------------------------------------------------------------
\* BrokerAddress.tsx: the timers and callbacks that are left are of a render and of
\* clients that were made, whatever is submitted while the page has not rendered again.
THEOREM BrokerTypeCorrect == Spec => []TypeOK
<1>1. BrokerInv => TypeOK
  BY DEF BrokerInv
<1> QED
  BY <1>1, BrokerInvariant, PTL

\* setupMq and teardownMq: one client is live at most, the last one made, and none while
\* "Not Connected" is shown.
THEOREM OneSessionAtMost == Spec => []OneSession
<1>1. BrokerInv => OneSession
  BY DEF BrokerInv
<1> QED
  BY <1>1, BrokerInvariant, PTL

\* onMessage: "Active Data" is taken back when data stops coming, of whichever client.
THEOREM ActiveDataHasTimer == Spec => []ActiveDataIsWatched
<1>1. BrokerInv => ActiveDataIsWatched
  BY DEF BrokerInv
<1> QED
  BY <1>1, BrokerInvariant, PTL

\* connectToBroker: an attempt never hangs without the timer that will give it up.  With
\* the fairness of that timer, this is why every attempt is decided.
THEOREM AttemptHasTimer == Spec => []AttemptIsTimed
<1>1. BrokerInv => AttemptIsTimed
  BY DEF BrokerInv
<1> QED
  BY <1>1, BrokerInvariant, PTL
=============================================================================
