----------------------------- MODULE BrokerLink -----------------------------
(***************************************************************************)
(* The browser's session with the broker: web-ui/src/BrokerAddress.tsx,    *)
(* with setupMq, teardownMq and selectDevice of mqclient.tsx.  The handles *)
(* of the two timers and connectStatus are variables of one render; the    *)
(* callbacks of a client keep those of the render that made it, and the    *)
(* button those of the last render.  Such a set of variables is a closure  *)
(* here, and has a number once a client was made in it.                    *)
(*                                                                         *)
(* Of mqtt.js it is assumed that end() refuses what is asked later, and    *)
(* that it waits for answers outstanding: until its stream closes, a       *)
(* client that was ended still calls the callbacks it was given.           *)
(***************************************************************************)
EXTENDS Naturals

CONSTANT MaxSubmits  \* bound: how often connectToBroker is called

ASSUME SubmitsAssumption == MaxSubmits \in Nat \ {0}

Clients == 1 .. MaxSubmits
Closures == 1 .. MaxSubmits

VARIABLES
  connectStatus,  \* as shown
  closureOf,      \* of each client made, the closure of its callbacks
  rendered,       \* there is a new render since the last client was made
  shown,          \* of each closure, whether its connectStatus is "connected"
  connectTimers,  \* closures whose connectTimeout is pending
  staleTimers,    \* closures whose staleTimeout is pending
  client,         \* the last client made; 0 before the first
  live,           \* clients that were not ended
  open,           \* clients whose stream did not close after end()
  asked,          \* <<c, d>>: the "connect" of c asked d for hello-from-edge; no answer yet
  greeted,        \* clients that were asked for hello-from-edge
  listening,      \* clients that a device was selected on
  devices         \* there is a device to select

timerVars == <<connectTimers, staleTimers>>
clientVars == <<closureOf, client, live, open, asked, greeted, listening>>
vars == <<connectStatus, rendered, shown, devices, timerVars, clientVars>>

\* The closure of the last client; its number is at most that of the client.
Closure == IF client = 0 THEN 0 ELSE closureOf[client]

Init ==
  /\ connectStatus = "disconnected"
  /\ rendered = TRUE
  /\ closureOf = [c \in Clients |-> 0]
  /\ shown = [k \in Closures |-> FALSE]
  /\ connectTimers = {} /\ staleTimers = {}
  /\ client = 0 /\ live = {} /\ open = {}
  /\ asked = {} /\ greeted = {} /\ listening = {}
  /\ devices = FALSE

\* React renders again when the status changes.
SetConnectStatus(status) ==
  /\ connectStatus' = status
  /\ rendered' = (rendered \/ status # connectStatus)

-----------------------------------------------------------------------------
\* A slip: the client before is left as it is.
SetupMqAgain ==
  /\ client' = client + 1
  /\ live' = live \cup {client'}
  /\ open' = open \cup {client'}

\* setupMq: the client before is ended, and a new one connects.
SetupMq ==
  /\ client' = client + 1
  /\ live' = {client'}
  /\ open' = open \cup {client'}

\* A slip: the new timer is cleared, and not the one before it.
StartAndClear(k) == connectTimers' = connectTimers \ {k}

StartConnectTimeout(k) == connectTimers' = connectTimers \cup {k}

\* connectToBroker, when the page is loaded and at each submit.
ConnectToBroker ==
  LET k == IF rendered THEN Closure + 1 ELSE Closure IN
  /\ client < MaxSubmits
  /\ shown' = IF rendered THEN [shown EXCEPT ![k] = connectStatus = "connected"] ELSE shown
  /\ staleTimers' = staleTimers \ {k}
  /\ StartConnectTimeout(k)
  /\ connectStatus' = "connecting"
  /\ rendered' = (connectStatus # "connecting")
  /\ SetupMq
  /\ closureOf' = [closureOf EXCEPT ![client'] = k]
  /\ UNCHANGED <<devices, asked, greeted, listening>>

\* The handler of "connect", at the first connection and at each later one.  It asks
\* `client`, which may be a later one than that which connected.
OnConnect(c) ==
  /\ c \in open /\ client \in live
  /\ asked' = asked \cup {<<c, client>>}
  /\ greeted' = greeted \cup {client}
  /\ UNCHANGED <<connectStatus, rendered, shown, devices, timerVars>>
  /\ UNCHANGED <<closureOf, client, live, open, listening>>

\* onSubscribe of client c, when the answer of client d comes.
OnSubscribe(c, d) ==
  /\ <<c, d>> \in asked
  /\ asked' = asked \ {<<c, d>>}
  /\ SetConnectStatus("stale")
  /\ connectTimers' = connectTimers \ {closureOf[c]}
  /\ UNCHANGED <<shown, devices, staleTimers, closureOf, client, live, open>>
  /\ UNCHANGED <<greeted, listening>>

\* onHelloMessage: the list of devices is a new object each time.
OnHelloMessage(c) ==
  /\ c \in open \cap greeted
  /\ devices' = TRUE /\ rendered' = TRUE
  /\ UNCHANGED <<connectStatus, shown, timerVars, clientVars>>

\* onSelectDevice, of the list of devices, which outlives the client that filled it.
\* The last client, when it was ended, refuses to subscribe.
OnSelectDevice ==
  /\ devices
  /\ listening' = listening \cup ({client} \cap live)
  /\ rendered' = TRUE
  /\ UNCHANGED <<connectStatus, shown, devices, timerVars>>
  /\ UNCHANGED <<closureOf, client, live, open, asked, greeted>>

\* The address is edited: a render that changes nothing else.
SetAddress ==
  /\ rendered' = TRUE
  /\ UNCHANGED <<connectStatus, shown, devices, timerVars, clientVars>>

\* A slip: the timer is only set when the status changes.
MessageUntimed(c) ==
  /\ c \in open \cap listening
  /\ staleTimers' = IF connectStatus = "connected" THEN staleTimers \ {closureOf[c]}
                                                   ELSE staleTimers \cup {closureOf[c]}
  /\ IF shown[closureOf[c]] THEN UNCHANGED <<connectStatus, rendered>>
                            ELSE SetConnectStatus("connected")
  /\ UNCHANGED <<shown, devices, connectTimers, clientVars>>

\* A slip: the timer is that of the last render.
MessageInLastRender(c) ==
  /\ c \in open \cap listening
  /\ staleTimers' = staleTimers \cup {IF rendered THEN Closure + 1 ELSE Closure}
  /\ IF shown[closureOf[c]] THEN UNCHANGED <<connectStatus, rendered>>
                            ELSE SetConnectStatus("connected")
  /\ UNCHANGED <<shown, devices, connectTimers, clientVars>>

\* onMessage of client c, with the connectStatus and the timer of its closure.  It may
\* come before onSubscribe, when the device was selected before the client connected.
OnMessage(c) ==
  /\ c \in open \cap listening
  /\ staleTimers' = staleTimers \cup {closureOf[c]}
  /\ IF shown[closureOf[c]] THEN UNCHANGED <<connectStatus, rendered>>
                            ELSE SetConnectStatus("connected")
  /\ UNCHANGED <<shown, devices, connectTimers, clientVars>>

\* The stream of a client that was ended closes; what it was asked is not answered.
StreamCloses(c) ==
  /\ c \in open \ live
  /\ open' = open \ {c}
  /\ asked' = {pair \in asked : pair[2] # c}
  /\ UNCHANGED <<connectStatus, rendered, shown, devices, timerVars>>
  /\ UNCHANGED <<closureOf, client, live, greeted, listening>>

-----------------------------------------------------------------------------
\* The timer of onMessage.
StaleTimeout(k) ==
  /\ k \in staleTimers
  /\ staleTimers' = staleTimers \ {k}
  /\ SetConnectStatus("stale")
  /\ UNCHANGED <<shown, devices, connectTimers, clientVars>>

\* onConnectFail; teardownMq ends the last client, whichever it is.
OnConnectFail(k) ==
  /\ k \in connectTimers
  /\ connectTimers' = connectTimers \ {k}
  /\ staleTimers' = staleTimers \ {k}
  /\ SetConnectStatus("disconnected")
  /\ live' = live \ {client}
  /\ UNCHANGED <<shown, devices, closureOf, client, open, asked, greeted, listening>>

Next ==
  \/ ConnectToBroker
  \/ \E c \in Clients : OnConnect(c) \/ \E d \in Clients : OnSubscribe(c, d)
  \/ \E c \in Clients : OnHelloMessage(c) \/ OnMessage(c) \/ StreamCloses(c)
  \/ OnSelectDevice
  \/ SetAddress
  \/ \E k \in Closures : StaleTimeout(k) \/ OnConnectFail(k)

\* A timer that is set fires.  Nobody is obliged to connect, nor the broker to answer.
Fairness ==
  \A k \in Closures : WF_vars(StaleTimeout(k)) /\ WF_vars(OnConnectFail(k))

Spec == Init /\ [][Next]_vars /\ Fairness

-----------------------------------------------------------------------------
TypeOK ==
  /\ connectStatus \in {"connected", "stale", "connecting", "disconnected"}
  /\ client \in 0 .. MaxSubmits
  /\ closureOf \in [Clients -> 0 .. MaxSubmits]
  /\ rendered \in BOOLEAN /\ devices \in BOOLEAN
  /\ shown \in [Closures -> BOOLEAN]
  /\ connectTimers \cup staleTimers \subseteq 1 .. Closure
  /\ live \subseteq open
  /\ open \cup greeted \cup listening \subseteq 1 .. client
  /\ asked \subseteq (1 .. client) \X open

\* A page has one session at most, the last it made, and none when it shows "Not
\* Connected": whichever timer of whichever render comes last, and whatever a client
\* that was ended is still answered.
OneSession ==
  /\ live \subseteq {client}
  /\ connectStatus = "disconnected" => live = {}

\* "Active Data" never stays without data: a timer is pending that will take it back,
\* even when the data is of a client that was ended.
ActiveDataIsWatched == connectStatus = "connected" => staleTimers # {}

\* An attempt is decided in the end, by an answer or by a timer of any render.
EveryAttemptIsDecided == (connectStatus = "connecting") ~> (connectStatus # "connecting")
=============================================================================
