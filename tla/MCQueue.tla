------------------------------- MODULE MCQueue -------------------------------
(* A queue of two packets between the periodic task, a transport interrupt *)
(* that preempts it and the main loop that it preempts.                    *)
EXTENDS Queue, TLC

CONSTANTS mainLoop, periodicA, transportISR

\* MAX_SENDER_PRIORITY, FMT_TRANSPORT_PRIORITY and PERIODIC_A_PRIORITY of the
\* example application; thread mode ranks below every interrupt.
MCPrio == mainLoop :> 64 @@ periodicA :> 30 @@ transportISR :> 25
=============================================================================
