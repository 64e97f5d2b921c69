---------------------------- MODULE HandlerBase ----------------------------
(***************************************************************************)
(* internal/jsonrpc.go, internal/progress_handler.go: what a               *)
(* MessageHandler and the ProgressMessageHandler that embeds one have in   *)
(* common, which are the context, the counter of the ids, the capacity of  *)
(* the channels and the way a timer is stopped.                            *)
(***************************************************************************)
EXTENDS Naturals

CONSTANTS
    MaxRequests,   \* bound on the number of requests that are sent
    BufferSize,    \* capacity of the handler's channels
    MaxIncoming    \* bound on the number of messages the peer sends

ASSUME BoundsAssumption ==
    /\ MaxRequests \in Nat
    /\ BufferSize \in Nat \ {0}
    /\ MaxIncoming \in Nat

Ids == 1 .. MaxRequests

VARIABLES
    ctxDone,       \* MessageHandler.ctx has been cancelled
    requestID,     \* RequestID.counter
    arrivals       \* messages the peer has sent so far

\* time.Timer.Stop: prevents a callback that has not started, nothing else.
Stopped(t) == IF t = "armed" THEN "stopped" ELSE t

=============================================================================
