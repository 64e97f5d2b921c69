----------------------------- MODULE InProcess ------------------------------
(***************************************************************************)
(* transport/inprocess.go: client and server in one process.  The bytes    *)
(* the message handler sends are parsed by bridgeOutgoing, which runs the  *)
(* tool, resource or prompt handler of a request itself, one request at a  *)
(* time, and puts the response on the handler's incoming channel.          *)
(*                                                                         *)
(* A handler runs with context.Background() and may send a request over    *)
(* the same transport and wait for it.  The three other goroutines have    *)
(* nothing to carry (no request or notification ever comes back) and only  *)
(* wait for ctx.Done.                                                      *)
(***************************************************************************)
EXTENDS HandlerTransport

VARIABLES
    registered,   \* AddTool, AddResource or AddPrompt has been called
    bridge        \* bridgeOutgoing, with the request it handles

inProcessVars == <<registered, bridge>>

Bridges == [at : {"idle", "handler", "nested", "respond", "exited"},
            id : 0 .. MaxRequests, nested : 0 .. MaxRequests]

BridgeAt(where) == [at |-> where, id |-> 0, nested |-> 0]

\* The handler maps are written under mu.
AddHandler ==
    /\ Running
    /\ ~registered
    /\ registered' = TRUE
    /\ UNCHANGED <<vars, closeVars, bridge>>

\* handleRequest looks the handler up under mu.RLock and runs it without the
\* lock; lists and errors are answered at once.
HandleRequest(i) ==
    {[BridgeAt(next) EXCEPT !.id = i] :
        next \in {"respond"} \cup (IF registered THEN {"handler"} ELSE {})}

\* Notifications are ignored.
BridgeTakes ==
    /\ bridge.at = "idle"
    /\ TransportTakesOutgoing
    /\ LET m == Head(outgoing) IN
           bridge' \in IF m.kind = "request" THEN HandleRequest(m.id) ELSE {bridge}
    /\ UNCHANGED <<closeVars, registered>>

\* The handler calls SendRequest of its own transport and waits.
HandlerCalls ==
    /\ bridge.at = "handler"
    /\ SendRequest
    /\ bridge' = [bridge EXCEPT !.at = "nested", !.nested = requestID']
    /\ UNCHANGED <<closeVars, registered>>

NestedReturns ==
    /\ Running
    /\ bridge.at = "nested"
    /\ call[bridge.nested] \in {"answered", "noResponse", "failed"}
    /\ bridge' = [bridge EXCEPT !.at = "handler", !.nested = 0]
    /\ UNCHANGED <<vars, closeVars, registered>>

HandlerReturns ==
    /\ Running
    /\ bridge.at = "handler"
    /\ bridge' = [bridge EXCEPT !.at = "respond"]
    /\ UNCHANGED <<vars, closeVars, registered>>

\* A result that json.Marshal rejects is sent as no bytes: the error is ignored.
BridgeResponds ==
    /\ bridge.at = "respond"
    /\ \E m \in {Answer(bridge.id), [kind |-> "malformed", id |-> NoId]} :
           TransportDelivers(m)
    /\ bridge' = BridgeAt("idle")
    /\ UNCHANGED <<closeVars, registered>>

\* ctx.Done in the outer select, or in the select of the response.
BridgeSeesDone ==
    /\ Running
    /\ ctxDone
    /\ bridge.at \in {"idle", "respond"}
    /\ bridge' = BridgeAt("exited")
    /\ wg' = wg - 1
    /\ UNCHANGED <<vars, closer, registered>>

\* bridgeRequests, bridgeNotifications and processServerRequests.
RelayExits ==
    /\ Running
    /\ ctxDone
    /\ wg > (IF bridge.at = "exited" THEN 0 ELSE 1)
    /\ wg' = wg - 1
    /\ UNCHANGED <<vars, closer, inProcessVars>>

(***************************************************************************)
(* Close: cancel, wait for the goroutines, then close the message handler. *)
(***************************************************************************)
InProcessCloseCancels ==
    /\ closer = "none"
    /\ Cancel
    /\ closer' = "waiting"
    /\ UNCHANGED <<wg, inProcessVars>>

\* Mutated form: the message handler is closed without waiting for the wg.
InProcessCloseHurries ==
    /\ closer = "waiting"
    /\ CloseCancels
    /\ closer' = "draining"
    /\ UNCHANGED <<wg, inProcessVars>>

InProcessCloseWaits ==
    /\ closer = "waiting"
    /\ wg = 0
    /\ CloseCancels
    /\ closer' = "draining"
    /\ UNCHANGED <<wg, inProcessVars>>

InProcessCloseReturns ==
    /\ Running
    /\ Drained
    /\ closer' = "returned"
    /\ UNCHANGED <<vars, wg, inProcessVars>>

InProcessInit ==
    /\ registered = FALSE
    /\ bridge = BridgeAt("idle")

Bridge == \/ BridgeTakes
          \/ NestedReturns
          \/ HandlerReturns
          \/ BridgeResponds
          \/ BridgeSeesDone

InProcessClose == InProcessCloseWaits \/ InProcessCloseReturns

InProcessNext ==
    \/ HandlerStep /\ UNCHANGED <<closeVars, inProcessVars>>
    \/ AddHandler
    \/ HandlerCalls
    \/ Bridge
    \/ RelayExits
    \/ InProcessCloseCancels
    \/ InProcessClose

(***************************************************************************)
(* Properties                                                              *)
(***************************************************************************)
InProcessTypeOK == registered \in BOOLEAN /\ bridge \in Bridges

\* A handler that calls back over its own transport is never answered: the
\* goroutine that would answer is the one that waits.  Only its timer, its own
\* context or a failed send lets it go on.
NestedCallUnanswered ==
    bridge.at = "nested" =>
        /\ call[bridge.nested] # "answered"
        /\ buf[bridge.nested] = NoId

\* When Close has returned no handler runs and none will be started.
NoHandlerAfterClose == closer \in {"draining", "returned"} => bridge.at = "exited"

=============================================================================
