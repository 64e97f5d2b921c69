-------------------------- MODULE HandlerTransport --------------------------
(***************************************************************************)
(* What the transports built around one MessageHandler have in common      *)
(* (transport/inprocess.go, transport/sse.go): the context from which the  *)
(* handler's own context is derived, the wait group of their goroutines,   *)
(* and a goroutine in Close.                                               *)
(***************************************************************************)
EXTENDS MessageHandler

VARIABLES
    wg,       \* the goroutines the wait group still counts
    closer    \* where the goroutine in Close has come

closeVars == <<wg, closer>>

CloserStates == {"none", "cancelled", "waiting", "draining", "returned"}

\* The select of a send: the outgoing channel has room, or ctx is done.
SendEnds(i) == EnqueueRequest(i) \/ (ctxDone /\ FailRequest(i))

\* The steps of the handler and of its callers that are the same whatever
\* carries the messages.  What no transport has a part in is left to
\* MessageHandler: one-way messages, which travel like requests that nobody
\* waits for, params that cannot be marshalled, callers with a context of
\* their own.
HandlerStep ==
    \/ SendRequest
    \/ \E i \in Ids : StorePending(i) \/ SendEnds(i) \/ Receive(i) \/ Timer(i)
    \/ Router
    \/ Correlator
    \/ CloseAllPending

\* A response to request i as it comes back from JSON: its id is a float64.
Answer(i) == [kind |-> "response", id |-> [type |-> "float64", halves |-> 2 * i]]

\* The cancel function of the transport; the context is the handler's parent.
Cancel ==
    /\ Running
    /\ ctxDone' = TRUE
    /\ UNCHANGED <<callVars, timer, pending, chanVars, oneWay, flowVars,
                   router, corr, closing, arrivals, panicked>>

\* messageHandler.Close has been through the map of pending requests.
Drained == closer = "draining" /\ ~closing

HandlerTransportTypeOK == wg \in 0 .. 4 /\ closer \in CloserStates

=============================================================================
