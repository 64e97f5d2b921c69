------------------------- MODULE HandlerTransports --------------------------
(***************************************************************************)
(* The message handler with what surrounds it, which differs from one      *)
(* transport to the next; "transport" says which one a behaviour is about: *)
(*   "any"        the transport of MessageHandler: it takes and delivers   *)
(*                whatever it likes, and Close is the handler's own;       *)
(*   "silent"     the same, but nothing arrives and one-way messages are   *)
(*                sent too;                                                *)
(*   "inprocess"  InProcessTransport;                                      *)
(*   "sse"        SSETransport.                                            *)
(***************************************************************************)
EXTENDS InProcess, SSEClient

CONSTANT ClientCalls   \* bound on the requests that are not made by a handler

VARIABLE transport

inProcessAll == <<vars, closeVars, inProcessVars>>
sseAll == <<vars, closeVars, sseVars>>
allVars == <<vars, closeVars, inProcessVars, sseVars, transport>>

TransportsInit ==
    /\ Init
    /\ transport \in {"any", "silent", "inprocess", "sse"}
    /\ wg = CASE transport = "inprocess" -> 4
              [] transport = "sse" -> 2
              [] OTHER -> 0
    /\ closer = "none"
    /\ InProcessInit
    /\ SSEInit
    /\ transport # "sse" => \A k \in UserKinds : userChan[k] = 0

OnAny ==
    /\ transport \in {"any", "silent"}
    /\ Next
    /\ transport = "any" => UNCHANGED oneWay
    /\ transport = "silent" => UNCHANGED arrivals
    /\ UNCHANGED <<closeVars, inProcessVars, sseVars>>

OnInProcess == transport = "inprocess" /\ InProcessNext /\ UNCHANGED sseVars

OnSSE == transport = "sse" /\ SSENext /\ UNCHANGED inProcessVars

TransportsNext ==
    /\ OnAny \/ OnInProcess \/ OnSSE
    /\ requestID' # requestID => requestID < ClientCalls \/ bridge'.at = "nested"
    /\ UNCHANGED transport

(***************************************************************************)
(* A goroutine whose select has a ready case goes on.  Handlers of the     *)
(* in-process server return, which its Close cannot do without; a POST of  *)
(* the SSE transport ends (http.Client.Timeout).  Nothing is assumed of    *)
(* the SSE server nor of whoever reads the transport's channels.           *)
(***************************************************************************)
TransportsFairness ==
    /\ Fairness
    /\ WF_inProcessAll(transport = "inprocess" /\ Bridge)
    /\ WF_inProcessAll(transport = "inprocess" /\ RelayExits)
    /\ WF_inProcessAll(transport = "inprocess" /\ InProcessClose)
    /\ \A i \in Ids : WF_vars(transport = "inprocess" /\ SendEnds(i))
    /\ WF_sseAll(transport = "sse" /\ Reader)
    /\ WF_sseAll(transport = "sse" /\ Poster)
    /\ WF_sseAll(transport = "sse" /\ SSEClose)

TransportsSpec == TransportsInit /\ [][TransportsNext]_allVars /\ TransportsFairness

(***************************************************************************)
(* Properties                                                              *)
(***************************************************************************)

\* The states of the transports around the handler; when Close has returned
\* nothing of the transport runs (no handler of the in-process server, neither
\* goroutine of the SSE client); a handler that calls back over its own
\* in-process transport is never answered.
TransportsInv ==
    /\ TypeOK
    /\ HandlerTransportTypeOK
    /\ InProcessTypeOK
    /\ SSETypeOK
    /\ transport = "inprocess" => NoHandlerAfterClose
    /\ transport = "sse" => NoGoroutineAfterClose
    /\ NestedCallUnanswered

\* Close of either transport returns (or the process has died): whatever is in
\* the channels and whoever does not read them, and even when a handler of the
\* in-process server waits for a call that only Close itself would release.
TransportCloseReturns ==
    closer = "cancelled" \/ closer = "waiting" ~> closer = "returned" \/ ~Running

=============================================================================
