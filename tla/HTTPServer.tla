----------------------------- MODULE HTTPServer -----------------------------
(***************************************************************************)
(* transport/streamable_http_server.go: JSON-RPC requests over HTTP.  Each *)
(* POST is served by a goroutine of net/http in handleRPC, which leaves an *)
(* entry in pendingHTTPRequests under the id the client chose, hands the   *)
(* request to the server and waits for the response, a timer or the end of *)
(* the transport.  A worker of the server answers with SendResponse.       *)
(*                                                                         *)
(* A call is one POST.  A response is known by the call it answers.  A     *)
(* panic in a worker ends the process; net/http recovers one in handleRPC  *)
(* and drops the connection.  HTTPServerEvents adds the event streams.     *)
(***************************************************************************)
EXTENDS Naturals, Sequences

CONSTANTS
    MaxCalls,       \* bound on the calls
    Id,             \* Id[c]: the JSON-RPC id in call c
    MessageBuffer   \* StreamableHTTPServerConfig.MessageBuffer

Calls == 1 .. MaxCalls

ASSUME ConstantsAssumption ==
    /\ MaxCalls \in Nat
    /\ DOMAIN Id = Calls
    /\ MessageBuffer \in Nat \ {0}

Ids == {Id[c] : c \in Calls}
NoCall == 0

VARIABLES
    call,       \* call[c]: where handleRPC is
    outcome,    \* outcome[c]: what the client of c has got
    timer,      \* timer[c]: the timer of c and its callback
    buf,        \* buf[c]: the response in the one-place channel of c
    closed,     \* closed[c]: the channel of c has been closed
    pending,    \* pending[i]: the call pendingHTTPRequests has under id i
    queue,      \* requestChan
    work,       \* work[c]: the worker that handles the request of c
    found,      \* found[c]: the call whose entry that worker has looked up
    ctxDone,    \* the transport's context is done
    closer,     \* Close (sync.Once)
    panicked    \* a worker sent on a closed channel

callVars == <<call, outcome>>
chanVars == <<buf, closed>>
workVars == <<work, found>>
vars == <<callVars, timer, chanVars, pending, queue, workVars, ctxDone,
          closer, panicked>>

Running == ~panicked

Unavailable == [kind |-> "unavailable", for |-> NoCall]
TimedOut == [kind |-> "timeout", for |-> NoCall]
Aborted == [kind |-> "aborted", for |-> NoCall]
Answer(d) == [kind |-> "answer", for |-> d]

Ends(c, result) ==
    /\ call' = [call EXCEPT ![c] = "ended"]
    /\ outcome' = [outcome EXCEPT ![c] = result]

\* removePendingHTTPRequest: whatever call is stored under the id loses its
\* entry and its timer.
RemovePending(i, t) ==
    LET c == pending[i] IN
    /\ pending' = [pending EXCEPT ![i] = NoCall]
    /\ timer' = IF c # NoCall /\ t[c] = "armed"
                THEN [t EXCEPT ![c] = "stopped"] ELSE t

(***************************************************************************)
(* handleRPC                                                               *)
(***************************************************************************)

\* A POST with a request has been read: the channel is made and the timer
\* armed.  This may be late: Shutdown closes the listener and waits only so
\* long for the calls it has accepted.
RpcArrives(c) ==
    /\ Running
    /\ call[c] = "none"
    /\ call' = [call EXCEPT ![c] = "store"]
    /\ timer' = [timer EXCEPT ![c] = "armed"]
    /\ UNCHANGED <<outcome, chanVars, pending, queue, workVars, ctxDone,
                   closer, panicked>>

\* The entry replaces one that another client left under the same id.
RpcStores(c) ==
    /\ Running
    /\ call[c] = "store"
    /\ call' = [call EXCEPT ![c] = "enqueue"]
    /\ pending' = [pending EXCEPT ![Id[c]] = c]
    /\ UNCHANGED <<outcome, timer, chanVars, queue, workVars, ctxDone, closer,
                   panicked>>

RpcEnqueues(c) ==
    /\ Running
    /\ call[c] = "enqueue"
    /\ closer # "closed"
    /\ Len(queue) < MessageBuffer
    /\ queue' = Append(queue, c)
    /\ call' = [call EXCEPT ![c] = "wait"]
    /\ UNCHANGED <<outcome, timer, chanVars, pending, workVars, ctxDone,
                   closer, panicked>>

\* select may choose the send on requestChan although Close has closed it.
RpcFindsQueueClosed(c) ==
    /\ Running
    /\ call[c] = "enqueue"
    /\ closer = "closed"
    /\ Ends(c, Aborted)
    /\ UNCHANGED <<timer, chanVars, pending, queue, workVars, ctxDone, closer,
                   panicked>>

\* The transport ends before there is room in requestChan.
RpcRefused(c) ==
    /\ Running
    /\ call[c] = "enqueue"
    /\ ctxDone
    /\ RemovePending(Id[c], timer)
    /\ Ends(c, Unavailable)
    /\ UNCHANGED <<chanVars, queue, workVars, ctxDone, closer, panicked>>

\* Something comes out of the response channel: a response, or its end.
RpcReceives(c) ==
    /\ Running
    /\ call[c] = "wait"
    /\ \/ /\ buf[c] # NoCall
          /\ Ends(c, Answer(buf[c]))
          /\ buf' = [buf EXCEPT ![c] = NoCall]
       \/ /\ buf[c] = NoCall
          /\ closed[c]
          /\ Ends(c, TimedOut)
          /\ UNCHANGED buf
    /\ UNCHANGED <<timer, closed, pending, queue, workVars, ctxDone, closer,
                   panicked>>

\* The transport ends first; entry and timer stay behind.
RpcInterrupted(c) ==
    /\ Running
    /\ call[c] = "wait"
    /\ ctxDone
    /\ Ends(c, Unavailable)
    /\ UNCHANGED <<timer, chanVars, pending, queue, workVars, ctxDone, closer,
                   panicked>>

(***************************************************************************)
(* The timer of a call                                                     *)
(***************************************************************************)
TimerFires(c) ==
    /\ Running
    /\ timer[c] = "armed"
    /\ timer' = [timer EXCEPT ![c] = "fired"]
    /\ UNCHANGED <<callVars, chanVars, pending, queue, workVars, ctxDone,
                   closer, panicked>>

TimerRemoves(c) ==
    /\ Running
    /\ timer[c] = "fired"
    /\ RemovePending(Id[c], [timer EXCEPT ![c] = "removed"])
    /\ UNCHANGED <<callVars, chanVars, queue, workVars, ctxDone, closer,
                   panicked>>

TimerCloses(c) ==
    /\ Running
    /\ timer[c] = "removed"
    /\ timer' = [timer EXCEPT ![c] = "expired"]
    /\ closed' = [closed EXCEPT ![c] = TRUE]
    /\ UNCHANGED <<callVars, buf, pending, queue, workVars, ctxDone, closer,
                   panicked>>

(***************************************************************************)
(* The server's side                                                       *)
(***************************************************************************)

\* server.processRequests takes the request and a worker handles it.
ServerTakes ==
    /\ Running
    /\ queue # <<>>
    /\ queue' = Tail(queue)
    /\ work' = [work EXCEPT ![Head(queue)] = "handling"]
    /\ UNCHANGED <<callVars, timer, chanVars, pending, found, ctxDone, closer,
                   panicked>>

\* SendResponse looks the id up; one that is not pending is left to the
\* MessageHandler, which knows no HTTP call.
SendResponseLooksUp(c) ==
    /\ Running
    /\ work[c] = "handling"
    /\ found' = [found EXCEPT ![c] = pending[Id[c]]]
    /\ work' = [work EXCEPT ![c] =
                   IF pending[Id[c]] = NoCall THEN "delegated" ELSE "send"]
    /\ UNCHANGED <<callVars, timer, chanVars, pending, queue, ctxDone, closer,
                   panicked>>

\* The select: the response goes into the channel; a full one is skipped, a
\* closed one makes the send panic.
SendResponseSends(c) ==
    LET d == found[c] IN
    /\ Running
    /\ work[c] = "send"
    /\ \/ /\ closed[d]
          /\ panicked' = TRUE
          /\ UNCHANGED <<work, buf>>
       \/ /\ ~closed[d] /\ buf[d] = NoCall
          /\ buf' = [buf EXCEPT ![d] = c]
          /\ work' = [work EXCEPT ![c] = "remove"]
          /\ UNCHANGED panicked
       \/ /\ ~closed[d] /\ buf[d] # NoCall
          /\ work' = [work EXCEPT ![c] = "done"]
          /\ UNCHANGED <<buf, panicked>>
    /\ UNCHANGED <<callVars, timer, closed, pending, queue, found, ctxDone,
                   closer>>

SendResponseRemoves(c) ==
    /\ Running
    /\ work[c] = "remove"
    /\ work' = [work EXCEPT ![c] = "done"]
    /\ RemovePending(Id[c], timer)
    /\ UNCHANGED <<callVars, chanVars, queue, found, ctxDone, closer, panicked>>

(***************************************************************************)
(* Close                                                                   *)
(***************************************************************************)
\* httpServer.Shutdown has waited for the calls, or for five seconds.  The event
\* streams are told; HTTPServerEvents says what that does to them.
CloseStreams ==
    /\ Running
    /\ closer = "open"
    /\ closer' = "streams"
    /\ UNCHANGED <<callVars, timer, chanVars, pending, queue, workVars,
                   ctxDone, panicked>>

CloseCancels ==
    /\ Running
    /\ closer = "streams"
    /\ closer' = "cancelled"
    /\ ctxDone' = TRUE
    /\ UNCHANGED <<callVars, timer, chanVars, pending, queue, workVars,
                   panicked>>

CloseChannels ==
    /\ Running
    /\ closer = "cancelled"
    /\ closer' = "closed"
    /\ UNCHANGED <<callVars, timer, chanVars, pending, queue, workVars,
                   ctxDone, panicked>>

\* The context the transport was created with is cancelled.
ParentCancelled ==
    /\ Running
    /\ ~ctxDone
    /\ ctxDone' = TRUE
    /\ UNCHANGED <<callVars, timer, chanVars, pending, queue, workVars,
                   closer, panicked>>

(***************************************************************************)
(* The specification                                                       *)
(***************************************************************************)
Init ==
    /\ call = [c \in Calls |-> "none"]
    /\ outcome = [c \in Calls |-> [kind |-> "none", for |-> NoCall]]
    /\ timer = [c \in Calls |-> "none"]
    /\ buf = [c \in Calls |-> NoCall]
    /\ closed = [c \in Calls |-> FALSE]
    /\ pending = [i \in Ids |-> NoCall]
    /\ queue = <<>>
    /\ work = [c \in Calls |-> "none"]
    /\ found = [c \in Calls |-> NoCall]
    /\ ctxDone = FALSE
    /\ closer = "open"
    /\ panicked = FALSE

HandleRPC(c) == \/ RpcStores(c)
                \/ RpcEnqueues(c)
                \/ RpcFindsQueueClosed(c)
                \/ RpcRefused(c)
                \/ RpcReceives(c)
                \/ RpcInterrupted(c)

Timer(c) == TimerFires(c) \/ TimerRemoves(c) \/ TimerCloses(c)

SendResponse(c) == \/ SendResponseLooksUp(c)
                   \/ SendResponseSends(c)
                   \/ SendResponseRemoves(c)

Next == \/ \E c \in Calls : \/ RpcArrives(c)
                            \/ HandleRPC(c)
                            \/ Timer(c)
                            \/ SendResponse(c)
        \/ ServerTakes
        \/ CloseStreams
        \/ CloseCancels
        \/ CloseChannels
        \/ ParentCancelled

Spec == Init /\ [][Next]_vars

\* Goroutines run and timers fire.  The server takes requests from its channel
\* but its handlers may take for ever, and nobody has to call Close.
Fairness == /\ \A c \in Calls : WF_vars(HandleRPC(c)) /\ WF_vars(Timer(c))
            /\ WF_vars(ServerTakes)
            /\ WF_vars(CloseCancels)
            /\ WF_vars(CloseChannels)

FairSpec == Spec /\ Fairness

(***************************************************************************)
(* Properties                                                              *)
(***************************************************************************)
Outcomes == [kind : {"none", "unavailable", "timeout", "aborted"}, for : {NoCall}]
            \cup [kind : {"answer"}, for : Calls]

\* Type invariant of the transport, its calls and the workers.
TypeOK ==
    /\ call \in [Calls -> {"none", "store", "enqueue", "wait", "ended"}]
    /\ outcome \in [Calls -> Outcomes]
    /\ timer \in [Calls -> {"none", "armed", "stopped", "fired", "removed",
                            "expired"}]
    /\ buf \in [Calls -> Calls \cup {NoCall}]
    /\ closed \in [Calls -> BOOLEAN]
    /\ pending \in [Ids -> Calls \cup {NoCall}]
    /\ queue \in Seq(Calls)
    /\ Len(queue) <= MessageBuffer
    /\ work \in [Calls -> {"none", "handling", "delegated", "enqueue",
                           "send", "remove", "done"}]
    /\ found \in [Calls -> Calls \cup {NoCall}]
    /\ ctxDone \in BOOLEAN
    /\ closer \in {"open", "streams", "cancelled", "closed"}
    /\ panicked \in BOOLEAN

\* The client of a call gets the response to that call, never another's.
OwnAnswer ==
    \A c \in Calls : outcome[c].kind = "answer" => outcome[c].for = c

\* A call that waits can still be ended by its timer, by the response in its
\* channel or by the end of the transport: its timer is only ever stopped when
\* there is a response for it.
WaitingHasEnd ==
    \A c \in Calls :
        call[c] \in {"store", "enqueue", "wait"} =>
            \/ timer[c] \in {"armed", "fired", "removed"}
            \/ closed[c]
            \/ buf[c] # NoCall

\* The type invariant and the invariant on waiting calls, as one invariant.
Inv == TypeOK /\ WaitingHasEnd

\* Every call ends, whatever the server does with its request, unless a panic
\* ends the process.
EveryCallEnds ==
    \A c \in Calls : call[c] = "store" ~> (call[c] = "ended" \/ panicked)

\* A response that comes too late is dropped; sending it does no harm.
LateResponseDropped == ~panicked

=============================================================================
