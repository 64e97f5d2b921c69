--------------------------- MODULE MessageHandler ---------------------------
(***************************************************************************)
(* internal/jsonrpc.go: the concurrent JSON-RPC message handler shared by  *)
(* every transport.  It numbers outgoing requests, keeps the map of those  *)
(* that wait for a response, routes incoming messages by kind and          *)
(* correlates each response with its request.                              *)
(*                                                                         *)
(* Actors, each a goroutine of the program:                                *)
(*   - a caller per request id, in SendRequest and then waiting on the     *)
(*     returned channel (client/client.go);                                *)
(*   - a caller per one-way send, in SendNotification or SendResponse;     *)
(*   - the timer callback of each request (time.AfterFunc);                *)
(*   - processIncomingMessages (router) and handleResponses (corr);        *)
(*   - any number of callers of Close;                                     *)
(*   - the transport, which moves bytes between the wire and the handler's *)
(*     channels, and the owner of the parent context.                      *)
(*                                                                         *)
(* A critical section of requestsMu is one step, the code between two      *)
(* critical sections is split wherever another goroutine can get between.  *)
(* A Go panic ends the process: it is recorded in "panicked" and disables  *)
(* every action.                                                           *)
(***************************************************************************)
EXTENDS HandlerBase, Sequences

CONSTANTS
    Senders,       \* goroutines that send notifications and responses
    Peer           \* the messages the peer may send

(***************************************************************************)
(* A message is abstracted to its kind and, for a response, its id as it   *)
(* is on the wire.  encoding/json turns a number into a float64; it is     *)
(* represented by the number of halves in it, so that the ids which        *)
(* int64(...) truncates exist in the model.                                *)
(***************************************************************************)
Kinds == {"request", "notification", "response", "empty", "malformed"}

WireIds == [type : {"float64", "string"}, halves : Nat]

Messages == [kind : Kinds, id : WireIds]

NoId == [type |-> "string", halves |-> 0]

NoMsg == [kind |-> "empty", id |-> NoId]

\* What the handler hands to the transport: id 0 is that of a one-way message.
OutgoingMessages == [kind : {"request", "notification", "response"}, id : Nat]

ASSUME PeerAssumption == Peer \subseteq Messages

VARIABLES
    call,             \* call[i]: how far the caller of request i has come
    timer,            \* timer[i]: PendingRequest.Timer and its callback
    pending,          \* the keys of pendingRequests
    buf,              \* buf[i]: the one-place buffer of the response channel
    closed,           \* closed[i]: the response channel has been closed
    oneWay,           \* oneWay[s]: the one-way send s is in the middle of
    outgoing, incoming, requestChan, notificationChan, responseChan,
    router,           \* processIncomingMessages: waiting, or with a message
    corr,             \* handleResponses and correlateResponse
    closing,          \* a Close call has cancelled and wants requestsMu
    panicked          \* the channel operation that ended the process

callVars == <<requestID, call>>
chanVars == <<buf, closed>>
flowVars == <<outgoing, incoming, requestChan, notificationChan, responseChan>>
vars == <<ctxDone, callVars, timer, pending, chanVars, oneWay, flowVars,
          router, corr, closing, arrivals, panicked>>

CallStates == {"none", "created", "stored", "waiting",
               "answered", "noResponse", "abandoned", "failed"}
TimerStates == {"none", "armed", "stopped", "fired", "removed", "expired"}
CorrStates == {"idle", "lookup", "stop", "send", "close", "exited"}

CorrValues == [at : CorrStates, id : Nat, resp : WireIds]
PanicValues == [op : {"none", "send on closed channel",
                      "close of closed channel"}, id : Nat]

NoPanic == [op |-> "none", id |-> 0]

Running == panicked = NoPanic

(***************************************************************************)
(* Go's channel operations on the response channel of a request.           *)
(***************************************************************************)

\* close(ch): closing a closed channel panics.
CloseResponse(i) ==
    IF closed[i]
    THEN /\ panicked' = [op |-> "close of closed channel", id |-> i]
         /\ closed' = closed
    ELSE /\ closed' = [closed EXCEPT ![i] = TRUE]
         /\ panicked' = panicked

(***************************************************************************)
(* SendRequest                                                             *)
(***************************************************************************)

\* The check of mh.ctx, RequestID.Next, the channel and the armed timer.
SendRequest ==
    /\ Running
    /\ ~ctxDone
    /\ requestID < MaxRequests
    /\ requestID' = requestID + 1
    /\ call' = [call EXCEPT ![requestID + 1] = "created"]
    /\ timer' = [timer EXCEPT ![requestID + 1] = "armed"]
    /\ UNCHANGED <<ctxDone, pending, chanVars, oneWay, flowVars, router, corr,
                   closing, arrivals, panicked>>

\* The critical section that stores the pending request.
StorePending(i) ==
    /\ Running
    /\ call[i] = "created"
    /\ call' = [call EXCEPT ![i] = "stored"]
    /\ pending' = pending \cup {i}
    /\ UNCHANGED <<ctxDone, requestID, timer, chanVars, oneWay, flowVars,
                   router, corr, closing, arrivals, panicked>>

\* removePendingRequest, one critical section.
RemovePendingRequest(i) ==
    /\ pending' = pending \ {i}
    /\ timer' = [timer EXCEPT ![i] = IF i \in pending THEN Stopped(@) ELSE @]

\* The request goes to the transport and the channel to the caller.
EnqueueRequest(i) ==
    /\ Running
    /\ call[i] = "stored"
    /\ Len(outgoing) < BufferSize
    /\ outgoing' = Append(outgoing, [kind |-> "request", id |-> i])
    /\ call' = [call EXCEPT ![i] = "waiting"]
    /\ UNCHANGED <<ctxDone, requestID, timer, pending, chanVars, oneWay,
                   incoming, requestChan, notificationChan, responseChan,
                   router, corr, closing, arrivals, panicked>>

\* SendRequest gives up: params that json.Marshal rejects (whatever the state
\* of ctx), or ctx is done while, or before, the outgoing channel is ready.
FailRequest(i) ==
    /\ Running
    /\ call[i] = "stored"
    /\ RemovePendingRequest(i)
    /\ call' = [call EXCEPT ![i] = "failed"]
    /\ UNCHANGED <<ctxDone, requestID, chanVars, oneWay, flowVars, router,
                   corr, closing, arrivals, panicked>>

(***************************************************************************)
(* The timer callback: three steps, of which only the second one holds the *)
(* lock.  It closes the channel whether or not the request was still       *)
(* pending.                                                                *)
(***************************************************************************)
TimerFires(i) ==
    /\ Running
    /\ timer[i] = "armed"
    /\ timer' = [timer EXCEPT ![i] = "fired"]
    /\ UNCHANGED <<ctxDone, callVars, pending, chanVars, oneWay, flowVars,
                   router, corr, closing, arrivals, panicked>>

\* Mutated form: a callback that does not find its request does nothing more.
TimerRemovesOrReturns(i) ==
    /\ Running
    /\ timer[i] = "fired"
    /\ pending' = pending \ {i}
    /\ timer' = [timer EXCEPT ![i] = IF i \in pending THEN "removed"
                                                      ELSE "expired"]
    /\ UNCHANGED <<ctxDone, callVars, chanVars, oneWay, flowVars, router,
                   corr, closing, arrivals, panicked>>

TimerRemoves(i) ==
    /\ Running
    /\ timer[i] = "fired"
    /\ pending' = pending \ {i}
    /\ timer' = [timer EXCEPT ![i] = "removed"]
    /\ UNCHANGED <<ctxDone, callVars, chanVars, oneWay, flowVars, router,
                   corr, closing, arrivals, panicked>>

TimerCloses(i) ==
    /\ Running
    /\ timer[i] = "removed"
    /\ CloseResponse(i)
    /\ timer' = [timer EXCEPT ![i] = "expired"]
    /\ UNCHANGED <<ctxDone, callVars, pending, buf, oneWay, flowVars, router,
                   corr, closing, arrivals>>

(***************************************************************************)
(* The caller, client/client.go: select on the channel and its own context *)
(***************************************************************************)
Receive(i) ==
    /\ Running
    /\ call[i] = "waiting"
    /\ \/ /\ buf[i] # NoId
          /\ call' = [call EXCEPT ![i] = "answered"]
          /\ buf' = [buf EXCEPT ![i] = NoId]
       \/ /\ buf[i] = NoId
          /\ closed[i]
          /\ call' = [call EXCEPT ![i] = "noResponse"]
          /\ buf' = buf
    /\ UNCHANGED <<ctxDone, requestID, timer, pending, closed, oneWay,
                   flowVars, router, corr, closing, arrivals, panicked>>

\* The context of the caller is done: the call returns, the request stays.
Abandon(i) ==
    /\ Running
    /\ call[i] = "waiting"
    /\ call' = [call EXCEPT ![i] = "abandoned"]
    /\ UNCHANGED <<ctxDone, requestID, timer, pending, chanVars, oneWay,
                   flowVars, router, corr, closing, arrivals, panicked>>

(***************************************************************************)
(* SendNotification and SendResponse: the check of mh.ctx, then a blocking *)
(* select.  ctx may be done by the time of the select and the send still   *)
(* be chosen.                                                              *)
(***************************************************************************)
BeginOneWay(s, kind) ==
    /\ Running
    /\ ~ctxDone
    /\ oneWay[s] = "idle"
    /\ oneWay' = [oneWay EXCEPT ![s] = kind]
    /\ UNCHANGED <<ctxDone, callVars, timer, pending, chanVars, flowVars,
                   router, corr, closing, arrivals, panicked>>

EnqueueOneWay(s) ==
    /\ Running
    /\ oneWay[s] # "idle"
    /\ Len(outgoing) < BufferSize
    /\ outgoing' = Append(outgoing, [kind |-> oneWay[s], id |-> 0])
    /\ oneWay' = [oneWay EXCEPT ![s] = "idle"]
    /\ UNCHANGED <<ctxDone, callVars, timer, pending, chanVars, incoming,
                   requestChan, notificationChan, responseChan, router, corr,
                   closing, arrivals, panicked>>

CancelOneWay(s) ==
    /\ Running
    /\ ctxDone
    /\ oneWay[s] # "idle"
    /\ oneWay' = [oneWay EXCEPT ![s] = "idle"]
    /\ UNCHANGED <<ctxDone, callVars, timer, pending, chanVars, flowVars,
                   router, corr, closing, arrivals, panicked>>

(***************************************************************************)
(* The transport around the handler (transport/stdio.go's bridges): bytes  *)
(* arrive from the peer, outgoing bytes and routed messages are taken.     *)
(***************************************************************************)
TransportDelivers(m) ==
    /\ Running
    /\ arrivals < MaxIncoming
    /\ Len(incoming) < BufferSize
    /\ incoming' = Append(incoming, m)
    /\ arrivals' = arrivals + 1
    /\ UNCHANGED <<ctxDone, callVars, timer, pending, chanVars, oneWay,
                   outgoing, requestChan, notificationChan, responseChan,
                   router, corr, closing, panicked>>

TransportTakesOutgoing ==
    /\ Running
    /\ outgoing # <<>>
    /\ outgoing' = Tail(outgoing)
    /\ UNCHANGED <<ctxDone, callVars, timer, pending, chanVars, oneWay,
                   incoming, requestChan, notificationChan, responseChan,
                   router, corr, closing, arrivals, panicked>>

TransportTakesRequest ==
    /\ Running
    /\ requestChan # <<>>
    /\ requestChan' = Tail(requestChan)
    /\ UNCHANGED <<ctxDone, callVars, timer, pending, chanVars, oneWay,
                   incoming, outgoing, notificationChan, responseChan,
                   router, corr, closing, arrivals, panicked>>

TransportTakesNotification ==
    /\ Running
    /\ notificationChan # <<>>
    /\ notificationChan' = Tail(notificationChan)
    /\ UNCHANGED <<ctxDone, callVars, timer, pending, chanVars, oneWay,
                   incoming, outgoing, requestChan, responseChan,
                   router, corr, closing, arrivals, panicked>>

(***************************************************************************)
(* processIncomingMessages and handleIncomingMessage                       *)
(***************************************************************************)
RouterTakes ==
    /\ Running
    /\ router.at = "idle"
    /\ incoming # <<>>
    /\ router' = [at |-> "route", msg |-> Head(incoming)]
    /\ incoming' = Tail(incoming)
    /\ UNCHANGED <<ctxDone, callVars, timer, pending, chanVars, oneWay,
                   outgoing, requestChan, notificationChan, responseChan,
                   corr, closing, arrivals, panicked>>

\* The message goes to the channel of its kind, once that has room.  A full
\* channel blocks the router, and with it the messages of the other kinds.
\* Malformed messages, and those with neither method nor id, are dropped.
RouterForwards ==
    /\ Running
    /\ router.at = "route"
    /\ \/ /\ router.msg.kind = "request"
          /\ Len(requestChan) < BufferSize
          /\ requestChan' = Append(requestChan, router.msg)
          /\ UNCHANGED <<notificationChan, responseChan>>
       \/ /\ router.msg.kind = "notification"
          /\ Len(notificationChan) < BufferSize
          /\ notificationChan' = Append(notificationChan, router.msg)
          /\ UNCHANGED <<requestChan, responseChan>>
       \/ /\ router.msg.kind = "response"
          /\ Len(responseChan) < BufferSize
          /\ responseChan' = Append(responseChan, router.msg)
          /\ UNCHANGED <<requestChan, notificationChan>>
       \/ /\ router.msg.kind \in {"empty", "malformed"}
          /\ UNCHANGED <<requestChan, notificationChan, responseChan>>
    /\ router' = [at |-> "idle", msg |-> NoMsg]
    /\ UNCHANGED <<ctxDone, callVars, timer, pending, chanVars, oneWay,
                   incoming, outgoing, corr, closing, arrivals, panicked>>

\* Mutated form: the inner select does not watch ctx.Done.
RouterSeesDoneOutside ==
    /\ Running
    /\ ctxDone
    /\ router.at = "idle"
    /\ router' = [at |-> "exited", msg |-> NoMsg]
    /\ UNCHANGED <<ctxDone, callVars, timer, pending, chanVars, oneWay,
                   flowVars, corr, closing, arrivals, panicked>>

\* ctx.Done in the inner select drops the message in hand, in the outer one
\* it ends the goroutine.
RouterSeesDone ==
    /\ Running
    /\ ctxDone
    /\ router.at # "exited"
    /\ router.at = "route" => router.msg.kind \in
                                  {"request", "notification", "response"}
    /\ router' = [at |-> IF router.at = "route" THEN "idle" ELSE "exited",
                  msg |-> NoMsg]
    /\ UNCHANGED <<ctxDone, callVars, timer, pending, chanVars, oneWay,
                   flowVars, corr, closing, arrivals, panicked>>

(***************************************************************************)
(* handleResponses and correlateResponse                                   *)
(***************************************************************************)
CorrIdle == [at |-> "idle", id |-> 0, resp |-> NoId]

CorrTakes ==
    /\ Running
    /\ corr.at = "idle"
    /\ responseChan # <<>>
    /\ corr' = [at |-> "lookup", id |-> 0, resp |-> Head(responseChan).id]
    /\ responseChan' = Tail(responseChan)
    /\ UNCHANGED <<ctxDone, callVars, timer, pending, chanVars, oneWay,
                   incoming, outgoing, requestChan, notificationChan,
                   router, closing, arrivals, panicked>>

\* The key an id of the wire is looked up under: a float64 truncated to an
\* int64.  A string is never a key, so it is mapped to 0, which no request has.
KeyOf(w) == IF w.type = "float64" THEN w.halves \div 2 ELSE 0

\* Mutated form: the request is found and left in the map.
CorrLooksUpOnly ==
    /\ Running
    /\ corr.at = "lookup"
    /\ LET key == KeyOf(corr.resp) IN
           corr' = IF key \in pending
                   THEN [corr EXCEPT !.at = "stop", !.id = key]
                   ELSE CorrIdle
    /\ UNCHANGED <<ctxDone, callVars, timer, pending, chanVars, oneWay,
                   flowVars, router, closing, arrivals, panicked>>

\* The critical section: the request is found and deleted from the map.
CorrLooksUp ==
    /\ Running
    /\ corr.at = "lookup"
    /\ LET key == KeyOf(corr.resp) IN
           IF key \in pending
           THEN /\ pending' = pending \ {key}
                /\ corr' = [corr EXCEPT !.at = "stop", !.id = key]
           ELSE /\ pending' = pending
                /\ corr' = CorrIdle
    /\ UNCHANGED <<ctxDone, callVars, timer, chanVars, oneWay, flowVars,
                   router, closing, arrivals, panicked>>

\* The lock is free again: Timer.Stop, whose result is not looked at.
CorrStopsTimer ==
    /\ Running
    /\ corr.at = "stop"
    /\ timer' = [timer EXCEPT ![corr.id] = Stopped(@)]
    /\ corr' = [corr EXCEPT !.at = "send"]
    /\ UNCHANGED <<ctxDone, callVars, pending, chanVars, oneWay, flowVars,
                   router, closing, arrivals, panicked>>

\* The send with a default case: skipped when the buffer is full, a panic
\* when the channel is closed.
CorrSends ==
    /\ Running
    /\ corr.at = "send"
    /\ IF closed[corr.id]
       THEN /\ panicked' = [op |-> "send on closed channel", id |-> corr.id]
            /\ UNCHANGED <<buf, corr>>
       ELSE /\ buf' = [buf EXCEPT ![corr.id] =
                           IF @ = NoId THEN corr.resp ELSE @]
            /\ corr' = [corr EXCEPT !.at = "close"]
            /\ panicked' = panicked
    /\ UNCHANGED <<ctxDone, callVars, timer, pending, closed, oneWay,
                   flowVars, router, closing, arrivals>>

CorrCloses ==
    /\ Running
    /\ corr.at = "close"
    /\ CloseResponse(corr.id)
    /\ corr' = CorrIdle
    /\ UNCHANGED <<ctxDone, callVars, timer, pending, buf, oneWay, flowVars,
                   router, closing, arrivals>>

CorrSeesDone ==
    /\ Running
    /\ ctxDone
    /\ corr.at = "idle"
    /\ corr' = [corr EXCEPT !.at = "exited"]
    /\ UNCHANGED <<ctxDone, callVars, timer, pending, chanVars, oneWay,
                   flowVars, router, closing, arrivals, panicked>>

(***************************************************************************)
(* Close, and the cancellation of the context NewMessageHandler was given. *)
(***************************************************************************)
CloseCancels ==
    /\ Running
    /\ ~closing
    /\ ctxDone' = TRUE
    /\ closing' = TRUE
    /\ UNCHANGED <<callVars, timer, pending, chanVars, oneWay, flowVars,
                   router, corr, arrivals, panicked>>

\* Mutated form: the timers are stopped, the channels left open.
CloseAllPendingOpen ==
    /\ Running
    /\ closing
    /\ timer' = [i \in Ids |-> IF i \in pending THEN Stopped(timer[i])
                                                ELSE timer[i]]
    /\ pending' = {}
    /\ closing' = FALSE
    /\ UNCHANGED <<ctxDone, callVars, chanVars, oneWay, flowVars, router, corr,
                   arrivals, panicked>>

\* The critical section: every pending request is stopped and closed.
CloseAllPending ==
    /\ Running
    /\ closing
    /\ IF \E i \in pending : closed[i]
       THEN /\ \E i \in pending :
                  /\ closed[i]
                  /\ panicked' = [op |-> "close of closed channel", id |-> i]
            /\ UNCHANGED <<timer, closed, pending>>
       ELSE /\ timer' = [i \in Ids |-> IF i \in pending THEN Stopped(timer[i])
                                                        ELSE timer[i]]
            /\ closed' = [i \in Ids |-> closed[i] \/ i \in pending]
            /\ pending' = {}
            /\ panicked' = panicked
    /\ closing' = FALSE
    /\ UNCHANGED <<ctxDone, callVars, buf, oneWay, flowVars, router, corr,
                   arrivals>>

ParentCancelled ==
    /\ Running
    /\ ~ctxDone
    /\ ctxDone' = TRUE
    /\ UNCHANGED <<callVars, timer, pending, chanVars, oneWay, flowVars,
                   router, corr, closing, arrivals, panicked>>

(***************************************************************************)
(* The specification                                                       *)
(***************************************************************************)
Init ==
    /\ ctxDone = FALSE
    /\ requestID = 0
    /\ call = [i \in Ids |-> "none"]
    /\ timer = [i \in Ids |-> "none"]
    /\ pending = {}
    /\ buf = [i \in Ids |-> NoId]
    /\ closed = [i \in Ids |-> FALSE]
    /\ oneWay = [s \in Senders |-> "idle"]
    /\ outgoing = <<>>
    /\ incoming = <<>>
    /\ requestChan = <<>>
    /\ notificationChan = <<>>
    /\ responseChan = <<>>
    /\ router = [at |-> "idle", msg |-> NoMsg]
    /\ corr = CorrIdle
    /\ closing = FALSE
    /\ arrivals = 0
    /\ panicked = NoPanic

Caller(i) == \/ StorePending(i)
             \/ EnqueueRequest(i)
             \/ FailRequest(i)
             \/ Receive(i)
             \/ Abandon(i)

Timer(i) == TimerFires(i) \/ TimerRemoves(i) \/ TimerCloses(i)

OneWay(s) == \/ \E kind \in {"notification", "response"} : BeginOneWay(s, kind)
             \/ EnqueueOneWay(s)
             \/ CancelOneWay(s)

Transport == \/ \E m \in Peer : TransportDelivers(m)
             \/ TransportTakesOutgoing
             \/ TransportTakesRequest
             \/ TransportTakesNotification

Router == RouterTakes \/ RouterForwards \/ RouterSeesDone

Correlator == \/ CorrTakes
              \/ CorrLooksUp
              \/ CorrStopsTimer
              \/ CorrSends
              \/ CorrCloses
              \/ CorrSeesDone

Shutdown == CloseCancels \/ CloseAllPending \/ ParentCancelled

Next == \/ SendRequest
        \/ \E i \in Ids : Caller(i) \/ Timer(i)
        \/ \E s \in Senders : OneWay(s)
        \/ Transport
        \/ Router
        \/ Correlator
        \/ Shutdown

Spec == Init /\ [][Next]_vars

(***************************************************************************)
(* Fairness.  The Go scheduler runs every goroutine that can run, and an   *)
(* armed timer fires once its duration has passed unless it is stopped.    *)
(* Nothing is assumed of the peer, of Close or of the callers' contexts.   *)
(***************************************************************************)
Fairness ==
    /\ \A i \in Ids : /\ WF_vars(StorePending(i))
                      /\ WF_vars(Receive(i))
                      /\ WF_vars(TimerFires(i))
                      /\ WF_vars(TimerRemoves(i))
                      /\ WF_vars(TimerCloses(i))
    /\ WF_vars(Router)
    /\ WF_vars(Correlator)
    /\ WF_vars(CloseAllPending)

FairSpec == Spec /\ Fairness

(***************************************************************************)
(* Properties                                                              *)
(***************************************************************************)

\* Type invariant: the states NewMessageHandler and the steps above can reach.
TypeOK ==
    /\ ctxDone \in BOOLEAN
    /\ requestID \in 0 .. MaxRequests
    /\ call \in [Ids -> CallStates]
    /\ timer \in [Ids -> TimerStates]
    /\ pending \subseteq Ids
    /\ buf \in [Ids -> WireIds]
    /\ closed \in [Ids -> BOOLEAN]
    /\ oneWay \in [Senders -> {"idle", "notification", "response"}]
    /\ outgoing \in Seq(OutgoingMessages)
    /\ incoming \in Seq(Messages)
    /\ requestChan \in Seq(Messages)
    /\ notificationChan \in Seq(Messages)
    /\ responseChan \in Seq(Messages)
    /\ router \in [at : {"idle", "route", "exited"}, msg : Messages]
    /\ corr \in CorrValues
    /\ corr.at \in {"stop", "send", "close"} => corr.id \in Ids
    /\ closing \in BOOLEAN
    /\ arrivals \in 0 .. MaxIncoming
    /\ panicked \in PanicValues

\* correlateResponse has taken request i from the map and not closed it yet.
Held(i) == corr.at \in {"stop", "send", "close"} /\ corr.id = i

\* It holds request i and has not sent its response yet.
Sending(i) == corr.at \in {"stop", "send"} /\ corr.id = i

\* The callback of the timer of request i has started.
TimerStarted(i) == timer[i] \in {"fired", "removed", "expired"}

\* The timer of request i will run, or is running, its callback.
TimerLive(i) == timer[i] \in {"armed", "fired", "removed"}

\* No caller is left on a channel nobody will close: as long as the channel of
\* a request is open, its timer is live or correlateResponse holds it.  This is
\* what Timer.Stop in correlateResponse, removePendingRequest and Close may
\* not break, in any interleaving, Close racing SendRequest included.
OpenChannelHasCloser ==
    \A i \in Ids :
        call[i] \in {"created", "stored", "waiting"} /\ ~closed[i]
            => TimerLive(i) \/ Held(i)

\* A channel operation can only panic on a request whose timer callback has
\* started: responses, duplicates of them, failed sends and Close never send
\* on or close a response channel twice among themselves.
PanicNeedsTimeout ==
    panicked # NoPanic => \E i \in Ids : panicked.id = i /\ TimerStarted(i)

\* A response reaches only the request whose id is its own (truncated to an
\* integer), and that request is then neither pending nor about to be answered
\* once more: at most one response per request, duplicates from the peer
\* included.
AnswerIsFinal ==
    \A i \in Ids :
        /\ buf[i] # NoId => KeyOf(buf[i]) = i
        /\ buf[i] # NoId \/ call[i] = "answered"
               => i \notin pending /\ ~Sending(i)

\* SendRequest that returned an error has left no entry in pendingRequests.
FailedCallIsForgotten ==
    \A i \in Ids : call[i] = "failed" => i \notin pending

\* When Close has been through the map, no call that was already waiting is
\* left to its timeout: its channel is closed, or a goroutine that is past the
\* lock is about to close it.
CloseReleasesWaiters ==
    [][CloseAllPending /\ panicked' = NoPanic
         => \A i \in Ids : call[i] = "waiting"
                => closed'[i] \/ Held(i) \/ TimerStarted(i)]_vars

\* What the comment in correlateResponse says: a channel that a timeout has
\* closed is skipped by the default case, never sent on.
TimedOutChannelSkipped == panicked.op # "send on closed channel"

\* Clean shutdown: timeouts, responses and Close close each channel once.
ChannelClosedOnce == panicked.op # "close of closed channel"

\* Every call that waits for a response returns (or the process has died),
\* whether or not the peer answers and the transport still runs.
EveryCallReturns ==
    \A i \in Ids : call[i] = "waiting" ~> call[i] # "waiting" \/ ~Running

\* Once the context is cancelled both goroutines of the handler end, even when
\* a full channel blocks them.
GoroutinesExit ==
    ctxDone ~> (router.at = "exited" /\ corr.at = "exited") \/ ~Running

=============================================================================
