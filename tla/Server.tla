------------------------------- MODULE Server -------------------------------
(***************************************************************************)
(* server/server.go: how the MCP server carries requests from its          *)
(* transport to the handlers and the responses back.                       *)
(*                                                                         *)
(*   transport -> processRequests -> requestChan -> dispatchRequests       *)
(*             -> handleRequest (a worker per request) -> transport        *)
(*                                                                         *)
(* processRequests (reader), dispatchRequests (disp) and                   *)
(* processNotifications (notifier) are in the wait group that Close waits  *)
(* for; the workers are not.  The transport is represented by its request  *)
(* and notification channels, its outgoing channel and its context, as     *)
(* MessageHandler.SendResponse uses them.                                  *)
(***************************************************************************)
EXTENDS Naturals, Sequences, FiniteSets

CONSTANTS
    MaxRequests,            \* bound on the number of requests that arrive
    MaxConcurrentRequests,  \* ServerConfig.MaxConcurrentRequests
    ChannelSize,            \* capacity of the transport's channels
    Unencodable             \* requests whose result json.Marshal rejects

ASSUME ConstantsAssumption ==
    /\ MaxRequests \in Nat
    /\ MaxConcurrentRequests \in Nat \ {0}
    /\ ChannelSize \in Nat \ {0}
    /\ Unencodable \subseteq 1 .. MaxRequests

\* Requests, numbered in the order in which the transport hands them over.
Requests == 1 .. MaxRequests

VARIABLES
    arrived,        \* the number of requests that have arrived
    inbox,          \* the transport's request channel
    notifications,  \* the length of the transport's notification channel
    reader,         \* processRequests and the request in its hands
    queue,          \* Server.requestChan
    disp,           \* dispatchRequests and the work in its hands
    tokens,         \* the length of Server.workerPool
    worker,         \* worker[r]: the goroutine handleRequest for r
    notifier,       \* processNotifications
    outbox,         \* the transport's outgoing channel
    delivered,      \* responses written to the peer, in order
    parentDone,     \* the context both were created from is cancelled
    ctxDone,        \* Server.ctx is done
    transportDone,  \* the transport's context is done
    closer          \* Close (sync.Once: it runs once)

ctxVars == <<parentDone, ctxDone, transportDone>>
vars == <<arrived, inbox, notifications, reader, queue, disp, tokens, worker,
          notifier, outbox, delivered, ctxVars, closer>>

Idle == [at |-> "idle", req |-> 0]
Exited == [at |-> "exited", req |-> 0]

Response(r, kind) == [id |-> r, kind |-> kind]

\* transport.SendResponse up to its return: the response is queued, or the
\* transport's context is done and it is not.  The server ignores the error.
SendResponse(r, kind) ==
    \/ /\ Len(outbox) < ChannelSize
       /\ outbox' = Append(outbox, Response(r, kind))
    \/ /\ transportDone
       /\ outbox' = outbox

(***************************************************************************)
(* The transport                                                           *)
(***************************************************************************)
RequestArrives ==
    /\ arrived < MaxRequests
    /\ ~transportDone
    /\ Len(inbox) < ChannelSize
    /\ arrived' = arrived + 1
    /\ inbox' = Append(inbox, arrived + 1)
    /\ UNCHANGED <<notifications, reader, queue, disp, tokens, worker,
                   notifier, outbox, delivered, ctxVars, closer>>

NotificationArrives ==
    /\ ~transportDone
    /\ notifications < ChannelSize
    /\ notifications' = notifications + 1
    /\ UNCHANGED <<arrived, inbox, reader, queue, disp, tokens, worker,
                   notifier, outbox, delivered, ctxVars, closer>>

\* The transport writes a response; it needs the peer to read.
TransportWrites ==
    /\ ~transportDone
    /\ outbox # <<>>
    /\ outbox' = Tail(outbox)
    /\ delivered' = Append(delivered, Head(outbox))
    /\ UNCHANGED <<arrived, inbox, notifications, reader, queue, disp, tokens,
                   worker, notifier, ctxVars, closer>>

(***************************************************************************)
(* processRequests                                                         *)
(***************************************************************************)
ReaderTakes ==
    /\ reader.at = "idle"
    /\ inbox # <<>>
    /\ reader' = [at |-> "enqueue", req |-> Head(inbox)]
    /\ inbox' = Tail(inbox)
    /\ UNCHANGED <<arrived, notifications, queue, disp, tokens, worker,
                   notifier, outbox, delivered, ctxVars, closer>>

ReaderEnqueues ==
    /\ reader.at = "enqueue"
    /\ Len(queue) < MaxConcurrentRequests
    /\ queue' = Append(queue, reader.req)
    /\ reader' = Idle
    /\ UNCHANGED <<arrived, inbox, notifications, disp, tokens, worker,
                   notifier, outbox, delivered, ctxVars, closer>>

\* The default case: the queue is full and the server is not shutting down.
ReaderRefuses ==
    /\ reader.at = "enqueue"
    /\ Len(queue) = MaxConcurrentRequests
    /\ ~ctxDone
    /\ reader' = [reader EXCEPT !.at = "refuse"]
    /\ UNCHANGED <<arrived, inbox, notifications, queue, disp, tokens, worker,
                   notifier, outbox, delivered, ctxVars, closer>>

\* Mutated form: the refused request is tried again.
ReaderRefusesAndRetries ==
    /\ reader.at = "refuse"
    /\ SendResponse(reader.req, "overloaded")
    /\ reader' = [reader EXCEPT !.at = "enqueue"]
    /\ UNCHANGED <<arrived, inbox, notifications, queue, disp, tokens, worker,
                   notifier, delivered, ctxVars, closer>>

\* "Server overloaded" is sent by the reader itself, which may block on it.
ReaderSendsOverloaded ==
    /\ reader.at = "refuse"
    /\ SendResponse(reader.req, "overloaded")
    /\ reader' = Idle
    /\ UNCHANGED <<arrived, inbox, notifications, queue, disp, tokens, worker,
                   notifier, delivered, ctxVars, closer>>

\* s.ctx is done, in the outer select or with a request in hand.
ReaderExits ==
    /\ ctxDone
    /\ reader.at \in {"idle", "enqueue"}
    /\ reader' = Exited
    /\ UNCHANGED <<arrived, inbox, notifications, queue, disp, tokens, worker,
                   notifier, outbox, delivered, ctxVars, closer>>

(***************************************************************************)
(* processNotifications: handleNotification does nothing with any of them. *)
(***************************************************************************)
NotifierTakes ==
    /\ notifier = "idle"
    /\ notifications > 0
    /\ notifications' = notifications - 1
    /\ UNCHANGED <<arrived, inbox, reader, queue, disp, tokens, worker,
                   notifier, outbox, delivered, ctxVars, closer>>

NotifierExits ==
    /\ ctxDone
    /\ notifier = "idle"
    /\ notifier' = "exited"
    /\ UNCHANGED <<arrived, inbox, notifications, reader, queue, disp, tokens,
                   worker, outbox, delivered, ctxVars, closer>>

(***************************************************************************)
(* dispatchRequests                                                        *)
(***************************************************************************)
\* Mutated form: the queue is used as a stack.
DispTakesLast ==
    /\ disp.at = "idle"
    /\ queue # <<>>
    /\ disp' = [at |-> "acquire", req |-> queue[Len(queue)]]
    /\ queue' = SubSeq(queue, 1, Len(queue) - 1)
    /\ UNCHANGED <<arrived, inbox, notifications, reader, tokens, worker,
                   notifier, outbox, delivered, ctxVars, closer>>

DispTakes ==
    /\ disp.at = "idle"
    /\ queue # <<>>
    /\ disp' = [at |-> "acquire", req |-> Head(queue)]
    /\ queue' = Tail(queue)
    /\ UNCHANGED <<arrived, inbox, notifications, reader, tokens, worker,
                   notifier, outbox, delivered, ctxVars, closer>>

\* A token of the worker pool is taken and the worker started.
DispStarts ==
    /\ disp.at = "acquire"
    /\ tokens > 0
    /\ tokens' = tokens - 1
    /\ worker' = [worker EXCEPT ![disp.req] = "handling"]
    /\ disp' = Idle
    /\ UNCHANGED <<arrived, inbox, notifications, reader, queue, notifier,
                   outbox, delivered, ctxVars, closer>>

DispExits ==
    /\ ctxDone
    /\ disp.at \in {"idle", "acquire"}
    /\ disp' = Exited
    /\ UNCHANGED <<arrived, inbox, notifications, reader, queue, tokens,
                   worker, notifier, outbox, delivered, ctxVars, closer>>

(***************************************************************************)
(* handleRequest                                                           *)
(***************************************************************************)

\* The switch on the method and the handler it calls, whatever the result.
HandlerReturns(r) ==
    /\ worker[r] = "handling"
    /\ worker' = [worker EXCEPT ![r] = "responding"]
    /\ UNCHANGED <<arrived, inbox, notifications, reader, queue, disp, tokens,
                   notifier, outbox, delivered, ctxVars, closer>>

\* A result that cannot be encoded makes SendResponse fail without a trace.
WorkerResponds(r) ==
    /\ worker[r] = "responding"
    /\ IF r \in Unencodable THEN outbox' = outbox
                            ELSE SendResponse(r, "result")
    /\ worker' = [worker EXCEPT ![r] = "releasing"]
    /\ UNCHANGED <<arrived, inbox, notifications, reader, queue, disp, tokens,
                   notifier, delivered, ctxVars, closer>>

\* Mutated form: the worker ends without giving its token back.
WorkerKeepsToken(r) ==
    /\ worker[r] = "releasing"
    /\ worker' = [worker EXCEPT ![r] = "done"]
    /\ UNCHANGED <<arrived, inbox, notifications, reader, queue, disp, tokens,
                   notifier, outbox, delivered, ctxVars, closer>>

\* The deferred send to workerPool, a channel of MaxConcurrentRequests places.
WorkerReleases(r) ==
    /\ worker[r] = "releasing"
    /\ tokens < MaxConcurrentRequests
    /\ tokens' = tokens + 1
    /\ worker' = [worker EXCEPT ![r] = "done"]
    /\ UNCHANGED <<arrived, inbox, notifications, reader, queue, disp,
                   notifier, outbox, delivered, ctxVars, closer>>

(***************************************************************************)
(* Close and the contexts                                                  *)
(***************************************************************************)
\* Mutated form: Close waits before it cancels.
CloseWaitsFirst ==
    /\ closer = "open"
    /\ closer' = "waiting"
    /\ UNCHANGED <<arrived, inbox, notifications, reader, queue, disp, tokens,
                   worker, notifier, outbox, delivered, ctxVars>>

CloseCancels ==
    /\ closer = "open"
    /\ ctxDone' = TRUE
    /\ closer' = "waiting"
    /\ UNCHANGED <<arrived, inbox, notifications, reader, queue, disp, tokens,
                   worker, notifier, outbox, delivered, parentDone,
                   transportDone>>

\* s.wg.Wait(), then transport.Close().
CloseTransport ==
    /\ closer = "waiting"
    /\ reader = Exited
    /\ disp = Exited
    /\ notifier = "exited"
    /\ transportDone' = TRUE
    /\ closer' = "closed"
    /\ UNCHANGED <<arrived, inbox, notifications, reader, queue, disp, tokens,
                   worker, notifier, outbox, delivered, parentDone, ctxDone>>

\* The caller's context is cancelled, and with it, one after the other, the
\* contexts the server and the transport derived from it.
ParentCancelled ==
    /\ ~parentDone
    /\ parentDone' = TRUE
    /\ UNCHANGED <<arrived, inbox, notifications, reader, queue, disp, tokens,
                   worker, notifier, outbox, delivered, ctxDone,
                   transportDone, closer>>

CancellationSpreads ==
    /\ parentDone
    /\ \/ ctxDone' = TRUE /\ UNCHANGED transportDone
       \/ transportDone' = TRUE /\ UNCHANGED ctxDone
    /\ UNCHANGED <<arrived, inbox, notifications, reader, queue, disp, tokens,
                   worker, notifier, outbox, delivered, parentDone, closer>>

(***************************************************************************)
(* The specification                                                       *)
(***************************************************************************)
\* NewServer followed by Start.
Init ==
    /\ arrived = 0
    /\ inbox = <<>>
    /\ notifications = 0
    /\ reader = Idle
    /\ queue = <<>>
    /\ disp = Idle
    /\ tokens = MaxConcurrentRequests
    /\ worker = [r \in Requests |-> "none"]
    /\ notifier = "idle"
    /\ outbox = <<>>
    /\ delivered = <<>>
    /\ parentDone = FALSE
    /\ ctxDone = FALSE
    /\ transportDone = FALSE
    /\ closer = "open"

Reader == \/ ReaderTakes
          \/ ReaderEnqueues
          \/ ReaderRefuses
          \/ ReaderSendsOverloaded
          \/ ReaderExits

Dispatcher == DispTakes \/ DispStarts \/ DispExits

Notifier == NotifierTakes \/ NotifierExits

Worker(r) == HandlerReturns(r) \/ WorkerResponds(r) \/ WorkerReleases(r)

Environment == \/ RequestArrives
               \/ NotificationArrives
               \/ TransportWrites
               \/ ParentCancelled
               \/ CancellationSpreads

Next == \/ Environment
        \/ Reader
        \/ Notifier
        \/ Dispatcher
        \/ \E r \in Requests : Worker(r)
        \/ CloseCancels
        \/ CloseTransport

Spec == Init /\ [][Next]_vars

\* The goroutines of the server run when they can and the handlers return.
\* select picks among its ready cases at random, so a case that stays ready,
\* like the notifier's ctx.Done, is picked eventually.
ServerFairness ==
    /\ WF_vars(Reader)
    /\ WF_vars(Dispatcher)
    /\ WF_vars(NotifierExits)
    /\ WF_vars(CloseTransport)
    /\ WF_vars(CancellationSpreads)
    /\ \A r \in Requests : WF_vars(Worker(r))

\* And the peer keeps reading what the transport writes.
FairSpec == Spec /\ ServerFairness /\ WF_vars(TransportWrites)

\* The peer may stop reading at any time.
StalledPeerSpec == Spec /\ ServerFairness

(***************************************************************************)
(* Properties                                                              *)
(***************************************************************************)
WorkerStates == {"none", "handling", "responding", "releasing", "done"}

Responses == [id : Requests, kind : {"result", "overloaded"}]

\* Type invariant of the server's goroutines and channels.
TypeOK ==
    /\ arrived \in 0 .. MaxRequests
    /\ inbox \in Seq(Requests)
    /\ notifications \in 0 .. ChannelSize
    /\ reader \in [at : {"enqueue", "refuse"}, req : Requests]
                      \cup {Idle, Exited}
    /\ queue \in Seq(Requests)
    /\ disp \in [at : {"acquire"}, req : Requests] \cup {Idle, Exited}
    /\ tokens \in 0 .. MaxConcurrentRequests
    /\ worker \in [Requests -> WorkerStates]
    /\ notifier \in {"idle", "exited"}
    /\ outbox \in Seq(Responses)
    /\ delivered \in Seq(Responses)
    /\ parentDone \in BOOLEAN
    /\ ctxDone \in BOOLEAN
    /\ transportDone \in BOOLEAN
    /\ closer \in {"open", "waiting", "closed"}

Active == {r \in Requests : worker[r] \in {"handling", "responding", "releasing"}}

\* Tokens are neither lost nor made: those in workerPool and those the workers
\* hold are always MaxConcurrentRequests together, so no more handlers than
\* that run at once and the deferred release never blocks.
TokensConserved == tokens + Cardinality(Active) = MaxConcurrentRequests

\* The type invariant and the conservation of tokens, as one invariant.
Inv == TypeOK /\ TokensConserved

InSeq(r, s) == \E k \in DOMAIN s : s[k] = r

\* Request r has arrived and no worker has been started for it yet.
Waiting(r) == InSeq(r, inbox) \/ reader.req = r \/ InSeq(r, queue) \/ disp.req = r

\* The responses to r, queued or written.
ResponsesTo(r) ==
    LET all == delivered \o outbox IN {k \in DOMAIN all : all[k].id = r}

\* A request is answered at most once, and never while it is still on its way
\* to a handler or being handled: "overloaded" and a result exclude each other.
AnsweredOnce ==
    \A r \in Requests :
        /\ Cardinality(ResponsesTo(r)) <= 1
        /\ Waiting(r) \/ worker[r] \in {"handling", "responding"}
               => ResponsesTo(r) = {}
        /\ Waiting(r) => worker[r] = "none"

\* No request disappears while the server runs: one that has arrived is on its
\* way, being handled or answered, unless the server or the transport is
\* shutting down or its result cannot be encoded.
NoRequestLost ==
    \A r \in 1 .. arrived :
        \/ Waiting(r)
        \/ worker[r] \in {"handling", "responding"}
        \/ ResponsesTo(r) # {}
        \/ ctxDone \/ transportDone
        \/ r \in Unencodable

\* Refused, queued, handled and answered: each request goes exactly one way.
AnsweredExactlyOnce == AnsweredOnce /\ NoRequestLost

\* Workers are started in the order of arrival: when a worker has been started
\* for a request, no earlier one is still waiting for its worker.
StartedInOrder ==
    \A r, q \in Requests : r < q /\ worker[q] # "none" => ~Waiting(r)

\* Every request that arrives is answered, if the server stays up.
EveryRequestAnswered ==
    \A r \in Requests \ Unencodable :
        InSeq(r, inbox) ~> \/ \E k \in DOMAIN delivered : delivered[k].id = r
                           \/ ctxDone \/ transportDone

\* Close returns: the goroutines it waits for end.
CloseReturns == closer = "waiting" ~> closer = "closed"

\* When Close has returned, no handler is running any more.
NoHandlerAfterClose == closer = "closed" => Active = {}

=============================================================================
