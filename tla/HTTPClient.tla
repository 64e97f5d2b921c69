----------------------------- MODULE HTTPClient -----------------------------
(***************************************************************************)
(* transport/streamable_http.go: the client side of HTTP.  A request is    *)
(* posted by a goroutine of its own, which also reads the answer.          *)
(* Notifications go through the MessageHandler's outgoing channel to       *)
(* bridgeOutgoing, which posts each from a goroutine of its own, at most   *)
(* MaxConcurrentRequests at a time.  startSSEConnection reads an event     *)
(* stream and hands what arrives to the application.                       *)
(*                                                                         *)
(* The constructor closes the MessageHandler's incoming channel, so that   *)
(* it routes nothing and the bridges from it carry nothing: they are left  *)
(* out.  HTTP and OAuth may fail at any time, but http.Client.Timeout      *)
(* bounds every exchange, the reading of a stream included, and the end of *)
(* ctx ends it too.                                                        *)
(***************************************************************************)
EXTENDS Integers, Sequences, FiniteSets

CONSTANTS
    MaxCalls,          \* bound on the requests
    MaxNotifications,  \* bound on the notifications
    MaxEvents,         \* bound on what the streams bring
    BufferSize,        \* StreamableHTTPConfig.MessageBuffer
    Slots,             \* StreamableHTTPConfig.MaxConcurrentRequests
    MaxReconnects      \* StreamableHTTPConfig.MaxReconnects

ASSUME ConstantsAssumption ==
    /\ MaxCalls \in Nat
    /\ MaxNotifications \in Nat
    /\ MaxEvents \in Nat
    /\ BufferSize \in Nat \ {0}
    /\ Slots \in Nat \ {0}
    /\ MaxReconnects \in Nat

Calls == 1 .. MaxCalls
Notifications == 1 .. MaxNotifications
None == 0
Channels == {"notificationChan", "requestChan"}

VARIABLES
    ctxDone,      \* the transport's context is done
    call,         \* call[c]: the goroutine of request c
    responses,    \* responses[c]: its channel
    accepted,     \* notifications that SendNotification has accepted
    outgoing,     \* the MessageHandler's outgoing channel
    bridge,       \* bridgeOutgoing and the notification it holds
    semaphore,    \* the length of bridgeOutgoing's channel of slots
    posting,      \* notifications that sendHTTPRequest is posting
    arrived,      \* those that have reached the server, in order
    stream,       \* startSSEConnection, "exited" also where it is not started
    reconnects,   \* its reconnectCount
    refused,      \* attempts in a row that got no stream
    events,       \* what the streams have brought so far
    event,        \* the channel the event in hand is for, or "none"
    delivered,    \* the lengths of the channels to the application
    closer        \* Close (sync.Once)

callVars == <<call, responses>>
postVars == <<accepted, outgoing, bridge, semaphore, posting, arrived>>
streamVars == <<stream, reconnects, refused, events, event, delivered>>
vars == <<ctxDone, callVars, postVars, streamVars, closer>>

Idle == [at |-> "idle", holds |-> None]

(***************************************************************************)
(* SendRequest                                                             *)
(***************************************************************************)

\* The goroutine is started whatever the state of the transport.
SendRequest(c) ==
    /\ call[c] = "none"
    /\ call' = [call EXCEPT ![c] = "posting"]
    /\ UNCHANGED <<ctxDone, responses, postVars, streamVars, closer>>

\* An answer that can be read and parsed is put in the channel.
CallAnswered(c) ==
    /\ call[c] = "posting"
    /\ call' = [call EXCEPT ![c] = "closing"]
    /\ responses' = [responses EXCEPT ![c] = "answer"]
    /\ UNCHANGED <<ctxDone, postVars, streamVars, closer>>

CallFails(c) ==
    /\ call[c] = "posting"
    /\ call' = [call EXCEPT ![c] = "closing"]
    /\ UNCHANGED <<ctxDone, responses, postVars, streamVars, closer>>

\* The deferred close, after an answer or without one.
CallCloses(c) ==
    /\ call[c] = "closing"
    /\ call' = [call EXCEPT ![c] = "ended"]
    /\ responses' = [responses EXCEPT ![c] = IF @ = "answer" THEN "answered"
                                                            ELSE "closed"]
    /\ UNCHANGED <<ctxDone, postVars, streamVars, closer>>

(***************************************************************************)
(* Notifications                                                           *)
(***************************************************************************)
SendNotification ==
    /\ ~ctxDone
    /\ accepted < MaxNotifications
    /\ Len(outgoing) < BufferSize
    /\ accepted' = accepted + 1
    /\ outgoing' = Append(outgoing, accepted')
    /\ UNCHANGED <<ctxDone, callVars, bridge, semaphore, posting, arrived,
                   streamVars, closer>>

BridgeTakes ==
    /\ bridge = Idle
    /\ outgoing # <<>>
    /\ bridge' = [at |-> "acquire", holds |-> Head(outgoing)]
    /\ outgoing' = Tail(outgoing)
    /\ UNCHANGED <<ctxDone, callVars, accepted, semaphore, posting, arrived,
                   streamVars, closer>>

\* A slot is waited for whatever happens to ctx.
BridgePosts ==
    /\ bridge.at = "acquire"
    /\ semaphore < Slots
    /\ semaphore' = semaphore + 1
    /\ posting' = posting \cup {bridge.holds}
    /\ bridge' = Idle
    /\ UNCHANGED <<ctxDone, callVars, accepted, outgoing, arrived, streamVars,
                   closer>>

BridgeExits ==
    /\ ctxDone
    /\ bridge = Idle
    /\ bridge' = [Idle EXCEPT !.at = "exited"]
    /\ UNCHANGED <<ctxDone, callVars, accepted, outgoing, semaphore, posting,
                   arrived, streamVars, closer>>

PostArrives(n) ==
    /\ n \in posting
    /\ \A i \in DOMAIN arrived : arrived[i] # n
    /\ arrived' = Append(arrived, n)
    /\ UNCHANGED <<ctxDone, callVars, accepted, outgoing, bridge, semaphore,
                   posting, streamVars, closer>>

\* Mutated form: the slot is released only after an exchange that succeeded.
PostReturnsSlot(n) ==
    /\ n \in posting
    /\ posting' = posting \ {n}
    /\ semaphore' = IF \E i \in DOMAIN arrived : arrived[i] = n
                    THEN semaphore - 1 ELSE semaphore
    /\ UNCHANGED <<ctxDone, callVars, accepted, outgoing, bridge, arrived,
                   streamVars, closer>>

\* The exchange is over, successfully or not; the deferred function releases the
\* slot.
PostEnds(n) ==
    /\ n \in posting
    /\ posting' = posting \ {n}
    /\ semaphore' = semaphore - 1
    /\ UNCHANGED <<ctxDone, callVars, accepted, outgoing, bridge, arrived,
                   streamVars, closer>>

(***************************************************************************)
(* startSSEConnection, connectSSE and readSSEEvents                        *)
(***************************************************************************)

\* The goroutine has added itself to the WaitGroup, or has not come to that.
StreamStarts ==
    /\ stream = "new"
    /\ stream' = "check"
    /\ UNCHANGED <<ctxDone, callVars, postVars, reconnects, refused, events,
                   event, delivered, closer>>

StreamChecks ==
    /\ stream = "check"
    /\ stream' = IF ctxDone THEN "exited" ELSE "connect"
    /\ UNCHANGED <<ctxDone, callVars, postVars, reconnects, refused, events,
                   event, delivered, closer>>

StreamConnects ==
    /\ stream = "connect"
    /\ stream' = "read"
    /\ refused' = 0
    /\ UNCHANGED <<ctxDone, callVars, postVars, reconnects, events,
                   event, delivered, closer>>

StreamRefused ==
    /\ stream = "connect"
    /\ stream' = "lost"
    /\ refused' = refused + 1
    /\ UNCHANGED <<ctxDone, callVars, postVars, reconnects, events,
                   event, delivered, closer>>

\* A notification or a request; other lines and responses have no effect.
StreamReads ==
    /\ stream = "read"
    /\ ~ctxDone
    /\ events < MaxEvents
    /\ events' = events + 1
    /\ event' \in Channels
    /\ stream' = "deliver"
    /\ UNCHANGED <<ctxDone, callVars, postVars, reconnects, refused, delivered,
                   closer>>

StreamDelivers ==
    /\ stream = "deliver"
    /\ delivered[event] < BufferSize
    /\ delivered' = [delivered EXCEPT ![event] = @ + 1]
    /\ event' = "none"
    /\ stream' = "read"
    /\ UNCHANGED <<ctxDone, callVars, postVars, reconnects, refused, events,
                   closer>>

\* Mutated form: a delivery waits for the application only.
StreamKeepsEvent ==
    /\ stream = "deliver"
    /\ ctxDone
    /\ delivered[event] < BufferSize
    /\ event' = "none"
    /\ stream' = "read"
    /\ UNCHANGED <<ctxDone, callVars, postVars, reconnects, refused, events,
                   delivered, closer>>

\* The other branch of the select: the event is dropped.
StreamDropsEvent ==
    /\ stream = "deliver"
    /\ ctxDone
    /\ event' = "none"
    /\ stream' = "read"
    /\ UNCHANGED <<ctxDone, callVars, postVars, reconnects, refused, events,
                   delivered, closer>>

\* The server, the Timeout of the http.Client or ctx ends the stream.
\* readSSEEvents returns an error in each case.
StreamEnds ==
    /\ stream = "read"
    /\ stream' = "lost"
    /\ UNCHANGED <<ctxDone, callVars, postVars, reconnects, refused, events,
                   event, delivered, closer>>

\* The count is reset only where connectSSE returns no error, which it never
\* does.
StreamRetries ==
    /\ stream = "lost"
    /\ IF reconnects < MaxReconnects
       THEN /\ reconnects' = reconnects + 1
            /\ stream' = "backoff"
       ELSE /\ stream' = "givenUp"
            /\ UNCHANGED reconnects
    /\ UNCHANGED <<ctxDone, callVars, postVars, refused, events,
                   event, delivered, closer>>

StreamBacksOff ==
    /\ stream = "backoff"
    /\ \/ stream' = "check"
       \/ ctxDone /\ stream' = "exited"
    /\ UNCHANGED <<ctxDone, callVars, postVars, reconnects, refused, events,
                   event, delivered, closer>>

AppReceives(c) ==
    /\ delivered[c] > 0
    /\ delivered' = [delivered EXCEPT ![c] = @ - 1]
    /\ UNCHANGED <<ctxDone, callVars, postVars, stream, reconnects, refused,
                   events, event, closer>>

(***************************************************************************)
(* Close                                                                   *)
(***************************************************************************)
CloseCancels ==
    /\ closer = "open"
    /\ ctxDone' = TRUE
    /\ closer' = "waiting"
    /\ UNCHANGED <<callVars, postVars, streamVars>>

\* Mutated form: the channels are closed without waiting for the goroutine.
CloseReturnsAtOnce ==
    /\ closer = "waiting"
    /\ closer' = "closed"
    /\ UNCHANGED <<ctxDone, callVars, postVars, streamVars>>

StreamCounted == stream \notin {"new", "givenUp", "exited"}

\* wg.Wait; then notificationChan and requestChan are closed.
CloseReturns ==
    /\ closer = "waiting"
    /\ ~StreamCounted
    /\ closer' = "closed"
    /\ UNCHANGED <<ctxDone, callVars, postVars, streamVars>>

ParentCancelled ==
    /\ ~ctxDone
    /\ ctxDone' = TRUE
    /\ UNCHANGED <<callVars, postVars, streamVars, closer>>

(***************************************************************************)
(* The specification                                                       *)
(***************************************************************************)
Init ==
    /\ ctxDone = FALSE
    /\ call = [c \in Calls |-> "none"]
    /\ responses = [c \in Calls |-> "open"]
    /\ accepted = 0
    /\ outgoing = <<>>
    /\ bridge = Idle
    /\ semaphore = 0
    /\ posting = {}
    /\ arrived = <<>>
    /\ stream \in {"new", "exited"}
    /\ reconnects = 0
    /\ refused = 0
    /\ events = 0
    /\ event = "none"
    /\ delivered = [c \in Channels |-> 0]
    /\ closer = "open"

Call(c) == CallAnswered(c) \/ CallFails(c) \/ CallCloses(c)

Bridge == BridgeTakes \/ BridgePosts \/ BridgeExits

Stream == \/ StreamStarts
          \/ StreamChecks
          \/ StreamConnects
          \/ StreamRefused
          \/ StreamDelivers
          \/ StreamDropsEvent
          \/ StreamEnds
          \/ StreamRetries
          \/ StreamBacksOff

Next == \/ \E c \in Calls : SendRequest(c) \/ Call(c)
        \/ SendNotification
        \/ Bridge
        \/ \E n \in Notifications : PostArrives(n) \/ PostEnds(n)
        \/ Stream
        \/ StreamReads
        \/ \E c \in Channels : AppReceives(c)
        \/ CloseCancels
        \/ CloseReturns
        \/ ParentCancelled

Spec == Init /\ [][Next]_vars

\* The goroutines run and every exchange ends, by the Timeout of the http.Client
\* at the latest.  Nobody has to send, read or close anything.
Fairness ==
    /\ \A c \in Calls : WF_vars(Call(c))
    /\ WF_vars(Bridge)
    /\ \A n \in Notifications : WF_vars(PostEnds(n))
    /\ WF_vars(Stream)
    /\ WF_vars(CloseReturns)

FairSpec == Spec /\ Fairness

(***************************************************************************)
(* Properties                                                              *)
(***************************************************************************)

\* Type invariant of the transport and its goroutines.
TypeOK ==
    /\ ctxDone \in BOOLEAN
    /\ call \in [Calls -> {"none", "posting", "closing", "ended"}]
    /\ responses \in [Calls -> {"open", "answer", "answered", "closed"}]
    /\ accepted \in 0 .. MaxNotifications
    /\ outgoing \in Seq(Notifications)
    /\ bridge \in [at : {"idle", "acquire", "exited"},
                   holds : Notifications \cup {None}]
    /\ semaphore \in 0 .. Slots
    /\ posting \subseteq Notifications
    /\ arrived \in Seq(Notifications)
    /\ stream \in {"new", "check", "connect", "read", "deliver", "lost",
                   "backoff", "givenUp", "exited"}
    /\ reconnects \in 0 .. MaxReconnects
    /\ refused \in 0 .. MaxReconnects + 1
    /\ events \in 0 .. MaxEvents
    /\ event \in Channels \cup {"none"}
    /\ delivered \in [Channels -> 0 .. BufferSize]
    /\ closer \in {"open", "waiting", "closed"}

\* The goroutine that reads the stream joins the WaitGroup by itself, perhaps
\* after Close has waited: even so it never comes to a send once the channels to
\* the application are closed, which would panic.
NoSendOnClosedChannel == closer = "closed" => stream # "deliver"

\* However many goroutines post and however they end, a slot is taken for each
\* of them and for nothing else.
SlotsAgree == semaphore = Cardinality(posting) /\ semaphore <= Slots

Inv == TypeOK /\ NoSendOnClosedChannel /\ SlotsAgree

Queued(n) == bridge.holds = n \/ \E i \in DOMAIN outgoing : outgoing[i] = n

\* A notification that was accepted does not stay queued, although the slots are
\* fewer and exchanges fail: it is posted, unless the transport is shut down.
NotificationsPosted ==
    \A n \in Notifications : Queued(n) ~> n \in posting \/ ctxDone

\* Once Close has begun it returns, whether the application still reads the
\* channels or not, and every goroutine ends: no caller waits for an answer for
\* ever and no slot stays taken.
ShutdownCompletes ==
    closer = "waiting"
        ~> /\ closer = "closed"
           /\ \A c \in Calls : call[c] \in {"none", "ended"}
           /\ bridge.at = "exited"
           /\ posting = {}
           /\ stream \in {"givenUp", "exited"}

\* Notifications reach the server in the order in which they were sent.
NotificationsInOrder ==
    \A i, j \in DOMAIN arrived : i < j => arrived[i] < arrived[j]

\* The stream is given up only when one attempt too many in a row has failed,
\* for the count is reset when a connection succeeds.
LimitIsInARow == stream = "givenUp" => ctxDone \/ refused > MaxReconnects

=============================================================================
