--------------------------- MODULE HTTPServerEvents ---------------------------
(***************************************************************************)
(* transport/streamable_http_server.go: the HTTP server transport with its *)
(* event streams.  To the calls of HTTPServer come the clients of          *)
(* handleSSE, the callers of SendNotification, who write to every stream   *)
(* themselves and pass the notification to the MessageHandler besides, and *)
(* bridgeOutgoing, which writes to every stream what the MessageHandler    *)
(* sends: these notifications again, and the responses that belong to no   *)
(* pending call.                                                           *)
(*                                                                         *)
(* A broadcast goes through a snapshot of sseClients without the lock.     *)
(* Streams have distinct identifiers, the times of their beginning in      *)
(* nanoseconds.  A heartbeat is a write that never fails; it is left out.  *)
(* A write returns, by the WriteTimeout of the http.Server at the latest.  *)
(***************************************************************************)
EXTENDS HTTPServer

CONSTANTS
    MaxStreams,  \* bound on the event streams
    MaxNotices,  \* bound on the notifications
    BadNotices,  \* those whose params json.Marshal refuses
    Loads        \* bounds on calls, streams and notices taken together

Streams == 1 .. MaxStreams
Notices == 1 .. MaxNotices

ASSUME EventsAssumption ==
    /\ MaxStreams \in Nat
    /\ MaxNotices \in Nat
    /\ BadNotices \subseteq Notices
    /\ Loads \subseteq [calls : 0 .. MaxCalls, streams : 0 .. MaxStreams,
                        notices : 0 .. MaxNotices]

VARIABLES
    load,        \* the element of Loads that bounds this run
    stream,      \* stream[s]: where handleSSE is
    sseClients,  \* the streams in sseClients
    done,        \* streams whose Done has been closed
    notice,      \* notice[n]: where SendNotification is
    todo,        \* todo[n]: the streams its broadcast still has to write to
    outgoing,    \* outgoingChan of the MessageHandler
    bridge       \* bridgeOutgoing: the message it writes, and to whom yet

noticeVars == <<notice, todo>>
eventVars == <<load, stream, sseClients, done, noticeVars, outgoing, bridge>>
allVars == <<vars, eventVars>>

Notice(n) == [kind |-> "notification", of |-> n]
Response(c) == [kind |-> "response", of |-> c]
Messages == {Notice(n) : n \in Notices} \cup {Response(c) : c \in Calls}
NoMessage == [kind |-> "none", of |-> 0]

(***************************************************************************)
(* handleSSE                                                               *)
(***************************************************************************)
StreamArrives(s) ==
    /\ Running
    /\ s <= load.streams
    /\ stream[s] = "none"
    /\ stream' = [stream EXCEPT ![s] = "register"]
    /\ UNCHANGED <<vars, load, sseClients, done, noticeVars, outgoing, bridge>>

StreamRegisters(s) ==
    /\ Running
    /\ stream[s] = "register"
    /\ stream' = [stream EXCEPT ![s] = "serve"]
    /\ sseClients' = sseClients \cup {s}
    /\ UNCHANGED <<vars, load, done, noticeVars, outgoing, bridge>>

\* The loop ends when the client has gone or the transport is shut down; it does
\* not look at Done.
StreamLoopEnds(s) ==
    /\ stream[s] = "serve"
    /\ stream' = [stream EXCEPT ![s] = "leave"]
    /\ UNCHANGED <<vars, load, sseClients, done, noticeVars, outgoing, bridge>>

ClientLeaves(s) == Running /\ StreamLoopEnds(s)

\* Mutated form: the loop looks at Done instead of the context.
StreamWaitsForDone(s) == Running /\ s \in done /\ StreamLoopEnds(s)

StreamInterrupted(s) == Running /\ ctxDone /\ StreamLoopEnds(s)

\* Mutated form: the stream is not taken out of sseClients.
StreamStaysListed(s) ==
    /\ Running
    /\ stream[s] = "leave"
    /\ stream' = [stream EXCEPT ![s] = "close"]
    /\ UNCHANGED <<vars, load, sseClients, done, noticeVars, outgoing, bridge>>

StreamDeregisters(s) ==
    /\ Running
    /\ stream[s] = "leave"
    /\ stream' = [stream EXCEPT ![s] = "close"]
    /\ sseClients' = sseClients \ {s}
    /\ UNCHANGED <<vars, load, done, noticeVars, outgoing, bridge>>

\* Done is closed.  If Close has done so before, this panics; net/http recovers
\* it and drops the connection.
StreamEnds(s) ==
    /\ Running
    /\ stream[s] = "close"
    /\ stream' = [stream EXCEPT ![s] = IF s \in done THEN "aborted" ELSE "ended"]
    /\ done' = done \cup {s}
    /\ UNCHANGED <<vars, load, sseClients, noticeVars, outgoing, bridge>>

(***************************************************************************)
(* SendNotification                                                        *)
(***************************************************************************)

\* broadcastSSEEvent takes its snapshot.
NoticeBegins(n) ==
    /\ Running
    /\ n <= load.notices
    /\ notice[n] = "none"
    /\ notice' = [notice EXCEPT ![n] = "broadcast"]
    /\ todo' = [todo EXCEPT ![n] = sseClients]
    /\ UNCHANGED <<vars, load, stream, sseClients, done, outgoing, bridge>>

NoticeWrites(n, s) ==
    /\ Running
    /\ n \notin BadNotices
    /\ s \in todo[n]
    /\ todo' = [todo EXCEPT ![n] = @ \ {s}]
    /\ UNCHANGED <<vars, load, stream, sseClients, done, notice, outgoing, bridge>>

\* One that cannot be marshalled is taken for a sign that the client has gone.
NoticeDropsClient(n, s) ==
    /\ Running
    /\ n \in BadNotices
    /\ s \in todo[n]
    /\ todo' = [todo EXCEPT ![n] = @ \ {s}]
    /\ sseClients' = sseClients \ {s}
    /\ UNCHANGED <<vars, load, stream, done, notice, outgoing, bridge>>

\* MessageHandler.SendNotification looks at the context and marshals.
NoticeMarshalled(n) ==
    /\ Running
    /\ notice[n] = "broadcast"
    /\ todo[n] = {}
    /\ ~ctxDone
    /\ n \notin BadNotices
    /\ notice' = [notice EXCEPT ![n] = "enqueue"]
    /\ UNCHANGED <<vars, load, stream, sseClients, done, todo, outgoing, bridge>>

NoticeRefused(n) ==
    /\ Running
    /\ notice[n] = "broadcast"
    /\ todo[n] = {}
    /\ ctxDone \/ n \in BadNotices
    /\ notice' = [notice EXCEPT ![n] = "returned"]
    /\ UNCHANGED <<vars, load, stream, sseClients, done, todo, outgoing, bridge>>

\* Its select: room in outgoingChan, or the end of the transport.
NoticeReturns(n) ==
    /\ Running
    /\ notice[n] = "enqueue"
    /\ \/ /\ Len(outgoing) < MessageBuffer
          /\ outgoing' = Append(outgoing, Notice(n))
       \/ /\ ctxDone
          /\ UNCHANGED outgoing
    /\ notice' = [notice EXCEPT ![n] = "returned"]
    /\ UNCHANGED <<vars, load, stream, sseClients, done, todo, bridge>>

(***************************************************************************)
(* Outgoing messages                                                       *)
(***************************************************************************)

\* A response that SendResponse leaves to the MessageHandler, in the same two
\* steps.
ResponseMarshalled(c) ==
    /\ Running
    /\ work[c] = "delegated"
    /\ work' = [work EXCEPT ![c] = IF ctxDone THEN "done" ELSE "enqueue"]
    /\ UNCHANGED <<callVars, timer, chanVars, pending, queue, found, ctxDone,
                   closer, panicked, eventVars>>

ResponseDelegated(c) ==
    /\ Running
    /\ work[c] = "enqueue"
    /\ \/ /\ Len(outgoing) < MessageBuffer
          /\ outgoing' = Append(outgoing, Response(c))
       \/ /\ ctxDone
          /\ UNCHANGED outgoing
    /\ work' = [work EXCEPT ![c] = "done"]
    /\ UNCHANGED <<callVars, timer, chanVars, pending, queue, found, ctxDone,
                   closer, panicked, load, stream, sseClients, done, noticeVars,
                   bridge>>

\* A message is taken and a snapshot of the streams; when it has been written to
\* them all, the next.
BridgeTakes ==
    /\ Running
    /\ bridge.at = "loop"
    /\ bridge.todo = {}
    /\ outgoing # <<>>
    /\ bridge' = [bridge EXCEPT !.message = Head(outgoing), !.todo = sseClients]
    /\ outgoing' = Tail(outgoing)
    /\ UNCHANGED <<vars, load, stream, sseClients, done, noticeVars>>

BridgeWrites(s) ==
    /\ Running
    /\ s \in bridge.todo
    /\ bridge' = [bridge EXCEPT !.todo = @ \ {s}]
    /\ UNCHANGED <<vars, load, stream, sseClients, done, noticeVars, outgoing>>

BridgeExits ==
    /\ Running
    /\ ctxDone
    /\ bridge.at = "loop"
    /\ bridge.todo = {}
    /\ bridge' = [bridge EXCEPT !.at = "exited"]
    /\ UNCHANGED <<vars, load, stream, sseClients, done, noticeVars, outgoing>>

(***************************************************************************)
(* Close                                                                   *)
(***************************************************************************)

\* Done is closed for every stream in sseClients, which keep their places there.
CloseEndsStreams ==
    /\ CloseStreams
    /\ done' = done \cup sseClients
    /\ UNCHANGED <<load, stream, sseClients, noticeVars, outgoing, bridge>>

(***************************************************************************)
(* The specification                                                       *)
(***************************************************************************)
EventsInit ==
    /\ Init
    /\ load \in Loads
    /\ stream = [s \in Streams |-> "none"]
    /\ sseClients = {}
    /\ done = {}
    /\ notice = [n \in Notices |-> "none"]
    /\ todo = [n \in Notices |-> {}]
    /\ outgoing = <<>>
    /\ bridge = [at |-> "loop", message |-> NoMessage, todo |-> {}]

\* What HTTPServer describes.
RequestsNext ==
    /\ \/ \E c \in Calls : \/ RpcArrives(c) /\ c <= load.calls
                           \/ HandleRPC(c)
                           \/ Timer(c)
                           \/ SendResponse(c)
       \/ ServerTakes
       \/ CloseCancels
       \/ CloseChannels
       \/ ParentCancelled
    /\ UNCHANGED eventVars

HandleSSE(s) == \/ StreamRegisters(s)
                \/ StreamInterrupted(s)
                \/ StreamDeregisters(s)
                \/ StreamEnds(s)

SendNotification(n) == \/ \E s \in Streams : NoticeWrites(n, s)
                       \/ \E s \in Streams : NoticeDropsClient(n, s)
                       \/ NoticeMarshalled(n)
                       \/ NoticeRefused(n)
                       \/ NoticeReturns(n)

Bridge == \/ BridgeTakes
          \/ \E s \in Streams : BridgeWrites(s)
          \/ BridgeExits

EventsNext == \/ RequestsNext
              \/ \E s \in Streams : \/ StreamArrives(s)
                                    \/ ClientLeaves(s)
                                    \/ HandleSSE(s)
              \/ \E n \in Notices : NoticeBegins(n) \/ SendNotification(n)
              \/ \E c \in Calls : ResponseMarshalled(c) \/ ResponseDelegated(c)
              \/ Bridge
              \/ CloseEndsStreams

\* As for HTTPServer; no client has to leave and nobody has to notify.
EventsFairness == /\ Fairness
                  /\ \A s \in Streams : WF_allVars(HandleSSE(s))
                  /\ \A n \in Notices : WF_allVars(SendNotification(n))
                  /\ WF_allVars(Bridge)

EventsSpec == EventsInit /\ [][EventsNext]_allVars /\ EventsFairness

(***************************************************************************)
(* Properties                                                              *)
(***************************************************************************)

\* Type invariant of the event streams.
EventsTypeOK ==
    /\ TypeOK
    /\ load \in Loads
    /\ stream \in [Streams -> {"none", "register", "serve", "leave", "close",
                               "ended", "aborted"}]
    /\ sseClients \subseteq Streams
    /\ done \subseteq Streams
    /\ notice \in [Notices -> {"none", "broadcast", "enqueue", "returned"}]
    /\ todo \in [Notices -> SUBSET Streams]
    /\ outgoing \in Seq(Messages)
    /\ Len(outgoing) <= MessageBuffer
    /\ bridge \in [at : {"loop", "exited"}, message : Messages \cup {NoMessage},
                   todo : SUBSET Streams]

\* Close and the deferred function of handleSSE both close Done.  Close, whose
\* panic nobody recovers, never finds it closed: a stream leaves sseClients
\* before its Done is closed.
CloseFindsOpen ==
    closer = "open" => sseClients \cap done = {}

\* A response goes one way: one that a POST has got is not broadcast.
AnswerNotBroadcast ==
    \A c \in Calls :
        outcome[c] = Answer(c) =>
            /\ work[c] # "enqueue"
            /\ \A i \in DOMAIN outgoing : outgoing[i] # Response(c)
            /\ bridge.message # Response(c)

\* A stream being served is in sseClients, unless a notification that cannot be
\* marshalled has thrown it out.
ServedIsListed ==
    \/ \A s \in Streams : stream[s] = "serve" => s \in sseClients
    \/ \E n \in BadNotices : notice[n] # "none"

\* What the calls and the streams rely on, as one invariant.
EventsInv == /\ EventsTypeOK
             /\ OwnAnswer
             /\ WaitingHasEnd
             /\ CloseFindsOpen
             /\ AnswerNotBroadcast
             /\ ServedIsListed

\* Whoever is in the transport gets out of it, unless a panic ends the process:
\* every call ends, every SendNotification returns although it competes with
\* responses for outgoingChan and the bridge may have gone, and every stream ends
\* once the transport is shut down.
EverybodyLeaves ==
    /\ EveryCallEnds
    /\ \A n \in Notices :
           notice[n] = "broadcast" ~> notice[n] = "returned" \/ panicked
    /\ \A s \in Streams :
           stream[s] = "serve" /\ ctxDone
               ~> stream[s] \in {"ended", "aborted"} \/ panicked

\* Nothing is written to a client whose handler has returned.
WritesWhileServed ==
    [][\A s \in Streams :
           (\E n \in Notices : NoticeWrites(n, s)) \/ BridgeWrites(s)
               => stream[s] \notin {"ended", "aborted"}]_allVars

\* A stream leaves sseClients only when its client has gone or the transport is
\* shut down.
ListedWhileServed ==
    \A s \in Streams : stream[s] = "serve" => s \in sseClients

=============================================================================
