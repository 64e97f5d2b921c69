----------------------------- MODULE SSEClient ------------------------------
(***************************************************************************)
(* transport/sse.go: the client transport with two endpoints.  One         *)
(* goroutine (connectSSE, readEvents) keeps an event stream open and       *)
(* routes what it reads; the other (handleOutgoingMessages) posts what     *)
(* the message handler sends, one message at a time.                       *)
(***************************************************************************)
EXTENDS HandlerTransport

CONSTANTS
    MaxReconnects,   \* config.MaxReconnects
    MaxEvents,       \* bound on the events the server sends
    UserKinds        \* the kinds the server sends, of "request", "notification"

ASSUME SSEAssumption ==
    /\ MaxReconnects \in Nat
    /\ MaxEvents \in 0 .. MaxIncoming
    /\ UserKinds \subseteq {"request", "notification"}

VARIABLES
    stream,          \* connectSSE, with the event readEvents has in hand
    reconnectCount,
    userChan,        \* messages in s.requestChan and s.notificationChan
    post             \* handleOutgoingMessages

sseVars == <<stream, reconnectCount, userChan, post>>

Streams == [at : {"dialing", "delay", "reading", "exited"}, event : Messages]

StreamAt(where) == [at |-> where, event |-> NoMsg]

\* What the server may send: requests, notifications, responses to requests it
\* may have seen, and data that is no message.
Events == {[kind |-> k, id |-> NoId] : k \in UserKinds \cup {"malformed"}}
              \cup {Answer(i) : i \in 1 .. requestID}

(***************************************************************************)
(* connectSSE                                                              *)
(***************************************************************************)
ConnectionEstablished ==
    /\ Running
    /\ stream.at = "dialing"
    /\ ~ctxDone
    /\ stream' = StreamAt("reading")
    /\ UNCHANGED <<vars, closeVars, reconnectCount, userChan, post>>

\* A failed attempt: the goroutine gives up for good at the limit.  The counter
\* is never reset.
ConnectionFails ==
    /\ Running
    /\ stream.at = "dialing"
    /\ IF reconnectCount >= MaxReconnects
       THEN /\ stream' = StreamAt("exited")
            /\ wg' = wg - 1
            /\ UNCHANGED reconnectCount
       ELSE /\ stream' = StreamAt("delay")
            /\ reconnectCount' = reconnectCount + 1
            /\ UNCHANGED wg
    /\ UNCHANGED <<vars, closer, userChan, post>>

DelayPasses ==
    /\ Running
    /\ stream.at = "delay"
    /\ stream' = StreamAt("dialing")
    /\ UNCHANGED <<vars, closeVars, reconnectCount, userChan, post>>

\* readEvents returns at the end of the stream (the server, the 60 seconds of
\* http.Client.Timeout, or Close): dialled again at once, and not counted.
StreamEnds ==
    /\ Running
    /\ stream = StreamAt("reading")
    /\ stream' = StreamAt("dialing")
    /\ UNCHANGED <<vars, closeVars, reconnectCount, userChan, post>>

\* Mutated form: the selects that route an event do not watch ctx.Done.
StreamSeesDoneBetweenEvents ==
    /\ Running
    /\ ctxDone
    /\ stream.at # "exited"
    /\ stream.event = NoMsg
    /\ stream' = StreamAt("exited")
    /\ wg' = wg - 1
    /\ UNCHANGED <<vars, closer, reconnectCount, userChan, post>>

StreamSeesDone ==
    /\ Running
    /\ ctxDone
    /\ stream.at # "exited"
    /\ stream' = StreamAt("exited")
    /\ wg' = wg - 1
    /\ UNCHANGED <<vars, closer, reconnectCount, userChan, post>>

(***************************************************************************)
(* readEvents: one event at a time, which waits for room in its channel.   *)
(***************************************************************************)
EventArrives(m) ==
    /\ Running
    /\ stream = StreamAt("reading")
    /\ ~ctxDone
    /\ arrivals < MaxEvents
    /\ arrivals' = arrivals + 1
    /\ stream' = [stream EXCEPT !.event = m]
    /\ UNCHANGED <<ctxDone, callVars, timer, pending, chanVars, oneWay,
                   flowVars, router, corr, closing, panicked>>
    /\ UNCHANGED <<closeVars, reconnectCount, userChan, post>>

EventRouted ==
    /\ Running
    /\ stream.event # NoMsg
    /\ \/ /\ stream.event.kind \in UserKinds
          /\ userChan[stream.event.kind] < BufferSize
          /\ userChan' = [userChan EXCEPT ![stream.event.kind] = @ + 1]
          /\ UNCHANGED incoming
       \/ /\ stream.event.kind = "response"
          /\ Len(incoming) < BufferSize
          /\ incoming' = Append(incoming, stream.event)
          /\ UNCHANGED userChan
       \/ /\ stream.event.kind = "malformed"
          /\ UNCHANGED <<incoming, userChan>>
    /\ stream' = StreamAt("reading")
    /\ UNCHANGED <<ctxDone, callVars, timer, pending, chanVars, oneWay,
                   outgoing, requestChan, notificationChan, responseChan,
                   router, corr, closing, arrivals, panicked>>
    /\ UNCHANGED <<closeVars, reconnectCount, post>>

UserReceives(kind) ==
    /\ Running
    /\ userChan[kind] > 0
    /\ userChan' = [userChan EXCEPT ![kind] = @ - 1]
    /\ UNCHANGED <<vars, closeVars, stream, reconnectCount, post>>

(***************************************************************************)
(* handleOutgoingMessages and sendHTTPMessage: a failed POST is counted    *)
(* and forgotten.                                                          *)
(***************************************************************************)
PostTakes ==
    /\ post = "idle"
    /\ TransportTakesOutgoing
    /\ post' = "posting"
    /\ UNCHANGED <<closeVars, stream, reconnectCount, userChan>>

PostEnds ==
    /\ Running
    /\ post = "posting"
    /\ post' = "idle"
    /\ UNCHANGED <<vars, closeVars, stream, reconnectCount, userChan>>

PostSeesDone ==
    /\ Running
    /\ ctxDone
    /\ post = "idle"
    /\ post' = "exited"
    /\ wg' = wg - 1
    /\ UNCHANGED <<vars, closer, stream, reconnectCount, userChan>>

(***************************************************************************)
(* Close, once: cancel, a pause, close the message handler, wait.          *)
(***************************************************************************)
SSECloseCancels ==
    /\ closer = "none"
    /\ Cancel
    /\ closer' = "cancelled"
    /\ UNCHANGED <<wg, sseVars>>

SSECloseHandler ==
    /\ closer = "cancelled"
    /\ CloseCancels
    /\ closer' = "draining"
    /\ UNCHANGED <<wg, sseVars>>

SSECloseDrained ==
    /\ Running
    /\ Drained
    /\ closer' = "waiting"
    /\ UNCHANGED <<vars, wg, sseVars>>

SSECloseReturns ==
    /\ Running
    /\ closer = "waiting"
    /\ wg = 0
    /\ closer' = "returned"
    /\ UNCHANGED <<vars, wg, sseVars>>

\* The transport between two streams: what came over the earlier ones may not
\* have been read yet.
SSEInit ==
    /\ stream = StreamAt("dialing")
    /\ reconnectCount = 0
    /\ userChan \in [UserKinds -> 0 .. BufferSize]
    /\ post = "idle"

Reader == ConnectionEstablished \/ ConnectionFails \/ DelayPasses
              \/ EventRouted \/ StreamSeesDone

Poster == PostTakes \/ PostEnds \/ PostSeesDone

SSEClose == SSECloseHandler \/ SSECloseDrained \/ SSECloseReturns

SSENext ==
    \/ /\ \/ HandlerStep
          \/ ParentCancelled
       /\ UNCHANGED <<closeVars, sseVars>>
    \/ Reader
    \/ StreamEnds
    \/ \E m \in Events : EventArrives(m)
    \/ \E k \in UserKinds : UserReceives(k)
    \/ Poster
    \/ SSECloseCancels
    \/ SSEClose

(***************************************************************************)
(* Properties                                                              *)
(***************************************************************************)
SSETypeOK ==
    /\ stream \in Streams
    /\ reconnectCount \in 0 .. MaxReconnects
    /\ userChan \in [UserKinds -> 0 .. BufferSize]
    /\ post \in {"idle", "posting", "exited"}

\* When Close has returned, neither goroutine is left to touch the channels.
NoGoroutineAfterClose ==
    closer = "returned" => stream.at = "exited" /\ post = "exited"

\* The limit is one of attempts in a row: a stream that has been open leaves
\* all of them to its successor.  (Not what the code does.)
OpenStreamResetsCount ==
    [][stream.at = "reading" /\ stream'.at = "dialing"
         => reconnectCount' = 0]_<<stream, reconnectCount>>

=============================================================================
