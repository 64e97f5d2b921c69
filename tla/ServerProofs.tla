----------------------------- MODULE ServerProofs -----------------------------
(***************************************************************************)
(* Theorems about Server and ServerCatalog, for any number of requests,    *)
(* workers, registrations and places in the transport's channels.          *)
(*                                                                         *)
(* The requests on their way are one increasing sequence, from disp over   *)
(* queue and reader to inbox (InOrder), and those that have a worker come  *)
(* before all of them (StartedBefore).  So a request that has left the     *)
(* way, by being refused or by being started, is never on it again, and    *)
(* the two ways to be answered exclude each other (AnsweredApart).         *)
(*                                                                         *)
(* A client that does one thing at a time has one answer on its way to it  *)
(* (OneAnswer), and what an answer says was true when it was made: since   *)
(* then a change may have come, but then news of it is due as well, which  *)
(* the client can act upon only after the answer.                          *)
(***************************************************************************)
EXTENDS Server, ServerCatalog, TLAPS, FiniteSetTheorems, SequenceTheorems

(***************************************************************************)
(* The inductive invariant                                                 *)
(***************************************************************************)
\* A channel whose contents are in the order of arrival.
Increasing(s) == \A i, j \in DOMAIN s : i < j => s[i] < s[j]

\* The requests on their way, each in one place and in the order of arrival.
InOrder ==
    /\ Increasing(inbox)
    /\ Increasing(queue)
    /\ \A j \in DOMAIN inbox : /\ inbox[j] <= arrived
                               /\ reader.req < inbox[j]
                               /\ disp.req < inbox[j]
    /\ \A i \in DOMAIN queue : /\ queue[i] <= arrived
                               /\ disp.req < queue[i]
                               /\ reader.req # 0 => queue[i] < reader.req
                               /\ \A j \in DOMAIN inbox : queue[i] < inbox[j]
    /\ reader.req # 0 => reader.req <= arrived /\ disp.req < reader.req
    /\ disp.req <= arrived

\* What has a worker has arrived before everything that waits for one.
StartedBefore ==
    \A q \in Requests : worker[q] # "none" =>
        /\ q <= arrived
        /\ \A r \in Requests : Waiting(r) => q < r

\* All responses that have been sent, written or not.
Sent == delivered \o outbox

Answered(r) == \E k \in DOMAIN Sent : Sent[k].id = r

\* Responses are to different requests, which are neither on their way nor in
\* the hands of a handler.
AnsweredApart ==
    /\ \A j, k \in DOMAIN Sent : Sent[j].id = Sent[k].id => j = k
    /\ \A r \in Requests : Answered(r) =>
          /\ r <= arrived
          /\ ~Waiting(r)
          /\ worker[r] \notin {"handling", "responding"}

\* The inductive invariant.
IInv ==
    /\ TypeOK
    /\ TokensConserved
    /\ InOrder
    /\ StartedBefore
    /\ AnsweredApart
    /\ NoRequestLost

(***************************************************************************)
(* Channels                                                                *)
(***************************************************************************)

\* Receiving from a channel that has something, and what is in it afterwards.
LEMMA Received ==
    ASSUME NEW S, NEW s \in Seq(S), s # <<>>
    PROVE  /\ Head(s) \in S /\ Head(s) = s[1] /\ 1 \in DOMAIN s
           /\ Tail(s) \in Seq(S)
           /\ \A i \in DOMAIN Tail(s) : i + 1 \in DOMAIN s /\ Tail(s)[i] = s[i + 1]
           /\ \A i \in DOMAIN s : i = 1 \/ (i - 1 \in DOMAIN Tail(s)
                                               /\ Tail(s)[i - 1] = s[i])
OBVIOUS

\* Sending on a channel.
LEMMA Queued ==
    ASSUME NEW S, NEW s \in Seq(S), NEW e \in S
    PROVE  /\ Append(s, e) \in Seq(S)
           /\ DOMAIN Append(s, e) = DOMAIN s \cup {Len(s) + 1}
           /\ Len(s) + 1 \notin DOMAIN s
           /\ \A i \in DOMAIN s : Append(s, e)[i] = s[i] /\ i < Len(s) + 1
           /\ Append(s, e)[Len(s) + 1] = e
OBVIOUS

\* What is in a channel after a receive.
LEMMA InReceived ==
    ASSUME NEW S, NEW s \in Seq(S), s # <<>>, NEW r
    PROVE  InSeq(r, s) <=> r = Head(s) \/ InSeq(r, Tail(s))
  <1>1. ASSUME InSeq(r, s) PROVE r = Head(s) \/ InSeq(r, Tail(s))
    <2>1. PICK k \in DOMAIN s : s[k] = r
      BY <1>1 DEF InSeq
    <2> QED BY <2>1, Received DEF InSeq
  <1>2. ASSUME r = Head(s) \/ InSeq(r, Tail(s)) PROVE InSeq(r, s)
    <2>1. CASE r = Head(s)
      BY <2>1, Received DEF InSeq
    <2>2. CASE InSeq(r, Tail(s))
      <3>1. PICK k \in DOMAIN Tail(s) : Tail(s)[k] = r
        BY <2>2 DEF InSeq
      <3> QED BY <3>1, Received DEF InSeq
    <2> QED BY <1>2, <2>1, <2>2
  <1> QED BY <1>1, <1>2

\* And after a send.
LEMMA InQueued ==
    ASSUME NEW S, NEW s \in Seq(S), NEW e \in S, NEW r
    PROVE  InSeq(r, Append(s, e)) <=> InSeq(r, s) \/ r = e
  BY Queued DEF InSeq

\* An increasing channel stays so.
LEMMA IncreasingReceived ==
    ASSUME NEW s \in Seq(Requests), s # <<>>, Increasing(s)
    PROVE  Increasing(Tail(s)) /\ \A i \in DOMAIN Tail(s) : Head(s) < Tail(s)[i]
  BY Received DEF Increasing

\* And so does one that gets something greater.
LEMMA IncreasingQueued ==
    ASSUME NEW s \in Seq(Requests), NEW e \in Requests, Increasing(s),
           \A i \in DOMAIN s : s[i] < e
    PROVE  Increasing(Append(s, e))
  <1> SUFFICES ASSUME NEW i \in DOMAIN Append(s, e), NEW j \in DOMAIN Append(s, e),
                      i < j
               PROVE  Append(s, e)[i] < Append(s, e)[j]
    BY DEF Increasing
  <1>1. i \in DOMAIN s
    BY Queued
  <1>2. CASE j \in DOMAIN s
    BY <1>1, <1>2, Queued DEF Increasing
  <1>3. CASE j = Len(s) + 1
    BY <1>1, <1>3, Queued
  <1> QED BY <1>2, <1>3, Queued


(***************************************************************************)
(* Goroutines                                                              *)
(***************************************************************************)

\* What a goroutine that has a request may hold.
LEMMA Hands ==
    ASSUME TypeOK
    PROVE  /\ reader.req \in Nat /\ disp.req \in Nat
           /\ reader.at \in {"enqueue", "refuse"} => reader.req \in Requests
           /\ reader.at = "idle" => reader = Idle
           /\ disp.at = "acquire" => disp.req \in Requests
           /\ disp.at = "idle" => disp = Idle
           /\ Requests \subseteq Nat \ {0}
  BY ConstantsAssumption DEF TypeOK, Idle, Exited, Requests

\* What is on its way has no worker.
LEMMA WaitingHasNone ==
    ASSUME TypeOK, StartedBefore, NEW r \in Requests, Waiting(r)
    PROVE  worker[r] = "none"
  BY ConstantsAssumption DEF StartedBefore, Requests

\* Two ways to say that a request has been answered.
LEMMA AnsweredResponses ==
    ASSUME NEW r
    PROVE  ResponsesTo(r) # {} <=> Answered(r)
  BY DEF ResponsesTo, Answered, Sent

\* The transport moves a response from one channel to the other side.
LEMMA WrittenIsSent ==
    ASSUME NEW a \in Seq(Responses), NEW b \in Seq(Responses), b # <<>>
    PROVE  Append(a, Head(b)) \o Tail(b) = a \o b
  OBVIOUS

\* SendResponse appends to what has been sent, or fails since the transport is
\* closed.
LEMMA SentOne ==
    ASSUME TypeOK, NEW r \in Requests, NEW kind \in {"result", "overloaded"},
           SendResponse(r, kind), UNCHANGED delivered
    PROVE  /\ outbox' \in Seq(Responses)
           /\ \/ Sent' = Append(Sent, Response(r, kind))
              \/ transportDone /\ Sent' = Sent
  <1>1. Response(r, kind) \in Responses
    BY DEF Response, Responses
  <1>2. CASE outbox' = Append(outbox, Response(r, kind))
    <2>1. Sent' = Append(Sent, Response(r, kind))
      BY <1>1, <1>2 DEF TypeOK, Sent
    <2> QED BY <1>1, <1>2, <2>1 DEF TypeOK
  <1>3. CASE transportDone /\ outbox' = outbox
    BY <1>3 DEF TypeOK, Sent
  <1> QED BY <1>2, <1>3 DEF SendResponse

\* What an additional response changes.
LEMMA AnsweredOneMore ==
    ASSUME TypeOK, NEW r \in Requests, NEW kind \in {"result", "overloaded"},
           Sent' = Append(Sent, Response(r, kind))
    PROVE  /\ \A q \in Requests : Answered(q)' <=> Answered(q) \/ q = r
           /\ AnsweredApart /\ ~Answered(r) =>
                 \A j, k \in DOMAIN Sent' : Sent'[j].id = Sent'[k].id => j = k
  <1>1. Response(r, kind) \in Responses /\ Response(r, kind).id = r
    BY DEF Response, Responses
  <1>2. Sent \in Seq(Responses)
    BY DEF TypeOK, Sent
  <1>3. /\ DOMAIN Sent' = DOMAIN Sent \cup {Len(Sent) + 1}
        /\ \A i \in DOMAIN Sent : Sent'[i] = Sent[i]
        /\ Sent'[Len(Sent) + 1].id = r
    BY <1>1, <1>2, Queued
  <1>4. \A q \in Requests : Answered(q)' <=> Answered(q) \/ q = r
    BY <1>3 DEF Answered
  <1>5. ASSUME AnsweredApart, ~Answered(r),
               NEW j \in DOMAIN Sent', NEW k \in DOMAIN Sent',
               Sent'[j].id = Sent'[k].id
        PROVE  j = k
    BY <1>3, <1>5 DEF AnsweredApart, Answered
  <1> QED BY <1>4, <1>5

(***************************************************************************)
(* Steps without a worker or a response                                    *)
(***************************************************************************)

\* Requests move on, or are dropped while the server shuts down.
LEMMA Moved ==
    ASSUME IInv, TypeOK', InOrder', UNCHANGED <<arrived, tokens, worker, Sent>>,
           \A r \in Requests : Waiting(r)' => Waiting(r),
           ctxDone' \/ \A r \in Requests : Waiting(r) => Waiting(r)',
           ctxDone \/ transportDone => ctxDone' \/ transportDone'
    PROVE  IInv'
  <1>1. TokensConserved'
    BY DEF IInv, TokensConserved, Active
  <1>2. StartedBefore'
    BY DEF IInv, StartedBefore
  <1>3. \A r : Answered(r)' <=> Answered(r)
    BY DEF Answered
  <1>4. AnsweredApart'
    BY <1>3 DEF IInv, AnsweredApart
  <1>5. NoRequestLost'
    <2>1. 1 .. arrived \subseteq Requests
      BY ConstantsAssumption DEF IInv, TypeOK, Requests
    <2> SUFFICES ASSUME NEW r \in 1 .. arrived
                 PROVE  \/ Waiting(r)'
                        \/ worker[r] \in {"handling", "responding"}
                        \/ Answered(r)
                        \/ ctxDone' \/ transportDone'
                        \/ r \in Unencodable
      BY <1>3, AnsweredResponses DEF NoRequestLost, Answered, ResponsesTo, Sent
    <2> QED BY <2>1, AnsweredResponses DEF IInv, NoRequestLost
  <1> QED BY <1>1, <1>2, <1>4, <1>5 DEF IInv

\* Steps that leave the requests alone: notifications, contexts, Close, and the
\* transport's writing.
Aside == \/ NotificationArrives
         \/ Notifier
         \/ TransportWrites
         \/ ParentCancelled
         \/ CancellationSpreads
         \/ CloseCancels
         \/ CloseTransport

\* They keep the invariant, TransportWrites because of WrittenIsSent.
LEMMA AsideStep ==
    ASSUME IInv, Aside
    PROVE  IInv'
  <1>1. UNCHANGED <<arrived, inbox, reader, queue, disp, tokens, worker>>
    BY DEF Aside, NotificationArrives, Notifier, NotifierTakes, NotifierExits,
           TransportWrites, ParentCancelled, CancellationSpreads, CloseCancels,
           CloseTransport, ctxVars
  <1>2. outbox' \in Seq(Responses) /\ delivered' \in Seq(Responses) /\ Sent' = Sent
    <2>1. CASE TransportWrites
      <3>1. Head(outbox) \in Responses /\ Tail(outbox) \in Seq(Responses)
        BY <2>1, Received DEF IInv, TypeOK, TransportWrites
      <3>2. Append(delivered, Head(outbox)) \in Seq(Responses)
        BY <3>1, Queued DEF IInv, TypeOK
      <3> QED BY <2>1, <3>1, <3>2, WrittenIsSent DEF IInv, TypeOK, TransportWrites, Sent
    <2>2. CASE ~TransportWrites
      <3>1. UNCHANGED <<outbox, delivered>>
        BY <2>2 DEF Aside, NotificationArrives, Notifier, NotifierTakes, NotifierExits,
               ParentCancelled, CancellationSpreads, CloseCancels, CloseTransport
      <3> QED BY <3>1 DEF IInv, TypeOK, Sent
    <2> QED BY <2>1, <2>2
  <1>3. /\ notifications' \in 0 .. ChannelSize
        /\ notifier' \in {"idle", "exited"}
        /\ closer' \in {"open", "waiting", "closed"}
        /\ parentDone' \in BOOLEAN
        /\ ctxDone' \in BOOLEAN /\ (ctxDone => ctxDone')
        /\ transportDone' \in BOOLEAN /\ (transportDone => transportDone')
    <2>1. CASE NotificationArrives
      BY <2>1, ConstantsAssumption DEF IInv, TypeOK, NotificationArrives, ctxVars
    <2>2. CASE NotifierTakes
      BY <2>2, ConstantsAssumption DEF IInv, TypeOK, NotifierTakes, ctxVars
    <2>3. CASE NotifierExits \/ TransportWrites
      BY <2>3 DEF IInv, TypeOK, NotifierExits, TransportWrites, ctxVars
    <2>4. CASE ParentCancelled \/ CancellationSpreads
      BY <2>4 DEF IInv, TypeOK, ParentCancelled, CancellationSpreads
    <2>5. CASE CloseCancels \/ CloseTransport
      BY <2>5 DEF IInv, TypeOK, CloseCancels, CloseTransport
    <2> QED BY <2>1, <2>2, <2>3, <2>4, <2>5 DEF Aside, Notifier
  <1>4. TypeOK'
    BY <1>1, <1>2, <1>3 DEF IInv, TypeOK
  <1>5. InOrder'
    BY <1>1 DEF IInv, InOrder, Increasing
  <1>6. \A r \in Requests : Waiting(r)' <=> Waiting(r)
    BY <1>1 DEF Waiting, InSeq
  <1> QED BY <1>1, <1>2, <1>3, <1>4, <1>5, <1>6, Moved

\* The other variables of a step of the pipeline.
LEMMA PipelineFrame ==
    ASSUME IInv,
           UNCHANGED <<arrived, notifications, tokens, worker, notifier, outbox,
                       delivered, ctxVars, closer>>,
           inbox' \in Seq(Requests), queue' \in Seq(Requests),
           reader' \in [at : {"enqueue", "refuse"}, req : Requests] \cup {Idle, Exited},
           disp' \in [at : {"acquire"}, req : Requests] \cup {Idle, Exited},
           InOrder',
           \A r \in Requests : Waiting(r)' => Waiting(r),
           ctxDone \/ \A r \in Requests : Waiting(r) => Waiting(r)'
    PROVE  IInv'
  <1>1. TypeOK'
    BY DEF IInv, TypeOK, ctxVars
  <1>2. UNCHANGED Sent
    BY DEF Sent
  <1> QED BY <1>1, <1>2, Moved DEF ctxVars

\* From inbox to the reader.
LEMMA ReaderTakesStep ==
    ASSUME IInv, ReaderTakes
    PROVE  IInv'
  <1>1. /\ inbox \in Seq(Requests) /\ inbox # <<>> /\ inbox' = Tail(inbox)
        /\ reader.req = 0 /\ reader' = [at |-> "enqueue", req |-> Head(inbox)]
        /\ UNCHANGED <<arrived, queue, disp>>
    BY DEF IInv, TypeOK, ReaderTakes, Idle, Exited
  <1>2. Head(inbox) \in Requests /\ inbox' \in Seq(Requests)
    BY <1>1, Received
  <1>3. InOrder'
    <2>1. Increasing(inbox') /\ \A i \in DOMAIN inbox' : Head(inbox) < inbox'[i]
      BY <1>1, IncreasingReceived DEF IInv, InOrder
    <2>2. \A i \in DOMAIN inbox' : i + 1 \in DOMAIN inbox /\ inbox'[i] = inbox[i + 1]
      BY <1>1, Received
    <2>3. 1 \in DOMAIN inbox /\ Head(inbox) = inbox[1]
      BY <1>1, Received
    <2> QED BY <1>1, <2>1, <2>2, <2>3 DEF IInv, InOrder, Increasing
  <1>4. \A r \in Requests : Waiting(r)' <=> Waiting(r)
    <2>1. \A r \in Requests : InSeq(r, inbox) <=> r = Head(inbox) \/ InSeq(r, inbox')
      BY <1>1, InReceived
    <2>2. 0 \notin Requests
      BY DEF Requests
    <2> QED BY <1>1, <2>1, <2>2 DEF Waiting
  <1> QED BY <1>1, <1>2, <1>3, <1>4, PipelineFrame DEF IInv, TypeOK, ReaderTakes

\* From the reader to the queue.
LEMMA ReaderEnqueuesStep ==
    ASSUME IInv, ReaderEnqueues
    PROVE  IInv'
  <1>1. /\ queue \in Seq(Requests) /\ queue' = Append(queue, reader.req)
        /\ reader.req \in Requests /\ reader' = Idle
        /\ UNCHANGED <<arrived, inbox, disp>>
    BY Hands DEF IInv, TypeOK, ReaderEnqueues
  <1>2. queue' \in Seq(Requests)
    BY <1>1, Queued
  <1>3. InOrder'
    <2>1. reader.req # 0 /\ reader'.req = 0
      BY <1>1, ConstantsAssumption DEF Requests, Idle
    <2>2. Increasing(queue')
      BY <1>1, <2>1, IncreasingQueued DEF IInv, InOrder
    <2>3. \A i \in DOMAIN queue' : \/ i \in DOMAIN queue /\ queue'[i] = queue[i]
                                   \/ queue'[i] = reader.req
      BY <1>1, Queued
    <2>4. \A j \in DOMAIN inbox : 0 < inbox[j]
      BY <1>1, ConstantsAssumption DEF IInv, TypeOK, Requests
    <2> QED BY <1>1, <2>1, <2>2, <2>3, <2>4 DEF IInv, InOrder, Increasing
  <1>4. \A r \in Requests : Waiting(r)' <=> Waiting(r)
    <2>1. \A r \in Requests : InSeq(r, queue') <=> InSeq(r, queue) \/ r = reader.req
      BY <1>1, InQueued
    <2>2. 0 \notin Requests /\ reader'.req = 0
      BY <1>1 DEF Requests, Idle
    <2> QED BY <1>1, <2>1, <2>2 DEF Waiting
  <1> QED BY <1>1, <1>2, <1>3, <1>4, PipelineFrame DEF IInv, TypeOK, ReaderEnqueues

\* It stays with the reader.
LEMMA ReaderRefusesStep ==
    ASSUME IInv, ReaderRefuses
    PROVE  IInv'
  <1>1. /\ reader' \in [at : {"refuse"}, req : Requests] /\ reader'.req = reader.req
        /\ UNCHANGED <<arrived, inbox, queue, disp>>
    <2>1. reader \in [at : {"enqueue", "refuse"}, req : Requests]
      BY DEF IInv, TypeOK, ReaderRefuses, Idle, Exited
    <2> QED BY <2>1 DEF ReaderRefuses
  <1>2. InOrder'
    BY <1>1 DEF IInv, InOrder, Increasing
  <1>3. \A r \in Requests : Waiting(r)' <=> Waiting(r)
    BY <1>1 DEF Waiting, InSeq
  <1> QED BY <1>1, <1>2, <1>3, PipelineFrame DEF IInv, TypeOK, ReaderRefuses

\* From the queue to the dispatcher.
LEMMA DispTakesStep ==
    ASSUME IInv, DispTakes
    PROVE  IInv'
  <1>1. /\ queue \in Seq(Requests) /\ queue # <<>> /\ queue' = Tail(queue)
        /\ disp.req = 0 /\ disp' = [at |-> "acquire", req |-> Head(queue)]
        /\ UNCHANGED <<arrived, inbox, reader>>
    BY DEF IInv, TypeOK, DispTakes, Idle, Exited
  <1>2. Head(queue) \in Requests /\ queue' \in Seq(Requests)
    BY <1>1, Received
  <1>3. InOrder'
    <2>1. Increasing(queue') /\ \A i \in DOMAIN queue' : Head(queue) < queue'[i]
      BY <1>1, IncreasingReceived DEF IInv, InOrder
    <2>2. \A i \in DOMAIN queue' : i + 1 \in DOMAIN queue /\ queue'[i] = queue[i + 1]
      BY <1>1, Received
    <2>3. 1 \in DOMAIN queue /\ Head(queue) = queue[1]
      BY <1>1, Received
    <2> QED BY <1>1, <2>1, <2>2, <2>3 DEF IInv, InOrder, Increasing
  <1>4. \A r \in Requests : Waiting(r)' <=> Waiting(r)
    <2>1. \A r \in Requests : InSeq(r, queue) <=> r = Head(queue) \/ InSeq(r, queue')
      BY <1>1, InReceived
    <2>2. 0 \notin Requests
      BY DEF Requests
    <2> QED BY <1>1, <2>1, <2>2 DEF Waiting
  <1> QED BY <1>1, <1>2, <1>3, <1>4, PipelineFrame DEF IInv, TypeOK, DispTakes

\* The reader or the dispatcher exits with a request in its hands, which is lost.
LEMMA ExitStep ==
    ASSUME IInv, ReaderExits \/ DispExits
    PROVE  IInv'
  <1>1. /\ ctxDone
        /\ UNCHANGED <<arrived, inbox, queue>>
        /\ \/ reader' = Exited /\ disp' = disp
           \/ disp' = Exited /\ reader' = reader
    BY DEF ReaderExits, DispExits
  <1>2. Exited.req = 0 /\ 0 \notin Requests
    BY DEF Exited, Requests
  <1>3. InOrder'
    <2>1. /\ \A j \in DOMAIN inbox : inbox[j] \in Requests
          /\ \A i \in DOMAIN queue : queue[i] \in Requests
          /\ arrived \in Nat
      BY DEF IInv, TypeOK
    <2>2. \A r \in Requests : 0 < r
      BY DEF Requests
    <2>3. /\ reader'.req = reader.req \/ reader'.req = 0
          /\ disp'.req = disp.req \/ disp'.req = 0
      BY <1>1, <1>2
    <2>4. reader'.req \in Nat
      BY <2>3, Hands DEF IInv
    <2> QED BY <1>1, <2>1, <2>2, <2>3, <2>4, Hands DEF IInv, InOrder, Increasing, Requests
  <1>4. \A r \in Requests : Waiting(r)' => Waiting(r)
    BY <1>1, <1>2 DEF Waiting, InSeq
  <1> QED BY <1>1, <1>3, <1>4, PipelineFrame DEF IInv, TypeOK, ReaderExits, DispExits

(***************************************************************************)
(* Steps that make a request, a worker or a response                       *)
(***************************************************************************)
\* A request later than all others.
LEMMA RequestArrivesStep ==
    ASSUME IInv, RequestArrives
    PROVE  IInv'
  <1>0. /\ \A j \in DOMAIN inbox : inbox[j] \in Nat
        /\ \A i \in DOMAIN queue : queue[i] \in Nat
    BY ConstantsAssumption DEF IInv, TypeOK, Requests
  <1>1. /\ inbox \in Seq(Requests) /\ inbox' = Append(inbox, arrived + 1)
        /\ arrived \in Nat /\ arrived + 1 \in Requests /\ arrived' = arrived + 1
        /\ UNCHANGED <<reader, queue, disp, worker, tokens, Sent, ctxVars>>
    BY ConstantsAssumption DEF IInv, TypeOK, RequestArrives, Requests, Sent
  <1>2. inbox' \in Seq(Requests)
    BY <1>1, Queued
  <1>3. TypeOK'
    <2>1. arrived' \in 0 .. MaxRequests
      BY <1>1, ConstantsAssumption DEF Requests
    <2> QED BY <1>1, <1>2, <2>1 DEF IInv, TypeOK, RequestArrives, ctxVars
  <1>4. InOrder'
    <2>1. Increasing(inbox')
      <3>1. \A i \in DOMAIN inbox : inbox[i] < arrived + 1
        BY <1>0, <1>1 DEF IInv, InOrder
      <3> QED BY <1>1, <3>1, IncreasingQueued DEF IInv, InOrder
    <2>2. \A i \in DOMAIN inbox' : \/ i \in DOMAIN inbox /\ inbox'[i] = inbox[i]
                                   \/ inbox'[i] = arrived + 1
      BY <1>1, Queued
    <2>3. \A j \in DOMAIN inbox' : /\ inbox'[j] <= arrived'
                                   /\ reader.req < inbox'[j]
                                   /\ disp.req < inbox'[j]
      BY <1>0, <1>1, <2>2, Hands DEF IInv, InOrder
    <2>4. \A i \in DOMAIN queue : /\ queue[i] <= arrived'
                                  /\ \A j \in DOMAIN inbox' : queue[i] < inbox'[j]
      BY <1>0, <1>1, <2>2 DEF IInv, InOrder
    <2>5. reader.req <= arrived' /\ disp.req <= arrived'
      BY <1>1, Hands DEF IInv, InOrder
    <2> QED BY <1>1, <2>1, <2>3, <2>4, <2>5 DEF IInv, InOrder, Increasing
  <1>5. \A r \in Requests : Waiting(r)' <=> Waiting(r) \/ r = arrived + 1
    <2>1. \A r \in Requests : InSeq(r, inbox') <=> InSeq(r, inbox) \/ r = arrived + 1
      BY <1>1, InQueued
    <2> QED BY <1>1, <2>1 DEF Waiting
  <1>6. TokensConserved'
    BY <1>1 DEF IInv, TokensConserved, Active
  <1>7. StartedBefore'
    BY <1>1, <1>5 DEF IInv, StartedBefore, Requests
  <1>8. \A r : Answered(r)' <=> Answered(r)
    BY <1>1 DEF Answered
  <1>9. AnsweredApart'
    <2>1. ASSUME NEW r \in Requests, Answered(r)
          PROVE  /\ r <= arrived' /\ ~Waiting(r)'
                 /\ worker'[r] \notin {"handling", "responding"}
      BY <1>1, <1>5, <2>1 DEF IInv, AnsweredApart, Requests
    <2> QED BY <1>1, <1>8, <2>1 DEF IInv, AnsweredApart
  <1>10. NoRequestLost'
    <2> SUFFICES ASSUME NEW r \in 1 .. arrived'
                 PROVE  \/ Waiting(r)'
                        \/ worker[r] \in {"handling", "responding"}
                        \/ Answered(r)
                        \/ ctxDone \/ transportDone
                        \/ r \in Unencodable
      BY <1>1, <1>8, AnsweredResponses
         DEF NoRequestLost, Answered, ResponsesTo, Sent, ctxVars
    <2>1. r \in Requests /\ (r = arrived + 1 \/ r \in 1 .. arrived)
      BY <1>1, ConstantsAssumption DEF IInv, TypeOK, Requests
    <2> QED BY <1>5, <2>1, AnsweredResponses DEF IInv, NoRequestLost
  <1> QED BY <1>3, <1>4, <1>6, <1>7, <1>9, <1>10 DEF IInv

\* A request leaves the way with its only response, or with none to be had.
LEMMA ReaderSendsOverloadedStep ==
    ASSUME IInv, ReaderSendsOverloaded
    PROVE  IInv'
  <1> DEFINE r == reader.req
  <1>1. /\ r \in Requests /\ reader' = Idle /\ Waiting(r)
        /\ UNCHANGED <<arrived, inbox, queue, disp, worker, tokens, delivered, ctxVars>>
    BY Hands DEF IInv, ReaderSendsOverloaded, Waiting
  <1>2. /\ outbox' \in Seq(Responses)
        /\ \/ Sent' = Append(Sent, Response(r, "overloaded"))
           \/ transportDone /\ Sent' = Sent
    BY <1>1, SentOne DEF IInv, ReaderSendsOverloaded
  <1>3. TypeOK'
    BY <1>1, <1>2 DEF IInv, TypeOK, ReaderSendsOverloaded, ctxVars
  <1>4. /\ \A j \in DOMAIN inbox : inbox[j] \in Requests
        /\ \A i \in DOMAIN queue : queue[i] \in Requests
        /\ \A q \in Requests : q \in Nat /\ 0 < q
        /\ reader'.req = 0 /\ 0 \notin Requests
    BY <1>1, ConstantsAssumption DEF IInv, TypeOK, Requests, Idle
  <1>5. InOrder'
    BY <1>1, <1>4 DEF IInv, InOrder, Increasing
  <1>6. \A q \in Requests : Waiting(q)' <=> Waiting(q) /\ q # r
    <2>1. ~InSeq(r, inbox) /\ ~InSeq(r, queue) /\ disp.req # r
      BY <1>1, <1>4, Hands DEF IInv, InOrder, InSeq
    <2> QED BY <1>1, <1>4, <2>1 DEF Waiting
  <1>7. TokensConserved'
    BY <1>1 DEF IInv, TokensConserved, Active
  <1>8. StartedBefore'
    BY <1>1, <1>6 DEF IInv, StartedBefore
  <1>9. worker[r] = "none" /\ r <= arrived /\ ~Answered(r)
    BY <1>1, <1>4, WaitingHasNone DEF IInv, InOrder, AnsweredApart
  <1>10. AnsweredApart' /\ NoRequestLost'
    <2>1. CASE Sent' = Append(Sent, Response(r, "overloaded"))
      <3>1. \A q \in Requests : Answered(q)' <=> Answered(q) \/ q = r
        BY <1>1, <2>1, AnsweredOneMore DEF IInv
      <3>2. AnsweredApart'
        <4>1. \A j, k \in DOMAIN Sent' : Sent'[j].id = Sent'[k].id => j = k
          BY <1>1, <1>9, <2>1, AnsweredOneMore DEF IInv
        <4>2. ASSUME NEW q \in Requests, Answered(q)'
              PROVE  /\ q <= arrived' /\ ~Waiting(q)'
                     /\ worker'[q] \notin {"handling", "responding"}
          BY <1>1, <1>6, <1>9, <3>1, <4>2 DEF IInv, AnsweredApart
        <4> QED BY <4>1, <4>2 DEF AnsweredApart
      <3>3. NoRequestLost'
        <4>1. 1 .. arrived \subseteq Requests
          BY ConstantsAssumption DEF IInv, TypeOK, Requests
        <4> SUFFICES ASSUME NEW q \in 1 .. arrived
                     PROVE  \/ Waiting(q)'
                            \/ worker[q] \in {"handling", "responding"}
                            \/ Answered(q)'
                            \/ ctxDone \/ transportDone
                            \/ q \in Unencodable
          BY <1>1, AnsweredResponses
             DEF NoRequestLost, Answered, ResponsesTo, Sent, ctxVars
        <4> QED BY <1>6, <3>1, <4>1, AnsweredResponses DEF IInv, NoRequestLost
      <3> QED BY <3>2, <3>3
    <2>2. CASE transportDone /\ Sent' = Sent
      <3>1. \A q : Answered(q)' <=> Answered(q)
        BY <2>2 DEF Answered
      <3>2. AnsweredApart'
        BY <1>1, <1>6, <2>2, <3>1 DEF IInv, AnsweredApart
      <3>3. NoRequestLost'
        BY <1>1, <2>2 DEF NoRequestLost, ctxVars
      <3> QED BY <3>2, <3>3
    <2> QED BY <1>2, <2>1, <2>2
  <1> QED BY <1>3, <1>5, <1>7, <1>8, <1>10 DEF IInv

\* The workers: which of them hold a token, and how many.
LEMMA ActiveFinite ==
    IsFiniteSet(Active) /\ Cardinality(Active) \in Nat
  <1>1. IsFiniteSet(Requests)
    BY FS_Interval, ConstantsAssumption DEF Requests
  <1>2. Active \in SUBSET Requests
    BY DEF Active
  <1> QED BY <1>1, <1>2, FS_Subset, FS_CardinalityType

\* The first of those on their way leaves it for a worker.
LEMMA DispStartsStep ==
    ASSUME IInv, DispStarts
    PROVE  IInv'
  <1> DEFINE r == disp.req
  <1>1. /\ r \in Requests /\ disp' = Idle /\ Waiting(r)
        /\ worker' = [worker EXCEPT ![r] = "handling"]
        /\ tokens > 0 /\ tokens' = tokens - 1
        /\ UNCHANGED <<arrived, inbox, queue, reader, Sent, ctxVars>>
    BY Hands DEF IInv, DispStarts, Waiting, Sent
  <1>2. worker[r] = "none"
    BY <1>1, WaitingHasNone DEF IInv
  <1>3. /\ \A j \in DOMAIN inbox : inbox[j] \in Requests
        /\ \A i \in DOMAIN queue : queue[i] \in Requests
        /\ \A q \in Requests : q \in Nat /\ 0 < q
        /\ disp'.req = 0 /\ 0 \notin Requests
    BY <1>1, ConstantsAssumption DEF IInv, TypeOK, Requests, Idle
  <1>4. TypeOK'
    <2>1. tokens' \in 0 .. MaxConcurrentRequests
      BY <1>1, ConstantsAssumption DEF IInv, TypeOK
    <2>2. worker' \in [Requests -> WorkerStates]
      BY <1>1 DEF IInv, TypeOK, WorkerStates
    <2> QED BY <1>1, <2>1, <2>2 DEF IInv, TypeOK, DispStarts, ctxVars
  <1>5. TokensConserved'
    <2>1. Active' = Active \cup {r} /\ r \notin Active
      BY <1>1, <1>2 DEF IInv, TypeOK, Active
    <2>2. Cardinality(Active') = Cardinality(Active) + 1
      BY <2>1, ActiveFinite, FS_AddElement
    <2>3. tokens \in Nat
      BY DEF IInv, TypeOK
    <2> QED BY <1>1, <2>2, <2>3, ActiveFinite DEF IInv, TokensConserved
  <1>6. InOrder'
    <2>1. reader.req \in Nat /\ arrived \in Nat
      BY Hands DEF IInv, TypeOK
    <2>2. /\ \A j \in DOMAIN inbox : 0 < inbox[j]
          /\ \A i \in DOMAIN queue : 0 < queue[i]
      BY <1>3
    <2>3. reader.req # 0 => 0 < reader.req
      BY <2>1
    <2> QED BY <1>1, <1>3, <2>1, <2>2, <2>3 DEF IInv, InOrder, Increasing
  <1>7. \A q \in Requests : Waiting(q)' <=> Waiting(q) /\ q # r
    <2>1. ~InSeq(r, inbox) /\ ~InSeq(r, queue) /\ reader.req # r
      BY <1>1, <1>3, Hands DEF IInv, InOrder, InSeq
    <2> QED BY <1>1, <1>3, <2>1 DEF Waiting
  <1>8. \A q \in Requests : Waiting(q)' => r < q
    <2>1. \A q \in Requests : InSeq(q, inbox) \/ InSeq(q, queue) => r < q
      BY DEF IInv, InOrder, InSeq
    <2> QED BY <1>1, <1>3, <2>1 DEF IInv, InOrder, Waiting
  <1>9. StartedBefore'
    <2>1. \A q \in Requests : worker'[q] # "none" => q = r \/ worker[q] # "none"
      BY <1>1 DEF IInv, TypeOK
    <2>2. r <= arrived
      BY DEF IInv, InOrder
    <2> QED BY <1>1, <1>7, <1>8, <2>1, <2>2 DEF IInv, StartedBefore
  <1>10. \A q : Answered(q)' <=> Answered(q)
    BY <1>1 DEF Answered
  <1>11. AnsweredApart'
    <2>1. ~Answered(r)
      BY <1>1 DEF IInv, AnsweredApart
    <2>2. ASSUME NEW q \in Requests, Answered(q)
          PROVE  /\ q <= arrived' /\ ~Waiting(q)'
                 /\ worker'[q] \notin {"handling", "responding"}
      BY <1>1, <1>7, <2>1, <2>2 DEF IInv, TypeOK, AnsweredApart
    <2> QED BY <1>1, <1>10, <2>2 DEF IInv, AnsweredApart
  <1>12. NoRequestLost'
    <2>1. 1 .. arrived \subseteq Requests
      BY ConstantsAssumption DEF IInv, TypeOK, Requests
    <2> SUFFICES ASSUME NEW q \in 1 .. arrived
                 PROVE  \/ Waiting(q)'
                        \/ worker'[q] \in {"handling", "responding"}
                        \/ Answered(q)
                        \/ ctxDone \/ transportDone
                        \/ q \in Unencodable
      BY <1>1, <1>10, AnsweredResponses
         DEF NoRequestLost, Answered, ResponsesTo, Sent, ctxVars
    <2> QED BY <1>1, <1>7, <2>1, AnsweredResponses DEF IInv, TypeOK, NoRequestLost
  <1> QED BY <1>4, <1>5, <1>6, <1>9, <1>11, <1>12 DEF IInv

\* A worker's own steps, and what they have in common.
LEMMA WorkerFrame ==
    ASSUME IInv, NEW r \in Requests, NEW from, NEW to \in WorkerStates \ {"none"},
           worker[r] = from, from # "none",
           worker' = [worker EXCEPT ![r] = to],
           UNCHANGED <<arrived, inbox, notifications, reader, queue, disp, notifier,
                       delivered, ctxVars, closer>>,
           tokens' \in 0 .. MaxConcurrentRequests,
           outbox' \in Seq(Responses)
    PROVE  /\ TypeOK' /\ InOrder' /\ StartedBefore'
           /\ \A q \in Requests : Waiting(q)' <=> Waiting(q)
           /\ \A q \in Requests : q # r => worker'[q] = worker[q]
           /\ worker'[r] = to /\ r <= arrived /\ ~Waiting(r)
  <1>1. TypeOK'
    BY DEF IInv, TypeOK, ctxVars
  <1>2. InOrder'
    BY DEF IInv, InOrder, Increasing
  <1>3. \A q \in Requests : Waiting(q)' <=> Waiting(q)
    BY DEF Waiting, InSeq
  <1>4. worker'[r] = to /\ \A q \in Requests : q # r => worker'[q] = worker[q]
    BY DEF IInv, TypeOK
  <1>5. StartedBefore'
    BY <1>3, <1>4 DEF IInv, StartedBefore
  <1>6. r <= arrived /\ ~Waiting(r)
    BY WaitingHasNone DEF IInv, StartedBefore
  <1> QED BY <1>1, <1>2, <1>3, <1>4, <1>5, <1>6

\* The handler returns: the worker still has its token, and nothing is sent yet.
LEMMA HandlerReturnsStep ==
    ASSUME IInv, NEW r \in Requests, HandlerReturns(r)
    PROVE  IInv'
  <1>1. /\ worker[r] = "handling" /\ worker' = [worker EXCEPT ![r] = "responding"]
        /\ UNCHANGED <<arrived, inbox, notifications, reader, queue, disp, tokens,
                       notifier, outbox, delivered, ctxVars, closer>>
    BY DEF HandlerReturns
  <1>2. tokens' \in 0 .. MaxConcurrentRequests /\ outbox' \in Seq(Responses)
    BY <1>1 DEF IInv, TypeOK
  <1>3. /\ TypeOK' /\ InOrder' /\ StartedBefore'
        /\ \A q \in Requests : Waiting(q)' <=> Waiting(q)
        /\ \A q \in Requests : q # r => worker'[q] = worker[q]
        /\ worker'[r] = "responding"
    BY <1>1, <1>2, WorkerFrame DEF WorkerStates
  <1>4. TokensConserved'
    <2>1. Active' = Active
      BY <1>1, <1>3 DEF Active
    <2> QED BY <1>1, <2>1 DEF IInv, TokensConserved
  <1>5. Sent' = Sent /\ \A q : Answered(q)' <=> Answered(q)
    BY <1>1 DEF Sent, Answered
  <1>6. AnsweredApart'
    <2>1. ASSUME NEW q \in Requests, Answered(q)
          PROVE  /\ q <= arrived' /\ ~Waiting(q)'
                 /\ worker'[q] \notin {"handling", "responding"}
      BY <1>1, <1>3, <2>1 DEF IInv, AnsweredApart
    <2> QED BY <1>5, <2>1 DEF IInv, AnsweredApart
  <1>7. NoRequestLost'
    <2>1. 1 .. arrived \subseteq Requests
      BY ConstantsAssumption DEF IInv, TypeOK, Requests
    <2>2. \A q \in 1 .. arrived : ResponsesTo(q)' = ResponsesTo(q)
      BY <1>1 DEF ResponsesTo
    <2> QED BY <1>1, <1>3, <2>1, <2>2 DEF IInv, NoRequestLost, ctxVars
  <1> QED BY <1>3, <1>4, <1>6, <1>7 DEF IInv

\* The only response to a request that was handled.
LEMMA WorkerRespondsStep ==
    ASSUME IInv, NEW r \in Requests, WorkerResponds(r)
    PROVE  IInv'
  <1>1. /\ worker[r] = "responding" /\ worker' = [worker EXCEPT ![r] = "releasing"]
        /\ UNCHANGED <<arrived, inbox, notifications, reader, queue, disp, tokens,
                       notifier, delivered, ctxVars, closer>>
    BY DEF WorkerResponds
  <1>2. /\ outbox' \in Seq(Responses)
        /\ \/ Sent' = Append(Sent, Response(r, "result"))
           \/ Sent' = Sent /\ (transportDone \/ r \in Unencodable)
    <2>1. CASE r \in Unencodable
      BY <1>1, <2>1 DEF IInv, TypeOK, WorkerResponds, Sent
    <2>2. CASE r \notin Unencodable
      BY <1>1, <2>2, SentOne DEF IInv, WorkerResponds
    <2> QED BY <2>1, <2>2
  <1>3. /\ TypeOK' /\ InOrder' /\ StartedBefore'
        /\ \A q \in Requests : Waiting(q)' <=> Waiting(q)
        /\ \A q \in Requests : q # r => worker'[q] = worker[q]
        /\ worker'[r] = "releasing" /\ r <= arrived /\ ~Waiting(r)
    <2>1. tokens' \in 0 .. MaxConcurrentRequests
      BY <1>1 DEF IInv, TypeOK
    <2> QED BY <1>1, <1>2, <2>1, WorkerFrame DEF WorkerStates
  <1>4. TokensConserved'
    <2>1. Active' = Active
      BY <1>1, <1>3 DEF Active
    <2> QED BY <1>1, <2>1 DEF IInv, TokensConserved
  <1>5. ~Answered(r)
    BY <1>1 DEF IInv, AnsweredApart
  <1>6. 1 .. arrived \subseteq Requests
    BY ConstantsAssumption DEF IInv, TypeOK, Requests
  <1>7. CASE Sent' = Append(Sent, Response(r, "result"))
    <2>1. \A q \in Requests : Answered(q)' <=> Answered(q) \/ q = r
      BY <1>7, AnsweredOneMore DEF IInv
    <2>2. AnsweredApart'
      <3>1. \A j, k \in DOMAIN Sent' : Sent'[j].id = Sent'[k].id => j = k
        BY <1>5, <1>7, AnsweredOneMore DEF IInv
      <3>2. ASSUME NEW q \in Requests, Answered(q)'
            PROVE  /\ q <= arrived' /\ ~Waiting(q)'
                   /\ worker'[q] \notin {"handling", "responding"}
        BY <1>1, <1>3, <2>1, <3>2 DEF IInv, AnsweredApart
      <3> QED BY <3>1, <3>2 DEF AnsweredApart
    <2>3. NoRequestLost'
      <3> SUFFICES ASSUME NEW q \in 1 .. arrived
                   PROVE  \/ Waiting(q)'
                          \/ worker'[q] \in {"handling", "responding"}
                          \/ Answered(q)'
                          \/ ctxDone \/ transportDone
                          \/ q \in Unencodable
        BY <1>1, AnsweredResponses
           DEF NoRequestLost, Answered, ResponsesTo, Sent, ctxVars
      <3> QED BY <1>3, <1>6, <2>1, AnsweredResponses DEF IInv, NoRequestLost
    <2> QED BY <1>3, <1>4, <2>2, <2>3 DEF IInv
  <1>8. CASE Sent' = Sent /\ (transportDone \/ r \in Unencodable)
    <2>1. \A q : Answered(q)' <=> Answered(q)
      BY <1>8 DEF Answered
    <2>2. AnsweredApart'
      <3>1. ASSUME NEW q \in Requests, Answered(q)
            PROVE  /\ q <= arrived' /\ ~Waiting(q)'
                   /\ worker'[q] \notin {"handling", "responding"}
        BY <1>1, <1>3, <3>1 DEF IInv, AnsweredApart
      <3> QED BY <1>8, <2>1, <3>1 DEF IInv, AnsweredApart
    <2>3. NoRequestLost'
      <3> SUFFICES ASSUME NEW q \in 1 .. arrived
                   PROVE  \/ Waiting(q)'
                          \/ worker'[q] \in {"handling", "responding"}
                          \/ Answered(q)
                          \/ ctxDone \/ transportDone
                          \/ q \in Unencodable
        BY <1>1, <1>8, <2>1, AnsweredResponses
           DEF NoRequestLost, Answered, ResponsesTo, Sent, ctxVars
      <3> QED BY <1>3, <1>6, <1>8, AnsweredResponses DEF IInv, NoRequestLost
    <2> QED BY <1>3, <1>4, <2>2, <2>3 DEF IInv
  <1> QED BY <1>2, <1>7, <1>8

\* The token goes back.
LEMMA WorkerReleasesStep ==
    ASSUME IInv, NEW r \in Requests, WorkerReleases(r)
    PROVE  IInv'
  <1>1. /\ worker[r] = "releasing" /\ worker' = [worker EXCEPT ![r] = "done"]
        /\ tokens < MaxConcurrentRequests /\ tokens' = tokens + 1
        /\ UNCHANGED <<arrived, inbox, notifications, reader, queue, disp,
                       notifier, outbox, delivered, ctxVars, closer>>
    BY DEF WorkerReleases
  <1>2. tokens \in Nat /\ tokens' \in 0 .. MaxConcurrentRequests
    BY <1>1, ConstantsAssumption DEF IInv, TypeOK
  <1>3. /\ TypeOK' /\ InOrder' /\ StartedBefore'
        /\ \A q \in Requests : Waiting(q)' <=> Waiting(q)
        /\ \A q \in Requests : q # r => worker'[q] = worker[q]
        /\ worker'[r] = "done"
    <2>1. outbox' \in Seq(Responses)
      BY <1>1 DEF IInv, TypeOK
    <2> QED BY <1>1, <1>2, <2>1, WorkerFrame DEF WorkerStates
  <1>4. TokensConserved'
    <2>1. Active' = Active \ {r} /\ r \in Active
      BY <1>1, <1>3 DEF Active
    <2>2. Cardinality(Active') = Cardinality(Active) - 1
      BY <2>1, ActiveFinite, FS_RemoveElement
    <2> QED BY <1>1, <1>2, <2>2, ActiveFinite DEF IInv, TokensConserved
  <1>5. Sent' = Sent /\ \A q : Answered(q)' <=> Answered(q)
    BY <1>1 DEF Sent, Answered
  <1>6. AnsweredApart'
    <2>1. ASSUME NEW q \in Requests, Answered(q)
          PROVE  /\ q <= arrived' /\ ~Waiting(q)'
                 /\ worker'[q] \notin {"handling", "responding"}
      BY <1>1, <1>3, <2>1 DEF IInv, AnsweredApart
    <2> QED BY <1>5, <2>1 DEF IInv, AnsweredApart
  <1>7. NoRequestLost'
    <2>1. 1 .. arrived \subseteq Requests
      BY ConstantsAssumption DEF IInv, TypeOK, Requests
    <2>2. \A q \in 1 .. arrived : ResponsesTo(q)' = ResponsesTo(q)
      BY <1>1 DEF ResponsesTo
    <2> QED BY <1>1, <1>3, <2>1, <2>2 DEF IInv, NoRequestLost, ctxVars
  <1> QED BY <1>3, <1>4, <1>6, <1>7 DEF IInv

(***************************************************************************)
(* The theorems                                                            *)
(***************************************************************************)
\* The server as Start leaves it.
LEMMA InitHolds == Init => IInv
  <1> SUFFICES ASSUME Init PROVE IInv
    OBVIOUS
  <1>1. TypeOK
    <2>1. /\ arrived \in 0 .. MaxRequests /\ notifications \in 0 .. ChannelSize
          /\ tokens \in 0 .. MaxConcurrentRequests
      BY ConstantsAssumption DEF Init
    <2>2. <<>> \in Seq(Requests) /\ <<>> \in Seq(Responses)
      OBVIOUS
    <2>3. worker \in [Requests -> WorkerStates]
      BY DEF Init, WorkerStates
    <2> QED BY <2>1, <2>2, <2>3 DEF Init, TypeOK
  <1>2. TokensConserved
    <2>1. Active = {}
      BY DEF Init, Active
    <2> QED BY <2>1, FS_EmptySet, ConstantsAssumption DEF Init, TokensConserved
  <1>3. InOrder
    BY DEF Init, InOrder, Increasing, Idle
  <1>4. StartedBefore
    BY DEF Init, StartedBefore
  <1>5. Sent = <<>>
    BY DEF Init, Sent
  <1>6. AnsweredApart
    BY <1>5 DEF AnsweredApart, Answered
  <1>7. NoRequestLost
    BY DEF Init, NoRequestLost
  <1> QED BY <1>1, <1>2, <1>3, <1>4, <1>6, <1>7 DEF IInv

\* Nothing changes.
LEMMA StutteringStep ==
    ASSUME IInv, UNCHANGED vars
    PROVE  IInv'
  <1> USE DEF vars, ctxVars
  <1>1. TypeOK' /\ TokensConserved'
    BY DEF IInv, TypeOK, TokensConserved, Active
  <1>2. InOrder'
    BY DEF IInv, InOrder, Increasing
  <1>3. (\A r \in Requests : Waiting(r)' <=> Waiting(r)) /\ Sent' = Sent
    BY DEF Waiting, InSeq, Sent
  <1>4. StartedBefore'
    BY <1>3 DEF IInv, StartedBefore
  <1>5. AnsweredApart'
    BY <1>3 DEF IInv, AnsweredApart, Answered
  <1>6. NoRequestLost'
    <2>1. \A r : ResponsesTo(r)' = ResponsesTo(r)
      BY DEF ResponsesTo
    <2>2. 1 .. arrived \subseteq Requests
      BY ConstantsAssumption DEF IInv, TypeOK, Requests
    <2> SUFFICES ASSUME NEW r \in 1 .. arrived
                 PROVE  \/ Waiting(r)
                        \/ worker[r] \in {"handling", "responding"}
                        \/ ResponsesTo(r) # {}
                        \/ ctxDone \/ transportDone
                        \/ r \in Unencodable
      BY <1>3, <2>1, <2>2 DEF NoRequestLost
    <2> QED BY DEF IInv, NoRequestLost
  <1> QED BY <1>1, <1>2, <1>4, <1>5, <1>6 DEF IInv

\* The invariant is inductive.
LEMMA Invariant == Spec => []IInv
  <1>1. IInv /\ [Next]_vars => IInv'
    <2> SUFFICES ASSUME IInv, [Next]_vars PROVE IInv'
      OBVIOUS
    <2>1. CASE Environment
      BY <2>1, RequestArrivesStep, AsideStep DEF Environment, Aside
    <2>2. CASE Reader
      BY <2>2, ReaderTakesStep, ReaderEnqueuesStep, ReaderRefusesStep,
         ReaderSendsOverloadedStep, ExitStep DEF Reader
    <2>3. CASE Dispatcher
      BY <2>3, DispTakesStep, DispStartsStep, ExitStep DEF Dispatcher
    <2>4. CASE Notifier \/ CloseCancels \/ CloseTransport
      BY <2>4, AsideStep DEF Aside
    <2>5. CASE \E r \in Requests : Worker(r)
      BY <2>5, HandlerReturnsStep, WorkerRespondsStep, WorkerReleasesStep DEF Worker
    <2>6. CASE UNCHANGED vars
      BY <2>6, StutteringStep
    <2> QED BY <2>1, <2>2, <2>3, <2>4, <2>5, <2>6 DEF Next
  <1> QED BY <1>1, InitHolds, PTL DEF Spec

\* Tokens of the worker pool (server.go:155, :370, :385) are neither lost nor made:
\* never do more than MaxConcurrentRequests handlers run, and the deferred
\* release of a token never blocks.
THEOREM WorkersBounded == Spec => []Inv
  <1>1. IInv => Inv
    BY DEF IInv, Inv
  <1> QED BY <1>1, Invariant, PTL

\* Workers are started in the order in which requests arrive, through both
\* channels and both goroutines between them (server.go:305-380).
THEOREM WorkersStartedInOrder == Spec => []StartedInOrder
  <1>1. IInv => StartedInOrder
    <2> SUFFICES ASSUME IInv, NEW r \in Requests, NEW q \in Requests,
                        r < q, worker[q] # "none"
                 PROVE  ~Waiting(r)
      BY DEF StartedInOrder
    <2> QED BY ConstantsAssumption DEF IInv, StartedBefore, Requests
  <1> QED BY <1>1, Invariant, PTL

\* A request that has arrived is refused, or handled and answered, at most once,
\* and not lost on the way while the server runs and its result can be encoded.
THEOREM RequestsAnsweredOnce == Spec => []AnsweredExactlyOnce
  <1>1. IInv => AnsweredExactlyOnce
    <2> SUFFICES ASSUME IInv PROVE AnsweredOnce
      BY DEF IInv, AnsweredExactlyOnce
    <2> SUFFICES ASSUME NEW r \in Requests
                 PROVE  /\ Cardinality(ResponsesTo(r)) <= 1
                        /\ Waiting(r) \/ worker[r] \in {"handling", "responding"}
                               => ResponsesTo(r) = {}
                        /\ Waiting(r) => worker[r] = "none"
      BY DEF AnsweredOnce
    <2>1. Cardinality(ResponsesTo(r)) <= 1
      <3>1. CASE ResponsesTo(r) = {}
        BY <3>1, FS_EmptySet
      <3>2. CASE ResponsesTo(r) # {}
        <4>1. PICK k : k \in ResponsesTo(r)
          BY <3>2
        <4>2. ResponsesTo(r) = {k}
          <5>1. \A j \in ResponsesTo(r) : j = k
            <6>1. ResponsesTo(r) = {j \in DOMAIN Sent : Sent[j].id = r}
              BY DEF ResponsesTo, Sent
            <6> QED BY <4>1, <6>1 DEF IInv, AnsweredApart
          <5> QED BY <4>1, <5>1
        <4>3. Cardinality(ResponsesTo(r)) = 1
          BY <4>2, FS_Singleton
        <4> QED BY <4>3
      <3> QED BY <3>1, <3>2
    <2>2. Waiting(r) \/ worker[r] \in {"handling", "responding"} => ResponsesTo(r) = {}
      BY AnsweredResponses DEF IInv, AnsweredApart
    <2>3. Waiting(r) => worker[r] = "none"
      BY WaitingHasNone DEF IInv
    <2> QED BY <2>1, <2>2, <2>3
  <1> QED BY <1>1, Invariant, PTL

-----------------------------------------------------------------------------
(***************************************************************************)
(* ServerCatalog: what the server offers, and what its client knows of it. *)
(***************************************************************************)
\* An answer that has been made and has not reached the client.
InHand(m) == (work.at = "answer" /\ work.message = m) \/ OnItsWay(m)

\* The client is answered once, when its request has been.
OneAnswer ==
    \A i \in DOMAIN toClient : toClient[i].type # "notification" =>
        /\ work.at = "sent"
        /\ \A j \in DOMAIN toClient : toClient[j].type # "notification" => i = j

\* A list on its way to the client is the current one, or news is due as well.
OldListIsDue ==
    \A k \in Announced : \A l \in Catalogs :
        InHand(ListAnswer(k, l)) /\ l # catalog[k]
            => NewsDue(k) \/ connectionDone

\* The same of a failure that the client's list does not explain.
MissIsDue ==
    \A k \in Announced, n \in Names :
        InHand(CallAnswer(k, n, FALSE)) /\ view[k][n] # Absent
            => NewsDue(k) \/ connectionDone

\* A handler runs for a call of something that was found.
HandlerFound ==
    work.at = "handler" => work.message.type = "call" /\ work.message.found = TRUE

\* A goroutine has one change to announce at a time.
OneKind == \A u \in Updaters : \A k, l \in updater[u] : k = l

CatalogIInv ==
    /\ CatalogTypeOK
    /\ StaleViewIsDue
    /\ OneAnswer
    /\ OldListIsDue
    /\ MissIsDue
    /\ HandlerFound
    /\ OneKind

CatalogMessage == Answer \cup [type : {"notification"}, kind : Announced]

(***************************************************************************)
(* The outgoing channel                                                    *)
(***************************************************************************)
LEMMA CatalogSends ==
    ASSUME CatalogTypeOK, NEW m \in CatalogMessage, Send(m)
    PROVE  /\ toClient' \in Seq(CatalogMessage) /\ Len(toClient') <= OutboxSize
           /\ \/ connectionDone /\ UNCHANGED toClient
              \/ /\ DOMAIN toClient' = 1 .. Len(toClient) + 1
                 /\ toClient'[Len(toClient) + 1] = m
                 /\ \A i \in DOMAIN toClient : toClient'[i] = toClient[i]
  <1>1. toClient \in Seq(CatalogMessage) /\ Len(toClient) <= OutboxSize
        /\ Len(toClient) \in Nat /\ DOMAIN toClient = 1 .. Len(toClient)
    BY DEF CatalogTypeOK, CatalogMessage
  <1>2. CASE Len(toClient) < OutboxSize /\ toClient' = Append(toClient, m)
    <2>1. /\ toClient' \in Seq(CatalogMessage) /\ Len(toClient') = Len(toClient) + 1
          /\ DOMAIN toClient' = 1 .. Len(toClient')
          /\ toClient'[Len(toClient) + 1] = m
          /\ \A i \in 1 .. Len(toClient) : toClient'[i] = toClient[i]
      BY <1>1, <1>2
    <2> QED BY <1>1, <1>2, <2>1, CatalogAssumption
  <1>3. CASE connectionDone /\ UNCHANGED toClient
    BY <1>1, <1>3
  <1> QED BY <1>2, <1>3 DEF Send

\* What is in the channel once m has been sent.
LEMMA CatalogHolds ==
    ASSUME CatalogTypeOK, NEW m \in CatalogMessage, Send(m), NEW x
    PROVE  /\ OnItsWay(x) => OnItsWay(x)'
           /\ OnItsWay(x)' => OnItsWay(x) \/ x = m
           /\ OnItsWay(m)' \/ connectionDone
  <1>1. Len(toClient) \in Nat /\ DOMAIN toClient = 1 .. Len(toClient)
    BY DEF CatalogTypeOK
  <1>2. CASE connectionDone /\ UNCHANGED toClient
    BY <1>2 DEF OnItsWay
  <1>3. CASE /\ DOMAIN toClient' = 1 .. Len(toClient) + 1
             /\ toClient'[Len(toClient) + 1] = m
             /\ \A i \in DOMAIN toClient : toClient'[i] = toClient[i]
    <2>1. /\ Len(toClient) + 1 \in DOMAIN toClient' /\ DOMAIN toClient \subseteq DOMAIN toClient'
          /\ \A i \in DOMAIN toClient' : i \in DOMAIN toClient \/ i = Len(toClient) + 1
      BY <1>1, <1>3
    <2> QED BY <1>3, <2>1 DEF OnItsWay
  <1> QED BY <1>2, <1>3, CatalogSends

\* The first message leaves the channel.
LEMMA CatalogTakes ==
    ASSUME CatalogTypeOK, toClient # <<>>, toClient' = Tail(toClient)
    PROVE  /\ toClient' \in Seq(CatalogMessage) /\ Len(toClient') <= OutboxSize
           /\ Head(toClient) \in CatalogMessage
           /\ 1 \in DOMAIN toClient /\ Head(toClient) = toClient[1]
           /\ \A i \in DOMAIN toClient' :
                  i \in Nat /\ i + 1 \in DOMAIN toClient /\ i + 1 # 1
                  /\ toClient'[i] = toClient[i + 1]
           /\ \A x : OnItsWay(x)' => OnItsWay(x)
           /\ \A x : OnItsWay(x) => OnItsWay(x)' \/ x = Head(toClient)
  <1>1. toClient \in Seq(CatalogMessage) /\ Len(toClient) <= OutboxSize
        /\ Len(toClient) \in Nat /\ DOMAIN toClient = 1 .. Len(toClient)
    BY DEF CatalogTypeOK, CatalogMessage
  <1>2. /\ toClient' \in Seq(CatalogMessage) /\ Len(toClient') = Len(toClient) - 1
        /\ Len(toClient) >= 1 /\ DOMAIN toClient' = 1 .. Len(toClient) - 1
        /\ Head(toClient) = toClient[1] /\ Head(toClient) \in CatalogMessage
        /\ \A i \in 1 .. Len(toClient) - 1 : toClient'[i] = toClient[i + 1]
    BY <1>1
  <1>3. \A i \in DOMAIN toClient' : i \in Nat /\ i + 1 \in DOMAIN toClient /\ i + 1 # 1
            /\ toClient'[i] = toClient[i + 1]
    BY <1>1, <1>2
  <1>4. \A x : OnItsWay(x)' => OnItsWay(x)
    BY <1>3 DEF OnItsWay
  <1>5. ASSUME NEW x, OnItsWay(x), x # Head(toClient)
        PROVE  OnItsWay(x)'
    <2>1. PICK i \in DOMAIN toClient : toClient[i] = x
      BY <1>5 DEF OnItsWay
    <2>2. i - 1 \in DOMAIN toClient' /\ toClient'[i - 1] = toClient[i]
      BY <1>1, <1>2, <1>5, <2>1
    <2> QED BY <2>1, <2>2 DEF OnItsWay
  <1> QED BY <1>1, <1>2, <1>3, <1>4, <1>5, CatalogAssumption

\* While there is no answer in the channel, none is in hand but the one being
\* sent.
LEMMA NoAnswerYet ==
    ASSUME OneAnswer, work.at # "sent", NEW x, x.type # "notification"
    PROVE  ~OnItsWay(x)
  BY DEF OneAnswer, OnItsWay

\* What the client's request carries.
LEMMA WorkFields ==
    ASSUME CatalogTypeOK
    PROVE  /\ work.at \in {"list", "call"} => work.kind \in Kinds
           /\ work.at = "call" => work.name \in Names
           /\ work.at \in {"handler", "answer"} => work.message \in Answer
  BY DEF CatalogTypeOK

(***************************************************************************)
(* The server's maps                                                       *)
(***************************************************************************)
LEMMA ChangeStep ==
    ASSUME CatalogIInv,
           NEW u \in Updaters, NEW k \in Kinds, NEW n \in Names,
           Register(u, k, n) \/ Unregister(u, k, n)
    PROVE  CatalogIInv'
  <1>1. /\ updater[u] = {} /\ changes < MaxChanges /\ changes' = changes + 1
        /\ \E v \in {changes + 1, 0} : catalog' = [catalog EXCEPT ![k][n] = v]
        /\ updater' = [updater EXCEPT ![u] = {k} \cap Announced]
        /\ UNCHANGED <<toClient, work, view, stale, calls, connectionDone>>
    BY DEF Register, Unregister, Absent
  <1>2. /\ catalog \in [Kinds -> [Names -> 0 .. MaxChanges]]
        /\ changes \in 0 .. MaxChanges
        /\ updater \in [Updaters -> SUBSET Announced]
    BY DEF CatalogIInv, CatalogTypeOK, Catalogs
  <1>3. PICK v \in {changes + 1, 0} : catalog' = [catalog EXCEPT ![k][n] = v]
    BY <1>1
  <1>4. catalog' \in [Kinds -> [Names -> 0 .. MaxChanges]]
    <2>1. v \in 0 .. MaxChanges
      BY <1>1, <1>2, CatalogAssumption
    <2>2. [catalog[k] EXCEPT ![n] = v] \in [Names -> 0 .. MaxChanges]
      BY <1>2, <2>1
    <2>3. catalog' = [catalog EXCEPT ![k] = [catalog[k] EXCEPT ![n] = v]]
      BY <1>3
    <2> QED BY <1>2, <2>2, <2>3
  <1>5. \A j \in Kinds : j # k => catalog'[j] = catalog[j]
    BY <1>2, <1>3
  <1>6. /\ updater' \in [Updaters -> SUBSET Announced]
        /\ updater'[u] = {k} \cap Announced
        /\ \A w \in Updaters : w # u => updater'[w] = updater[w]
    BY <1>1, <1>2
  <1>7. /\ \A j : NewsDue(j) => NewsDue(j)'
        /\ k \in Announced => NewsDue(k)'
        /\ \A m : InHand(m)' <=> InHand(m)
        /\ \A j : OnItsWay(j)' <=> OnItsWay(j)
    BY <1>1, <1>6 DEF NewsDue, OnItsWay, InHand
  <1>8. CatalogTypeOK'
    <2>1. changes' \in 0 .. MaxChanges
      BY <1>1, <1>2, CatalogAssumption
    <2> QED BY <1>1, <1>4, <1>6, <2>1 DEF CatalogIInv, CatalogTypeOK,
               Answer, Catalogs
  <1>9. Announced \subseteq Kinds
    BY CatalogAssumption
  <1>10. StaleViewIsDue'
    <2>1. \A j \in Announced : j # k /\ FreshListDue(j) => FreshListDue(j)'
      BY <1>1, <1>5, <1>7, <1>9 DEF FreshListDue
    <2> QED BY <1>1, <1>5, <1>7, <1>9, <2>1 DEF CatalogIInv, StaleViewIsDue
  <1>11. OldListIsDue' /\ MissIsDue'
    <2>1. OldListIsDue'
      <3>1. SUFFICES ASSUME NEW j \in Announced, NEW l \in Catalogs,
                            InHand(ListAnswer(j, l)), l # catalog'[j]
                     PROVE  NewsDue(j)' \/ connectionDone'
        BY <1>7 DEF OldListIsDue, ListAnswer
      <3> QED BY <1>1, <1>5, <1>7, <1>9, <3>1 DEF CatalogIInv, OldListIsDue
    <2>2. MissIsDue'
      <3>1. SUFFICES ASSUME NEW j \in Announced, NEW p \in Names,
                            InHand(CallAnswer(j, p, FALSE)),
                            view[j][p] # Absent
                     PROVE  NewsDue(j)' \/ connectionDone'
        BY <1>1, <1>7 DEF MissIsDue, CallAnswer, Absent
      <3> QED BY <1>1, <1>7, <3>1 DEF CatalogIInv, MissIsDue
    <2> QED BY <2>1, <2>2
  <1>12. OneAnswer' /\ HandlerFound'
    BY <1>1 DEF CatalogIInv, OneAnswer, HandlerFound
  <1>13. OneKind'
    BY <1>6 DEF CatalogIInv, OneKind
  <1> QED BY <1>8, <1>10, <1>11, <1>12, <1>13 DEF CatalogIInv

\* An announcement enters the channel before the goroutine forgets it.
LEMMA AnnouncesStep ==
    ASSUME CatalogIInv, NEW u \in Updaters, Announces(u)
    PROVE  CatalogIInv'
  <1>1. PICK k \in updater[u] :
           /\ Send(Announcement(k))
           /\ updater' = [updater EXCEPT ![u] = {}]
           /\ UNCHANGED <<catalog, changes, work, view, stale, calls, connectionDone>>
    BY DEF Announces
  <1> DEFINE a == Announcement(k)
  <1>2. /\ CatalogTypeOK /\ a \in CatalogMessage /\ a.type = "notification"
        /\ updater \in [Updaters -> SUBSET Announced]
        /\ Len(toClient) \in Nat /\ DOMAIN toClient = 1 .. Len(toClient)
        /\ k \in Announced
    <2>1. updater \in [Updaters -> SUBSET Announced] /\ CatalogTypeOK
      BY DEF CatalogIInv, CatalogTypeOK
    <2>2. k \in Announced
      BY <2>1
    <2>3. Len(toClient) \in Nat /\ DOMAIN toClient = 1 .. Len(toClient)
      BY DEF CatalogIInv, CatalogTypeOK
    <2> QED BY <2>1, <2>2, <2>3 DEF Announcement, CatalogMessage
  <1>3. /\ \A x : OnItsWay(x) => OnItsWay(x)'
        /\ \A x : OnItsWay(x)' => OnItsWay(x) \/ x = a
        /\ OnItsWay(a)' \/ connectionDone
    <2> HIDE DEF a
    <2>1. Send(a)
      BY <1>1 DEF a
    <2> QED BY <1>2, <2>1, CatalogHolds
  <1>4. /\ updater' \in [Updaters -> SUBSET Announced] /\ updater'[u] = {}
        /\ \A w \in Updaters : w # u => updater'[w] = updater[w]
    BY <1>1, <1>2
  <1>5. \A j : NewsDue(j) => NewsDue(j)' \/ connectionDone
    <2>1. \A j \in updater[u] : j = k
      BY <1>1 DEF CatalogIInv, OneKind
    <2>2. \A j : Announcement(j)' = Announcement(j)
      BY DEF Announcement
    <2> QED BY <1>1, <1>3, <1>4, <2>1, <2>2 DEF NewsDue
  <1>6. \A x : x.type # "notification" => (InHand(x)' <=> InHand(x))
    BY <1>1, <1>2, <1>3 DEF InHand
  <1>7. CatalogTypeOK'
    <2>1. toClient' \in Seq(CatalogMessage) /\ Len(toClient') <= OutboxSize
      BY <1>1, <1>2, CatalogSends
    <2> QED BY <1>1, <1>4, <2>1 DEF CatalogIInv, CatalogTypeOK, CatalogMessage,
               Answer, Catalogs
  <1>8. StaleViewIsDue'
    <2>1. \A j : FreshListDue(j) => FreshListDue(j)'
      BY <1>1, <1>3 DEF FreshListDue, ListAnswer
    <2> QED BY <1>1, <1>5, <2>1 DEF CatalogIInv, StaleViewIsDue
  <1>9. OldListIsDue'
    <2>1. SUFFICES ASSUME NEW j \in Announced, NEW l \in Catalogs,
                          InHand(ListAnswer(j, l)), l # catalog[j]
                   PROVE  NewsDue(j)' \/ connectionDone'
      BY <1>1, <1>6 DEF OldListIsDue, ListAnswer, Catalogs
    <2> QED BY <1>1, <1>5, <2>1 DEF CatalogIInv, OldListIsDue
  <1>10. MissIsDue'
    <2>1. SUFFICES ASSUME NEW j \in Announced, NEW p \in Names,
                          InHand(CallAnswer(j, p, FALSE)),
                          view[j][p] # Absent
                   PROVE  NewsDue(j)' \/ connectionDone'
      BY <1>1, <1>6 DEF MissIsDue, CallAnswer, Absent
    <2> QED BY <1>1, <1>5, <2>1 DEF CatalogIInv, MissIsDue
  <1>11. OneAnswer'
    <2>1. \/ connectionDone /\ UNCHANGED toClient
          \/ /\ DOMAIN toClient' = 1 .. Len(toClient) + 1
             /\ toClient'[Len(toClient) + 1] = a
             /\ \A i \in DOMAIN toClient : toClient'[i] = toClient[i]
      BY <1>1, <1>2, CatalogSends
    <2>2. \A i \in DOMAIN toClient' : toClient'[i].type # "notification" =>
              i \in DOMAIN toClient /\ toClient[i].type # "notification"
      BY <1>2, <2>1
    <2> QED BY <1>1, <2>2 DEF CatalogIInv, OneAnswer
  <1>12. HandlerFound' /\ OneKind'
    BY <1>1, <1>4 DEF CatalogIInv, HandlerFound, OneKind
  <1> QED BY <1>7, <1>8, <1>9, <1>10, <1>11, <1>12 DEF CatalogIInv

(***************************************************************************)
(* The server's handlers                                                   *)
(***************************************************************************)

\* As long as neither the maps nor what is due change, a step of the server is
\* about the request in its hands.
LEMMA RequestMoves ==
    ASSUME CatalogIInv,
           UNCHANGED <<catalog, changes, updater, toClient, view, stale, calls,
                       connectionDone>>,
           work.at # "sent",
           work' \in [at : {"handler", "answer"}, message : Answer],
           HandlerFound',
           \A k \in Announced : \A l \in Catalogs :
               work'.at = "answer" /\ work'.message = ListAnswer(k, l)
                   => l = catalog[k],
           \A k \in Announced, n \in Names :
               /\ work'.at = "answer"
               /\ work'.message = CallAnswer(k, n, FALSE)
               /\ view[k][n] # Absent
               => NewsDue(k) \/ connectionDone,
           \A k \in Announced :
               FreshListDue(k) => FreshListDue(k)'
    PROVE  CatalogIInv'
  <1>1. CatalogTypeOK'
    BY DEF CatalogIInv, CatalogTypeOK, Answer, Catalogs
  <1>2. \A k : /\ NewsDue(k)' <=> NewsDue(k)
               /\ OnItsWay(k)' <=> OnItsWay(k)
    BY DEF NewsDue, OnItsWay
  <1>3. StaleViewIsDue'
    BY <1>2 DEF CatalogIInv, StaleViewIsDue
  <1>4. \A x : x.type # "notification" => ~OnItsWay(x)
    BY NoAnswerYet DEF CatalogIInv
  <1>5. OldListIsDue'
    <2>1. \A k, l : ListAnswer(k, l).type # "notification"
      BY DEF ListAnswer
    <2>2. \A k \in Announced : \A l \in Catalogs :
              InHand(ListAnswer(k, l))' => l = catalog[k]
      BY <1>2, <1>4, <2>1 DEF InHand, ListAnswer
    <2> QED BY <2>2 DEF OldListIsDue, InHand, ListAnswer, Catalogs
  <1>6. MissIsDue'
    <2>1. \A k, n : CallAnswer(k, n, FALSE).type # "notification"
      BY DEF CallAnswer
    <2>2. \A k \in Announced, n \in Names :
              InHand(CallAnswer(k, n, FALSE))'
                  => /\ work'.at = "answer"
                     /\ work'.message = CallAnswer(k, n, FALSE)
      BY <1>2, <1>4, <2>1 DEF InHand, CallAnswer
    <2> QED BY <1>2, <2>2 DEF MissIsDue, Absent, InHand, CallAnswer
  <1>7. OneAnswer' /\ OneKind'
    BY DEF CatalogIInv, OneAnswer, OneKind
  <1> QED BY <1>1, <1>3, <1>5, <1>6, <1>7 DEF CatalogIInv

\* A list shows what is there; a call that finds nothing was made of a list that
\* is out of date, and no other is under way.
LEMMA HandlersStep ==
    ASSUME CatalogIInv,
           Lists \/ LooksUp \/ CalledHandlerReturns
    PROVE  CatalogIInv'
  <1>0. /\ CatalogTypeOK /\ Announced \subseteq Kinds
        /\ catalog \in [Kinds -> Catalogs]
    BY CatalogAssumption DEF CatalogIInv, CatalogTypeOK
  <1>1. UNCHANGED <<catalog, changes, updater, toClient, view, stale, calls,
                    connectionDone>>
    BY DEF Lists, LooksUp, CalledHandlerReturns
  <1>2. \A k : OnItsWay(k)' <=> OnItsWay(k)
    BY <1>1 DEF OnItsWay
  <1>3. CASE Lists
    <2>1. /\ work.at = "list" /\ work.kind \in Kinds
          /\ work' = [at |-> "answer",
                      message |-> ListAnswer(work.kind, catalog[work.kind])]
      BY <1>0, <1>3, WorkFields DEF Lists
    <2>2. ListAnswer(work.kind, catalog[work.kind]) \in Answer
      BY <1>0, <2>1 DEF ListAnswer, Answer
    <2>3. work' \in [at : {"handler", "answer"}, message : Answer]
      BY <2>1, <2>2
    <2>4. \A k \in Announced : \A l \in Catalogs :
              work'.message = ListAnswer(k, l) => l = catalog[k]
      BY <2>1 DEF ListAnswer
    <2>5. \A k, n : work'.message # CallAnswer(k, n, FALSE)
      BY <2>1 DEF ListAnswer, CallAnswer
    <2>6. \A k \in Announced : FreshListDue(k) => FreshListDue(k)'
      BY <1>1, <1>2, <2>1 DEF FreshListDue, ListAnswer
    <2>7. HandlerFound' /\ work.at # "sent"
      BY <2>1 DEF HandlerFound
    <2> QED BY <1>1, <2>3, <2>4, <2>5, <2>6, <2>7, RequestMoves
  <1>4. CASE LooksUp
    <2>1. /\ work.at = "call" /\ work.kind \in Kinds /\ work.name \in Names
          /\ work' = [at |-> IF catalog[work.kind][work.name] = Absent
                             THEN "answer" ELSE "handler",
                      message |-> CallAnswer(work.kind, work.name,
                                     catalog[work.kind][work.name] # Absent)]
      BY <1>0, <1>4, WorkFields DEF LooksUp
    <2> DEFINE found == catalog[work.kind][work.name] # Absent
    <2>2. /\ work'.message.type = "call" /\ work'.message.found = found
          /\ work'.message.kind = work.kind /\ work'.message.name = work.name
          /\ work'.at = IF found THEN "handler" ELSE "answer"
      BY <2>1 DEF CallAnswer
    <2>3. work' \in [at : {"handler", "answer"}, message : Answer]
      <3>1. found \in BOOLEAN
        OBVIOUS
      <3>2. CallAnswer(work.kind, work.name, found) \in Answer
        <4> HIDE DEF found
        <4> QED BY <2>1, <3>1 DEF CallAnswer, Answer
      <3> QED BY <2>1, <3>2
    <2>4. \A k, l : work'.message # ListAnswer(k, l)
      BY <2>2 DEF ListAnswer
    <2>5. ASSUME NEW k \in Announced, NEW n \in Names, work'.at = "answer",
                 work'.message = CallAnswer(k, n, FALSE),
                 view[k][n] # Absent
          PROVE  NewsDue(k) \/ connectionDone
      <3>1. k = work.kind /\ n = work.name /\ catalog[k][n] = Absent
        BY <2>2, <2>5 DEF CallAnswer
      <3>2. view[k] # catalog[k]
        BY <2>5, <3>1
      <3>3. ~FreshListDue(k)
        BY <2>1, NoAnswerYet DEF CatalogIInv, FreshListDue, ListAnswer
      <3> QED BY <3>2, <3>3 DEF CatalogIInv, StaleViewIsDue
    <2>6. \A k \in Announced : FreshListDue(k) => FreshListDue(k)'
      BY <1>1, <1>2, <2>1 DEF FreshListDue, ListAnswer
    <2>7. HandlerFound' /\ work.at # "sent"
      BY <2>1, <2>2 DEF HandlerFound
    <2> QED BY <1>1, <2>3, <2>4, <2>5, <2>6, <2>7, RequestMoves
  <1>5. CASE CalledHandlerReturns
    <2>1. work.at = "handler" /\ work' = [work EXCEPT !.at = "answer"]
      BY <1>5 DEF CalledHandlerReturns
    <2>2. /\ work.message.type = "call" /\ work.message.found = TRUE
          /\ work \in [at : {"handler", "answer"}, message : Answer]
      BY <2>1 DEF CatalogIInv, HandlerFound, CatalogTypeOK
    <2>3. /\ work' \in [at : {"handler", "answer"}, message : Answer]
          /\ work'.at = "answer" /\ work'.message = work.message
      BY <2>1, <2>2
    <2>4. /\ \A k, l : work'.message # ListAnswer(k, l)
          /\ \A k, n : work'.message # CallAnswer(k, n, FALSE)
      BY <2>2, <2>3 DEF ListAnswer, CallAnswer
    <2>5. \A k \in Announced : FreshListDue(k) => FreshListDue(k)'
      BY <1>1, <1>2, <2>1 DEF FreshListDue, ListAnswer
    <2>6. HandlerFound' /\ work.at # "sent"
      BY <2>1, <2>3 DEF HandlerFound
    <2> QED BY <1>1, <2>3, <2>4, <2>5, <2>6, RequestMoves
  <1> QED BY <1>3, <1>4, <1>5

\* The answer enters the channel as the only one in it.
LEMMA AnswersStep ==
    ASSUME CatalogIInv, Answers
    PROVE  CatalogIInv'
  <1>0. PICK m : m = work.message
    OBVIOUS
  <1>1. /\ work.at = "answer" /\ Send(m) /\ work' = [at |-> "sent"]
        /\ UNCHANGED <<catalog, changes, updater, view, stale, calls, connectionDone>>
    BY <1>0 DEF Answers
  <1>2. /\ CatalogTypeOK /\ m \in CatalogMessage /\ m.type # "notification"
        /\ Len(toClient) \in Nat /\ DOMAIN toClient = 1 .. Len(toClient)
    <2>1. CatalogTypeOK /\ m \in Answer
      BY <1>0, <1>1, WorkFields DEF CatalogIInv
    <2> QED BY <2>1 DEF CatalogMessage, Answer, CatalogTypeOK
  <1>3. /\ \A x : OnItsWay(x) => OnItsWay(x)'
        /\ \A x : OnItsWay(x)' => OnItsWay(x) \/ x = m
        /\ OnItsWay(m)' \/ connectionDone
    BY <1>1, <1>2, CatalogHolds
  <1>4. /\ \A x : InHand(x)' => InHand(x)
        /\ \A j : NewsDue(j) => NewsDue(j)'
    BY <1>0, <1>1, <1>3 DEF InHand, NewsDue, Announcement
  <1>5. CatalogTypeOK'
    <2>1. toClient' \in Seq(CatalogMessage) /\ Len(toClient') <= OutboxSize
      BY <1>1, <1>2, CatalogSends
    <2> QED BY <1>1, <2>1 DEF CatalogIInv, CatalogTypeOK, CatalogMessage,
               Answer, Catalogs
  <1>6. StaleViewIsDue'
    <2>1. \A j : FreshListDue(j) => FreshListDue(j)' \/ connectionDone
      BY <1>0, <1>1, <1>3 DEF FreshListDue, ListAnswer
    <2> QED BY <1>1, <1>4, <2>1 DEF CatalogIInv, StaleViewIsDue
  <1>7. OldListIsDue'
    <2>1. \A k, l : InHand(ListAnswer(k, l))' => InHand(ListAnswer(k, l))
      BY <1>4 DEF ListAnswer
    <2> QED BY <1>1, <1>4, <2>1 DEF CatalogIInv, OldListIsDue, Catalogs
  <1>8. MissIsDue'
    <2>1. \A k, n : InHand(CallAnswer(k, n, FALSE))'
                        => InHand(CallAnswer(k, n, FALSE))
      BY <1>4 DEF CallAnswer
    <2> QED BY <1>1, <1>4, <2>1 DEF CatalogIInv, MissIsDue, Absent
  <1>9. OneAnswer'
    <2>1. \A i \in DOMAIN toClient : toClient[i].type = "notification"
      BY <1>1 DEF CatalogIInv, OneAnswer
    <2>2. \/ connectionDone /\ UNCHANGED toClient
          \/ /\ DOMAIN toClient' = 1 .. Len(toClient) + 1
             /\ \A i \in DOMAIN toClient : toClient'[i] = toClient[i]
      BY <1>1, <1>2, CatalogSends
    <2>3. \A i \in DOMAIN toClient' : toClient'[i].type # "notification" =>
              i = Len(toClient) + 1
      BY <1>2, <2>1, <2>2
    <2> QED BY <1>1, <2>3 DEF OneAnswer
  <1>10. HandlerFound' /\ OneKind'
    BY <1>1 DEF CatalogIInv, HandlerFound, OneKind
  <1> QED BY <1>5, <1>6, <1>7, <1>8, <1>9, <1>10 DEF CatalogIInv

(***************************************************************************)
(* The client and the transport                                            *)
(***************************************************************************)

\* A client that asks has nothing in hand.
LEMMA ClientAsks ==
    ASSUME CatalogIInv,
           \E k \in Kinds : \/ ClientLists(k)
                            \/ \E n \in Names : ClientCalls(k, n)
    PROVE  CatalogIInv'
  <1>1. /\ work.at = "idle"
        /\ UNCHANGED <<catalog, changes, updater, toClient, view, connectionDone>>
    BY DEF ClientLists, ClientCalls, Nothing
  <1>2. \A x : x.type # "notification" => ~OnItsWay(x)
    BY <1>1, NoAnswerYet DEF CatalogIInv
  <1>3. work'.at \in {"list", "call"}
    BY DEF ClientLists, ClientCalls
  <1>4. \A x : x.type # "notification" => ~InHand(x)'
    BY <1>1, <1>2, <1>3 DEF InHand, OnItsWay
  <1>5. OldListIsDue'
    BY <1>4 DEF OldListIsDue, ListAnswer
  <1>6. MissIsDue'
    BY <1>4 DEF MissIsDue, CallAnswer
  <1>7. OneAnswer'
    <2>1. \A i \in DOMAIN toClient : toClient[i].type = "notification"
      BY <1>1 DEF CatalogIInv, OneAnswer
    <2> QED BY <1>1, <2>1 DEF OneAnswer
  <1>8. HandlerFound' /\ OneKind'
    BY <1>1, <1>3 DEF CatalogIInv, HandlerFound, OneKind
  <1>9. \A k : ~FreshListDue(k)
    BY <1>1, <1>2 DEF FreshListDue, ListAnswer
  <1>10. StaleViewIsDue'
    <2>1. ASSUME NEW k \in Kinds, ClientLists(k)
          PROVE  \A j \in Announced : NewsDue(j) =>
                     NewsDue(j)' \/ FreshListDue(j)'
      BY <1>1, <2>1 DEF ClientLists, NewsDue, FreshListDue,
         OnItsWay, Announcement
    <2>2. ASSUME NEW k \in Kinds, NEW n \in Names, ClientCalls(k, n)
          PROVE  \A j \in Announced : NewsDue(j) => NewsDue(j)'
      BY <1>1, <2>2 DEF ClientCalls, NewsDue, OnItsWay,
         Announcement
    <2> QED BY <1>1, <1>9, <2>1, <2>2 DEF CatalogIInv, StaleViewIsDue
  <1>11. CatalogTypeOK'
    <2>1. ASSUME NEW k \in Kinds, ClientLists(k)
          PROVE  CatalogTypeOK'
      BY <2>1 DEF ClientLists, CatalogIInv, CatalogTypeOK, Answer,
         Catalogs
    <2>2. ASSUME NEW k \in Kinds, NEW n \in Names, ClientCalls(k, n)
          PROVE  CatalogTypeOK'
      <3>1. calls' \in 0 .. MaxCalls
        BY <2>2, CatalogAssumption DEF ClientCalls, CatalogIInv, CatalogTypeOK
      <3> QED BY <2>2, <3>1 DEF ClientCalls, CatalogIInv, CatalogTypeOK,
                 Answer, Catalogs
    <2> QED BY <2>1, <2>2
  <1> QED BY <1>5, <1>6, <1>7, <1>8, <1>10, <1>11 DEF CatalogIInv

\* News the client gets is not forgotten, and no answer follows an answer.
LEMMA DeliversStep ==
    ASSUME CatalogIInv, Delivers
    PROVE  CatalogIInv'
  <1> DEFINE m == Head(toClient)
  <1>1. /\ toClient # <<>> /\ toClient' = Tail(toClient) /\ ~connectionDone
        /\ UNCHANGED <<catalog, changes, updater, calls, connectionDone>>
        /\ \/ /\ m.type = "notification" /\ stale' = stale \cup {m.kind}
              /\ UNCHANGED <<work, view>>
           \/ /\ m.type = "list" /\ view' = [view EXCEPT ![m.kind] = m.list]
              /\ work' = Nothing /\ UNCHANGED stale
           \/ /\ m.type = "call" /\ work' = Nothing
              /\ UNCHANGED <<view, stale>>
    BY DEF Delivers
  <1>2. /\ toClient' \in Seq(CatalogMessage) /\ Len(toClient') <= OutboxSize
        /\ m \in CatalogMessage /\ 1 \in DOMAIN toClient /\ m = toClient[1]
        /\ \A i \in DOMAIN toClient' : i \in Nat /\ i + 1 \in DOMAIN toClient /\ i + 1 # 1
                                     /\ toClient'[i] = toClient[i + 1]
        /\ \A x : OnItsWay(x)' => OnItsWay(x)
        /\ \A x : OnItsWay(x) => OnItsWay(x)' \/ x = m
    BY <1>1, CatalogTakes DEF CatalogIInv
  <1> HIDE DEF m
  <1>3. /\ view \in [Kinds -> Catalogs] /\ stale \subseteq Kinds
        /\ Announced \subseteq Kinds
    BY CatalogAssumption DEF CatalogIInv, CatalogTypeOK
  <1>4. CASE m.type = "notification"
    <2>1. m.kind \in Announced /\ m = Announcement(m.kind)
      BY <1>2, <1>4 DEF CatalogMessage, Answer, Announcement
    <2>2. stale' = stale \cup {m.kind} /\ UNCHANGED <<work, view>>
      BY <1>1, <1>4
    <2>3. CatalogTypeOK'
      BY <1>1, <1>2, <1>3, <2>1, <2>2 DEF CatalogIInv, CatalogTypeOK, CatalogMessage,
         Answer, Catalogs
    <2>4. \A j : NewsDue(j) => NewsDue(j)'
      <3>1. \A j : Announcement(j) = m => j = m.kind
        BY <2>1 DEF Announcement
      <3> QED BY <1>1, <1>2, <2>2, <3>1 DEF NewsDue, Announcement
    <2>5. \A x : InHand(x)' => InHand(x)
      BY <1>2, <2>2 DEF InHand
    <2>6. \A j : FreshListDue(j) => FreshListDue(j)'
      <3>1. \A j : ListAnswer(j, catalog[j]) # m
        BY <1>4 DEF ListAnswer
      <3> QED BY <1>1, <1>2, <2>2, <3>1 DEF FreshListDue, ListAnswer
    <2>7. StaleViewIsDue'
      BY <1>1, <2>2, <2>4, <2>6 DEF CatalogIInv, StaleViewIsDue
    <2>8. OldListIsDue'
      <3>1. \A k, l : InHand(ListAnswer(k, l))'
                          => InHand(ListAnswer(k, l))
        BY <2>5 DEF ListAnswer
      <3> QED BY <1>1, <2>4, <3>1 DEF CatalogIInv, OldListIsDue, Catalogs
    <2>9. MissIsDue'
      <3>1. \A k, n : InHand(CallAnswer(k, n, FALSE))'
                          => InHand(CallAnswer(k, n, FALSE))
        BY <2>5 DEF CallAnswer
      <3> QED BY <1>1, <2>2, <2>4, <3>1 DEF CatalogIInv, MissIsDue, Absent
    <2>10. OneAnswer'
      BY <1>2, <2>2 DEF CatalogIInv, OneAnswer
    <2>11. HandlerFound' /\ OneKind'
      BY <1>1, <2>2 DEF CatalogIInv, HandlerFound, OneKind
    <2> QED BY <2>3, <2>7, <2>8, <2>9, <2>10, <2>11 DEF CatalogIInv
  <1>5. CASE m.type # "notification"
    <2>1. m \in Answer
      BY <1>2, <1>5 DEF CatalogMessage
    <2>2. /\ work.at = "sent" /\ work' = Nothing /\ UNCHANGED stale
          /\ \A i \in DOMAIN toClient : toClient[i].type # "notification" => i = 1
      BY <1>1, <1>2, <1>5 DEF CatalogIInv, OneAnswer
    <2>3. \A i \in DOMAIN toClient' : toClient'[i].type = "notification"
      BY <1>2, <2>2
    <2>4. /\ \A x : x.type # "notification" => ~InHand(x)'
          /\ \A x : x.type # "notification" /\ OnItsWay(x) => x = m
      BY <1>2, <2>2, <2>3 DEF InHand, OnItsWay, Nothing
    <2>5. OneAnswer' /\ HandlerFound' /\ OneKind'
      BY <1>1, <2>2, <2>3 DEF CatalogIInv, OneAnswer, HandlerFound, OneKind,
         Nothing
    <2>6. OldListIsDue'
      BY <2>4 DEF OldListIsDue, ListAnswer
    <2>7. MissIsDue'
      BY <2>4 DEF MissIsDue, CallAnswer
    <2>8. \A j : NewsDue(j) => NewsDue(j)'
      <3>1. \A j : Announcement(j) # m
        BY <1>5 DEF Announcement
      <3> QED BY <1>1, <1>2, <2>2, <3>1 DEF NewsDue, Announcement
    <2>9. \A j : FreshListDue(j) => m = ListAnswer(j, catalog[j])
      BY <2>2, <2>4 DEF FreshListDue, ListAnswer
    <2>10. CASE m.type = "call"
      <3>1. UNCHANGED view
        BY <1>1, <2>10
      <3>2. \A j : ~FreshListDue(j)
        BY <2>9, <2>10 DEF ListAnswer
      <3>3. StaleViewIsDue'
        BY <1>1, <2>8, <3>1, <3>2 DEF CatalogIInv, StaleViewIsDue
      <3>4. CatalogTypeOK'
        BY <1>1, <1>2, <2>2, <3>1 DEF CatalogIInv, CatalogTypeOK, CatalogMessage,
           Answer, Catalogs, Nothing
      <3> QED BY <2>5, <2>6, <2>7, <3>3, <3>4 DEF CatalogIInv
    <2>11. CASE m.type = "list"
      <3>1. /\ m.kind \in Kinds /\ m.list \in Catalogs
            /\ m = ListAnswer(m.kind, m.list)
            /\ view' = [view EXCEPT ![m.kind] = m.list]
        BY <1>1, <2>1, <2>11 DEF Answer, ListAnswer
      <3>2. /\ view' \in [Kinds -> Catalogs] /\ view'[m.kind] = m.list
            /\ \A j \in Kinds : j # m.kind => view'[j] = view[j]
        BY <1>3, <3>1
      <3>3. CatalogTypeOK'
        BY <1>1, <1>2, <2>2, <3>2 DEF CatalogIInv, CatalogTypeOK, CatalogMessage,
           Answer, Catalogs, Nothing
      <3>4. ASSUME NEW j \in Announced, view'[j] # catalog'[j]
            PROVE  NewsDue(j)'
        <4>1. CASE j = m.kind
          <5>1. InHand(ListAnswer(j, m.list)) /\ m.list # catalog[j]
            BY <1>1, <1>2, <3>1, <3>2, <3>4, <4>1 DEF InHand, OnItsWay
          <5> QED BY <1>1, <2>8, <3>1, <5>1 DEF CatalogIInv, OldListIsDue
        <4>2. CASE j # m.kind
          <5>1. view[j] # catalog[j] /\ ~FreshListDue(j)
            BY <1>1, <1>3, <2>9, <3>2, <3>4, <4>2 DEF ListAnswer
          <5> QED BY <1>1, <2>8, <5>1 DEF CatalogIInv, StaleViewIsDue
        <4> QED BY <4>1, <4>2
      <3>5. StaleViewIsDue'
        BY <3>4 DEF StaleViewIsDue
      <3> QED BY <2>5, <2>6, <2>7, <3>3, <3>5 DEF CatalogIInv
    <2> QED BY <1>1, <1>5, <2>10, <2>11
  <1> QED BY <1>4, <1>5

LEMMA TransportClosesStep ==
    ASSUME CatalogIInv, TransportCloses \/ UNCHANGED catalogVars
    PROVE  CatalogIInv'
  <1>1. /\ UNCHANGED <<catalog, changes, updater, toClient, work, view, stale, calls>>
        /\ connectionDone' \in BOOLEAN /\ (connectionDone => connectionDone')
    BY DEF TransportCloses, catalogVars, CatalogIInv, CatalogTypeOK
  <1>2. CatalogTypeOK'
    BY <1>1 DEF CatalogIInv, CatalogTypeOK, Answer, Catalogs
  <1>3. \A x : /\ OnItsWay(x)' <=> OnItsWay(x)
               /\ NewsDue(x)' <=> NewsDue(x)
               /\ FreshListDue(x)' <=> FreshListDue(x)
               /\ InHand(x)' <=> InHand(x)
    BY <1>1 DEF OnItsWay, NewsDue, FreshListDue, InHand,
       Announcement, ListAnswer
  <1>4. StaleViewIsDue'
    BY <1>1, <1>3 DEF CatalogIInv, StaleViewIsDue
  <1>5. OldListIsDue'
    BY <1>1, <1>3 DEF CatalogIInv, OldListIsDue, ListAnswer, Catalogs
  <1>6. MissIsDue'
    BY <1>1, <1>3 DEF CatalogIInv, MissIsDue, CallAnswer, Absent
  <1>7. OneAnswer' /\ HandlerFound' /\ OneKind'
    BY <1>1 DEF CatalogIInv, OneAnswer, HandlerFound, OneKind
  <1> QED BY <1>2, <1>4, <1>5, <1>6, <1>7 DEF CatalogIInv

(***************************************************************************)
(* The theorem                                                             *)
(***************************************************************************)
LEMMA CatalogBegins ==
    ASSUME CatalogInit
    PROVE  CatalogIInv
  <1>1. toClient = <<>> /\ DOMAIN toClient = {}
    BY DEF CatalogInit
  <1>2. /\ catalog = view /\ catalog \in [Kinds -> Catalogs]
    BY CatalogAssumption DEF CatalogInit, Catalogs, Absent
  <1>3. CatalogTypeOK
    <2>1. 0 \in 0 .. MaxChanges /\ 0 \in 0 .. MaxCalls
      BY CatalogAssumption
    <2>2. Len(toClient) <= OutboxSize
      BY <1>1, CatalogAssumption
    <2>3. toClient \in Seq(CatalogMessage)
      BY <1>1
    <2>4. work \in [at : {"idle", "sent"}]
      BY DEF CatalogInit, Nothing
    <2>5. updater \in [Updaters -> SUBSET Announced] /\ stale \subseteq Kinds
          /\ changes = 0 /\ calls = 0 /\ connectionDone = FALSE
      BY DEF CatalogInit
    <2> QED BY <1>2, <2>1, <2>2, <2>3, <2>4, <2>5 DEF CatalogTypeOK, CatalogMessage
  <1>4. \A x : ~InHand(x)
    BY <1>1 DEF InHand, OnItsWay, CatalogInit, Nothing
  <1>5. StaleViewIsDue /\ OldListIsDue /\ MissIsDue
    BY <1>2, <1>4 DEF StaleViewIsDue, OldListIsDue, MissIsDue
  <1>6. OneAnswer /\ HandlerFound /\ OneKind
    BY <1>1 DEF CatalogInit, OneAnswer, HandlerFound, OneKind, Nothing
  <1> QED BY <1>3, <1>5, <1>6 DEF CatalogIInv

\* server/server.go, RegisterTool and its like beside handleToolsList and
\* handleToolsCall: however changes, announcements, lists and calls interleave, a
\* client whose list of an announced kind is out of date is going to be told or
\* to get the current one, and a call that fails although the client's list
\* promised otherwise is followed by the news that explains it.
THEOREM ClientIsKeptUpToDate == CatalogSpec => []CatalogInv
  <1>1. CatalogInit => CatalogIInv
    BY CatalogBegins
  <1>2. CatalogIInv /\ [CatalogNext]_catalogVars => CatalogIInv'
    BY ChangeStep, AnnouncesStep, HandlersStep, AnswersStep, ClientAsks,
       DeliversStep, TransportClosesStep DEF CatalogNext, ServerWorks
  <1>3. CatalogIInv => CatalogInv
    BY DEF CatalogIInv, CatalogInv, MissIsExplained, MissIsDue, InHand
  <1> QED BY <1>1, <1>2, <1>3, PTL DEF CatalogSpec

=============================================================================
