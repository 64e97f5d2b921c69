------------------------ MODULE MessageHandlerProofs ------------------------
(***************************************************************************)
(* Theorems about MessageHandler, for any number of requests, any channel  *)
(* capacity and any messages of the peer, about the handler over each of   *)
(* the transports of HandlerTransports, and about ProgressHandler.         *)
(*                                                                         *)
(* The argument is about who has the right to close the response channel   *)
(* of a request.  While its timer has not fired exactly one party has it:  *)
(* the map (that is, whoever takes the request out of it next) or          *)
(* correlateResponse, and it is given up with the close.  A timer callback *)
(* that has started has it too, without asking: only then can a channel    *)
(* be closed, or sent on, once too often.                                  *)
(*                                                                         *)
(* The transports add two arguments.  A goroutine that has not ended is    *)
(* counted by the wait group that Close waits for.  The bridge of the      *)
(* in-process transport only answers requests that were made, and while    *)
(* it runs a handler nothing on its way carries the id of the request the  *)
(* handler waits for.                                                      *)
(*                                                                         *)
(* A request with progress is never left without a timer because it has    *)
(* one before it is in the map, and only one callback closes its channel   *)
(* because taking it from the map is final.                                *)
(***************************************************************************)
EXTENDS HandlerTransports, ProgressHandler, TLAPS

-----------------------------------------------------------------------------
(***************************************************************************)
(* Facts about the data                                                    *)
(***************************************************************************)

\* What is known of the constants.
LEMMA ConstantsTyped ==
    /\ MaxRequests \in Nat /\ BufferSize \in Nat \ {0}
    /\ Peer \subseteq Messages /\ MaxIncoming \in Nat
BY BoundsAssumption, PeerAssumption

\* Taking a message from a channel that has one.
LEMMA NonEmpty ==
    \A S : \A q \in Seq(S) :
        q # <<>> => Head(q) \in S /\ Tail(q) \in Seq(S)
OBVIOUS

\* Putting a message on a channel.
LEMMA Appended == \A S : \A q \in Seq(S) : \A e \in S : Append(q, e) \in Seq(S)
OBVIOUS

\* What the router has in hand when it waits is a message.
LEMMA NoMsgType == NoMsg \in Messages
BY DEF NoMsg, Messages, Kinds, NoId, WireIds

\* What handleResponses has in hand when it waits.
LEMMA CorrIdleType ==
    CorrIdle \in CorrValues /\ CorrIdle.at = "idle"
BY DEF CorrIdle, CorrValues, CorrStates, NoId, WireIds

\* Request ids are natural numbers.
LEMMA IdsAreNat == Ids \subseteq Nat
BY ConstantsTyped DEF Ids

\* close(ch) leaves a Boolean per channel and records a panic, if any.
LEMMA CloseTypes ==
    ASSUME TypeOK, NEW i \in Ids, CloseResponse(i)
    PROVE  /\ closed' \in [Ids -> BOOLEAN]
           /\ panicked' \in PanicValues
<1>1. i \in Nat
  BY IdsAreNat
<1>2. CASE closed[i]
  <2>1. closed' = closed /\ panicked' = [op |-> "close of closed channel", id |-> i]
    BY <1>2 DEF CloseResponse
  <2> QED BY <1>1, <2>1 DEF TypeOK, PanicValues
<1>3. CASE ~closed[i]
  BY <1>1, <1>3 DEF TypeOK, CloseResponse
<1> QED BY <1>2, <1>3

-----------------------------------------------------------------------------
(***************************************************************************)
(* The type invariant                                                      *)
(***************************************************************************)

\* Every step of every goroutine preserves the type invariant.
LEMMA TypeStep == TypeOK /\ Next => TypeOK'
<1> SUFFICES ASSUME TypeOK, Next PROVE TypeOK'
  OBVIOUS
<1>1. CASE SendRequest
  <2>1. requestID + 1 \in Ids /\ requestID' \in 0 .. MaxRequests
    <3>1. requestID \in 0 .. MaxRequests
      BY DEF TypeOK
    <3>2. requestID < MaxRequests /\ requestID' = requestID + 1
      BY <1>1 DEF SendRequest
    <3> QED BY <3>1, <3>2, ConstantsTyped DEF Ids
  <2>2. call' \in [Ids -> CallStates] /\ timer' \in [Ids -> TimerStates]
    BY <1>1, <2>1 DEF TypeOK, SendRequest, CallStates, TimerStates
  <2> QED BY <1>1, <2>1, <2>2 DEF TypeOK, SendRequest, chanVars, flowVars
<1>2. ASSUME NEW i \in Ids, StorePending(i) PROVE TypeOK'
  BY <1>2
  DEF TypeOK, StorePending, CallStates, callVars, chanVars, flowVars
<1>3. ASSUME NEW i \in Ids, EnqueueRequest(i) PROVE TypeOK'
  <2>1. outgoing' \in Seq(OutgoingMessages)
    <3>1. [kind |-> "request", id |-> i] \in OutgoingMessages
      BY ConstantsTyped DEF Ids, OutgoingMessages
    <3> QED BY <1>3, <3>1, Appended DEF TypeOK, EnqueueRequest
  <2> QED BY <1>3, <2>1 DEF TypeOK, EnqueueRequest, CallStates, callVars, chanVars, flowVars
<1>4. ASSUME NEW i \in Ids, FailRequest(i) PROVE TypeOK'
  BY <1>4
  DEF TypeOK, FailRequest, CallStates, TimerStates, RemovePendingRequest, Stopped, callVars, chanVars, flowVars
<1>5. ASSUME NEW i \in Ids, Receive(i) PROVE TypeOK'
  <2>1. call' \in [Ids -> CallStates] /\ buf' \in [Ids -> WireIds]
    <3>1. NoId \in WireIds
      BY DEF NoId, WireIds
    <3>2. call \in [Ids -> CallStates] /\ buf \in [Ids -> WireIds]
      BY DEF TypeOK
    <3> QED BY <1>5, <3>1, <3>2 DEF Receive, CallStates
  <2> QED BY <1>5, <2>1 DEF TypeOK, Receive, flowVars
<1>6. ASSUME NEW i \in Ids, Abandon(i) PROVE TypeOK'
  BY <1>6
  DEF TypeOK, Abandon, CallStates, callVars, chanVars, flowVars
<1>7. ASSUME NEW i \in Ids, TimerFires(i) PROVE TypeOK'
  BY <1>7
  DEF TypeOK, TimerFires, TimerStates, callVars, chanVars, flowVars
<1>8. ASSUME NEW i \in Ids, TimerRemoves(i) PROVE TypeOK'
  BY <1>8
  DEF TypeOK, TimerRemoves, TimerStates, callVars, chanVars, flowVars
<1>9. ASSUME NEW i \in Ids, TimerCloses(i) PROVE TypeOK'
  <2>1. timer' \in [Ids -> TimerStates]
    BY <1>9 DEF TypeOK, TimerCloses, TimerStates
  <2> QED BY <1>9, <2>1, CloseTypes DEF TypeOK, TimerCloses, callVars, flowVars
<1>10. ASSUME NEW s \in Senders, NEW kind \in {"notification", "response"},
              BeginOneWay(s, kind) PROVE TypeOK'
  BY <1>10
  DEF TypeOK, BeginOneWay, callVars, chanVars, flowVars
<1>11. ASSUME NEW s \in Senders, EnqueueOneWay(s) PROVE TypeOK'
  <2>1. outgoing' \in Seq(OutgoingMessages)
    <3>1. oneWay[s] \in {"notification", "response"}
      BY <1>11 DEF TypeOK, EnqueueOneWay
    <3>2. [kind |-> oneWay[s], id |-> 0] \in OutgoingMessages
      BY <3>1 DEF OutgoingMessages
    <3> QED BY <1>11, <3>2, Appended DEF TypeOK, EnqueueOneWay
  <2> QED BY <1>11, <2>1 DEF TypeOK, EnqueueOneWay, callVars, chanVars
<1>12. ASSUME NEW s \in Senders, CancelOneWay(s) PROVE TypeOK'
  BY <1>12
  DEF TypeOK, CancelOneWay, callVars, chanVars, flowVars
<1>13. ASSUME NEW m \in Peer, TransportDelivers(m) PROVE TypeOK'
  <2>1. arrivals' \in 0 .. MaxIncoming /\ incoming' \in Seq(Messages)
    <3>1. m \in Messages
      BY ConstantsTyped
    <3>2. arrivals \in 0 .. MaxIncoming /\ incoming \in Seq(Messages)
      BY DEF TypeOK
    <3>3. /\ arrivals < MaxIncoming /\ arrivals' = arrivals + 1
          /\ incoming' = Append(incoming, m)
      BY <1>13 DEF TransportDelivers
    <3> QED BY <3>1, <3>2, <3>3, Appended, ConstantsTyped
  <2> QED BY <1>13, <2>1 DEF TypeOK, TransportDelivers, callVars, chanVars
<1>14. CASE TransportTakesOutgoing
  BY <1>14, NonEmpty
  DEF TypeOK, TransportTakesOutgoing, callVars, chanVars, flowVars
<1>15. CASE TransportTakesRequest
  BY <1>15, NonEmpty
  DEF TypeOK, TransportTakesRequest, callVars, chanVars, flowVars
<1>16. CASE TransportTakesNotification
  BY <1>16, NonEmpty
  DEF TypeOK, TransportTakesNotification, callVars, chanVars, flowVars
<1>17. CASE RouterTakes
  BY <1>17, NonEmpty
  DEF TypeOK, RouterTakes, callVars, chanVars, flowVars
<1>18. CASE RouterForwards
  <2>1. router' \in [at : {"idle", "route", "exited"}, msg : Messages]
    BY <1>18, NoMsgType DEF RouterForwards
  <2>2. /\ requestChan' \in Seq(Messages)
        /\ notificationChan' \in Seq(Messages)
        /\ responseChan' \in Seq(Messages)
    <3>1. router.msg \in Messages
      BY DEF TypeOK
    <3>2. /\ Append(requestChan, router.msg) \in Seq(Messages)
          /\ Append(notificationChan, router.msg) \in Seq(Messages)
          /\ Append(responseChan, router.msg) \in Seq(Messages)
      BY <3>1, Appended DEF TypeOK
    <3> QED BY <1>18, <3>2 DEF TypeOK, RouterForwards
  <2> QED BY <1>18, <2>1, <2>2 DEF TypeOK, RouterForwards, callVars, chanVars
<1>19. CASE RouterSeesDone
  BY <1>19, NoMsgType
  DEF TypeOK, RouterSeesDone, callVars, chanVars, flowVars
<1>20. CASE CorrTakes
  <2>1. Head(responseChan) \in Messages /\ responseChan' \in Seq(Messages)
    BY <1>20, NonEmpty DEF TypeOK, CorrTakes
  <2>2. corr' \in CorrValues /\ corr'.at = "lookup"
    BY <1>20, <2>1 DEF CorrTakes, Messages, CorrValues, CorrStates
  <2> QED BY <1>20, <2>1, <2>2 DEF TypeOK, CorrTakes, callVars, chanVars
<1>21. CASE CorrLooksUp
  <2>1. CASE KeyOf(corr.resp) \in pending
    <3>1. corr' \in CorrValues /\ corr'.id \in Ids
      <4>1. corr' = [corr EXCEPT !.at = "stop", !.id = KeyOf(corr.resp)]
        BY <1>21, <2>1 DEF CorrLooksUp
      <4>2. KeyOf(corr.resp) \in Ids /\ KeyOf(corr.resp) \in Nat
        BY <2>1, IdsAreNat DEF TypeOK
      <4> QED BY <4>1, <4>2 DEF TypeOK, CorrValues, CorrStates
    <3> QED BY <1>21, <2>1, <3>1 DEF TypeOK, CorrLooksUp, callVars, chanVars, flowVars
  <2>2. CASE KeyOf(corr.resp) \notin pending
    BY <1>21, <2>2, CorrIdleType DEF TypeOK, CorrLooksUp, callVars, chanVars, flowVars
  <2> QED BY <2>1, <2>2
<1>22. CASE CorrStopsTimer
  BY <1>22
  DEF TypeOK, CorrStopsTimer, TimerStates, CorrValues, CorrStates, Stopped, callVars, chanVars, flowVars
<1>23. CASE CorrSends
  <2>0. corr.id \in Ids BY <1>23 DEF TypeOK, CorrSends
  <2>1. CASE closed[corr.id]
    <3>1. panicked' \in PanicValues
      <4>1. panicked' = [op |-> "send on closed channel", id |-> corr.id]
        BY <1>23, <2>1 DEF CorrSends
      <4> QED BY <2>0, <4>1, IdsAreNat DEF PanicValues
    <3> QED BY <1>23, <2>0, <2>1, <3>1 DEF TypeOK, CorrSends, callVars, flowVars
  <2>2. CASE ~closed[corr.id]
    <3>1. buf' \in [Ids -> WireIds]
      BY <1>23, <2>0, <2>2 DEF TypeOK, CorrSends, CorrValues
    <3>2. corr' \in CorrValues /\ corr'.id \in Ids
      <4>1. corr' = [corr EXCEPT !.at = "close"]
        BY <1>23, <2>2 DEF CorrSends
      <4> QED BY <2>0, <4>1 DEF TypeOK, CorrValues, CorrStates
    <3> QED BY <1>23, <2>2, <3>1, <3>2 DEF TypeOK, CorrSends, callVars, flowVars
  <2> QED BY <2>1, <2>2
<1>24. CASE CorrCloses
  <2>1. corr.id \in Ids BY <1>24 DEF TypeOK, CorrCloses
  <2>2. corr' = CorrIdle BY <1>24 DEF CorrCloses
  <2> QED BY <1>24, <2>1, <2>2, CloseTypes, CorrIdleType DEF TypeOK, CorrCloses, callVars, flowVars
<1>25. CASE CorrSeesDone
  <2>1. corr' \in CorrValues /\ corr'.at = "exited"
    BY <1>25, CorrIdleType DEF TypeOK, CorrSeesDone, CorrValues, CorrStates
  <2> QED BY <1>25, <2>1 DEF TypeOK, CorrSeesDone, callVars, chanVars, flowVars
<1>26. CASE CloseCancels
  BY <1>26
  DEF TypeOK, CloseCancels, callVars, chanVars, flowVars
<1>27. CASE CloseAllPending
  <2>1. timer' \in [Ids -> TimerStates] /\ closed' \in [Ids -> BOOLEAN] /\ pending' \subseteq Ids
    BY <1>27 DEF TypeOK, CloseAllPending, Stopped, TimerStates
  <2>2. panicked' \in PanicValues
    <3>1. CASE \E i \in pending : closed[i]
      <4>1. PICK i \in pending : panicked' = [op |-> "close of closed channel", id |-> i]
        BY <1>27, <3>1 DEF CloseAllPending
      <4>2. i \in Nat
        BY <4>1, IdsAreNat DEF TypeOK
      <4> QED BY <4>1, <4>2 DEF PanicValues
    <3>2. CASE ~\E i \in pending : closed[i]
      BY <1>27, <3>2 DEF TypeOK, CloseAllPending
    <3> QED BY <3>1, <3>2
  <2> QED BY <1>27, <2>1, <2>2 DEF TypeOK, CloseAllPending, callVars, flowVars
<1>28. CASE ParentCancelled
  BY <1>28
  DEF TypeOK, ParentCancelled, callVars, chanVars, flowVars
<1> QED
  BY <1>1, <1>2, <1>3, <1>4, <1>5, <1>6, <1>7, <1>8, <1>9, <1>10, <1>11, <1>12, <1>13, <1>14, <1>15, <1>16, <1>17, <1>18, <1>19, <1>20, <1>21, <1>22, <1>23, <1>24, <1>25, <1>26, <1>27, <1>28
  DEF Next, Caller, Timer, OneWay, Transport, Router, Correlator, Shutdown

\* The state NewMessageHandler leaves has the types declared.
LEMMA TypeInit == Init => TypeOK
<1> SUFFICES ASSUME Init PROVE TypeOK
  OBVIOUS
<1>1. NoId \in WireIds
  BY DEF NoId, WireIds
<1>2. router \in [at : {"idle", "route", "exited"}, msg : Messages]
  BY NoMsgType DEF Init
<1>3. panicked \in PanicValues
  BY DEF Init, NoPanic, PanicValues
<1>4. requestID \in 0 .. MaxRequests /\ arrivals \in 0 .. MaxIncoming
  BY ConstantsTyped DEF Init
<1>5. corr \in CorrValues /\ corr.at = "idle"
  BY CorrIdleType DEF Init
<1>6. /\ call \in [Ids -> CallStates] /\ timer \in [Ids -> TimerStates]
      /\ buf \in [Ids -> WireIds] /\ closed \in [Ids -> BOOLEAN]
      /\ oneWay \in [Senders -> {"idle", "notification", "response"}]
  BY <1>1 DEF Init, CallStates, TimerStates
<1>7. /\ outgoing \in Seq(OutgoingMessages)
      /\ incoming \in Seq(Messages) /\ requestChan \in Seq(Messages)
      /\ notificationChan \in Seq(Messages) /\ responseChan \in Seq(Messages)
  BY DEF Init
<1> QED BY <1>2, <1>3, <1>4, <1>5, <1>6, <1>7 DEF Init, TypeOK

\* The type invariant holds in every state of every run of the handler.
THEOREM TypeCorrect == Spec => []TypeOK
<1>1. TypeOK /\ UNCHANGED vars => TypeOK'
  BY DEF TypeOK, vars, callVars, chanVars, flowVars
<1> QED BY <1>1, TypeInit, TypeStep, PTL DEF Spec

-----------------------------------------------------------------------------
(***************************************************************************)
(* Who may close the channel of a request                                  *)
(***************************************************************************)

\* The inductive invariant, for one request: it exists from SendRequest on;
\* the map has it only once stored and correlateResponse only once taken out;
\* a channel that is closed, unless its timer has started, is out of both and
\* one that is open is in one of them; a response is for this request and the
\* last one.
Owned(i) ==
    /\ call[i] = "none" <=> i > requestID
    /\ call[i] = "none" => timer[i] = "none" /\ ~closed[i]
    /\ i \in pending \/ Held(i) \/ buf[i] # NoId
           => call[i] \notin {"none", "created"}
    /\ Held(i) => i \notin pending
    /\ closed[i] /\ ~TimerStarted(i)
           => /\ i \notin pending
              /\ ~Held(i)
              /\ call[i] \notin {"none", "created"}
    /\ call[i] \in {"stored", "waiting"} /\ ~closed[i]
           => i \in pending \/ Held(i) \/ TimerStarted(i)
    /\ call[i] \in {"created", "stored", "waiting"} /\ ~closed[i]
           => TimerLive(i) \/ Held(i)
    /\ buf[i] # NoId => KeyOf(buf[i]) = i
    /\ buf[i] # NoId \/ call[i] = "answered"
           => i \notin pending /\ ~Sending(i)
    /\ call[i] = "failed" => i \notin pending

Ownership == \A i \in Ids : Owned(i)

\* correlateResponse holds the request that its response is for.
HeldByKey == corr.at \in {"stop", "send"} => KeyOf(corr.resp) = corr.id

IInv == TypeOK /\ Ownership /\ HeldByKey /\ PanicNeedsTimeout

\* A step that leaves everything about request i as it is.
SameAt(i) ==
    /\ requestID' = requestID
    /\ call'[i] = call[i]
    /\ timer'[i] = timer[i]
    /\ i \in pending' <=> i \in pending
    /\ buf'[i] = buf[i]
    /\ closed'[i] = closed[i]
    /\ corr' = corr

\* The invariant of a request survives the steps that are not about it.
LEMMA Frame == ASSUME NEW i \in Ids, Owned(i), SameAt(i) PROVE Owned(i)'
BY DEF SameAt, Owned, Held, Sending, TimerStarted, TimerLive

\* The steps of the caller of i and of its timer are not about other requests.
LEMMA OthersKept ==
    ASSUME TypeOK, NEW i \in Ids, NEW j \in Ids, i # j,
           Caller(i) \/ Timer(i)
    PROVE  SameAt(j)
<1> USE DEF TypeOK, SameAt, callVars, chanVars
<1>1. CASE StorePending(i)
  BY <1>1 DEF StorePending
<1>2. CASE EnqueueRequest(i)
  BY <1>2 DEF EnqueueRequest
<1>3. CASE FailRequest(i)
  BY <1>3 DEF FailRequest, RemovePendingRequest
<1>4. CASE Receive(i)
  BY <1>4 DEF Receive
<1>5. CASE Abandon(i)
  BY <1>5 DEF Abandon
<1>6. CASE TimerFires(i)
  BY <1>6 DEF TimerFires
<1>7. CASE TimerRemoves(i)
  BY <1>7 DEF TimerRemoves
<1>8. CASE TimerCloses(i)
  BY <1>8 DEF TimerCloses, CloseResponse
<1> QED BY <1>1, <1>2, <1>3, <1>4, <1>5, <1>6, <1>7, <1>8 DEF Caller, Timer

\* SendRequest makes the next request and touches no other.
LEMMA OwnedSendRequest ==
    ASSUME TypeOK, NEW j \in Ids, Owned(j), SendRequest
    PROVE  Owned(j)'
<1>0. requestID \in Nat /\ requestID' = requestID + 1 /\ j \in Nat
  BY ConstantsTyped DEF SendRequest, TypeOK, Ids
<1>1. UNCHANGED <<pending, buf, closed, corr>>
  BY DEF SendRequest, chanVars
<1>2. CASE j = requestID + 1
  <2>1. call'[j] = "created" /\ timer'[j] = "armed"
    BY <1>2 DEF SendRequest, TypeOK
  <2>2. call[j] = "none" /\ ~(j > requestID')
    BY <1>0, <1>2 DEF Owned
  <2> QED BY <1>1, <2>1, <2>2 DEF Owned, Held, Sending, TimerStarted, TimerLive
<1>3. CASE j # requestID + 1
  <2>1. call'[j] = call[j] /\ timer'[j] = timer[j]
    BY <1>3 DEF SendRequest, TypeOK
  <2>2. j > requestID <=> j > requestID'
    BY <1>0, <1>3
  <2> QED BY <1>1, <2>1, <2>2 DEF Owned, Held, Sending, TimerStarted, TimerLive
<1> QED BY <1>2, <1>3

\* The steps of the caller of request j.
LEMMA OwnedCaller ==
    ASSUME TypeOK, NEW j \in Ids, Owned(j), Caller(j)
    PROVE  Owned(j)'
<1>1. CASE StorePending(j)
  <2>1. /\ call[j] = "created" /\ call'[j] = "stored"
        /\ j \in pending'
        /\ UNCHANGED <<requestID, timer, buf, closed, corr>>
    BY <1>1 DEF TypeOK, StorePending, chanVars
  <2> QED BY <2>1 DEF Owned, Held, Sending, TimerStarted, TimerLive
<1>2. CASE EnqueueRequest(j)
  <2>1. /\ call[j] = "stored" /\ call'[j] = "waiting"
        /\ UNCHANGED <<requestID, timer, pending, buf, closed, corr>>
    BY <1>2 DEF TypeOK, EnqueueRequest, chanVars
  <2> QED BY <2>1 DEF Owned, Held, Sending, TimerStarted, TimerLive
<1>3. CASE FailRequest(j)
  <2>1. /\ call[j] = "stored" /\ call'[j] = "failed"
        /\ j \notin pending'
        /\ timer'[j] = timer[j] \/ timer'[j] = Stopped(timer[j])
        /\ UNCHANGED <<requestID, buf, closed, corr>>
    BY <1>3 DEF TypeOK, FailRequest, RemovePendingRequest, chanVars
  <2> QED BY <2>1 DEF Stopped, Owned, Held, Sending, TimerStarted, TimerLive
<1>4. CASE Receive(j)
  <2>1. /\ call[j] = "waiting"
        /\ \/ buf[j] # NoId /\ call'[j] = "answered" /\ buf'[j] = NoId
           \/ closed[j] /\ call'[j] = "noResponse" /\ buf'[j] = buf[j]
        /\ UNCHANGED <<requestID, timer, pending, closed, corr>>
    BY <1>4 DEF TypeOK, Receive
  <2> QED BY <2>1 DEF Owned, Held, Sending, TimerStarted, TimerLive
<1>5. CASE Abandon(j)
  <2>1. /\ call[j] = "waiting" /\ call'[j] = "abandoned"
        /\ UNCHANGED <<requestID, timer, pending, buf, closed, corr>>
    BY <1>5 DEF TypeOK, Abandon, chanVars
  <2> QED BY <2>1 DEF Owned, Held, Sending, TimerStarted, TimerLive
<1> QED BY <1>1, <1>2, <1>3, <1>4, <1>5 DEF Caller

\* The steps of the timer callback of request j.
LEMMA OwnedTimer ==
    ASSUME TypeOK, NEW j \in Ids, Owned(j), Timer(j)
    PROVE  Owned(j)'
<1>1. CASE TimerFires(j)
  <2>1. /\ timer[j] = "armed" /\ timer'[j] = "fired"
        /\ UNCHANGED <<requestID, call, pending, buf, closed, corr>>
    BY <1>1 DEF TypeOK, TimerFires, callVars, chanVars
  <2> QED BY <2>1 DEF Owned, Held, Sending, TimerStarted, TimerLive
<1>2. CASE TimerRemoves(j)
  <2>1. /\ timer[j] = "fired" /\ timer'[j] = "removed"
        /\ j \notin pending'
        /\ UNCHANGED <<requestID, call, buf, closed, corr>>
    BY <1>2 DEF TypeOK, TimerRemoves, callVars, chanVars
  <2> QED BY <2>1 DEF Owned, Held, Sending, TimerStarted, TimerLive
<1>3. CASE TimerCloses(j)
  <2>1. /\ timer[j] = "removed" /\ timer'[j] = "expired"
        /\ closed'[j]
        /\ UNCHANGED <<requestID, call, pending, buf, corr>>
    BY <1>3 DEF TypeOK, TimerCloses, CloseResponse, callVars
  <2> QED BY <2>1 DEF Owned, Held, Sending, TimerStarted, TimerLive
<1> QED BY <1>1, <1>2, <1>3 DEF Timer

\* The steps of handleResponses and correlateResponse.
LEMMA OwnedCorrelator ==
    ASSUME TypeOK, NEW j \in Ids, Owned(j), HeldByKey, Correlator
    PROVE  Owned(j)'
<1>1. CASE CorrTakes
  <2>1. /\ corr.at = "idle" /\ corr'.at = "lookup"
        /\ UNCHANGED <<requestID, call, timer, pending, buf, closed>>
    BY <1>1 DEF CorrTakes, callVars, chanVars
  <2> QED BY <2>1 DEF Owned, Held, Sending, TimerStarted, TimerLive
<1>2. CASE CorrLooksUp
  <2>1. /\ corr.at = "lookup"
        /\ UNCHANGED <<requestID, call, timer, buf, closed>>
    BY <1>2 DEF CorrLooksUp, callVars, chanVars
  <2>2. CASE KeyOf(corr.resp) \in pending /\ KeyOf(corr.resp) = j
    <3>1. /\ corr'.at = "stop" /\ corr'.id = j
          /\ j \in pending /\ j \notin pending'
      BY <1>2, <2>2 DEF CorrLooksUp, TypeOK, CorrValues
    <3> QED BY <2>1, <3>1 DEF Owned, Held, Sending, TimerStarted, TimerLive
  <2>3. CASE KeyOf(corr.resp) \in pending /\ KeyOf(corr.resp) # j
    <3>1. corr'.id # j /\ (j \in pending' <=> j \in pending)
      BY <1>2, <2>3 DEF CorrLooksUp, TypeOK, CorrValues
    <3> QED BY <2>1, <3>1 DEF Owned, Held, Sending, TimerStarted, TimerLive
  <2>4. CASE KeyOf(corr.resp) \notin pending
    <3>1. corr'.at = "idle" /\ pending' = pending
      BY <1>2, <2>4 DEF CorrLooksUp, CorrIdle
    <3> QED BY <2>1, <3>1 DEF Owned, Held, Sending, TimerStarted, TimerLive
  <2> QED BY <2>2, <2>3, <2>4
<1>3. CASE CorrStopsTimer
  <2>1. /\ corr.at = "stop" /\ corr'.at = "send" /\ corr'.id = corr.id
        /\ timer'[j] = IF j = corr.id THEN Stopped(timer[j]) ELSE timer[j]
        /\ UNCHANGED <<requestID, call, pending, buf, closed>>
    BY <1>3 DEF CorrStopsTimer, TypeOK, CorrValues, callVars, chanVars
  <2> QED BY <2>1 DEF Stopped, Owned, Held, Sending, TimerStarted, TimerLive
<1>4. CASE CorrSends
  <2>1. corr.at = "send" /\ UNCHANGED <<requestID, call, timer, pending, closed>>
    BY <1>4 DEF CorrSends, callVars
  <2>2. CASE closed[corr.id]
    <3>1. UNCHANGED <<buf, corr>>
      BY <1>4, <2>2 DEF CorrSends
    <3> QED BY <2>1, <3>1, Frame DEF SameAt
  <2>3. CASE ~closed[corr.id]
    <3>1. corr'.at = "close" /\ corr'.id = corr.id
      BY <1>4, <2>3 DEF CorrSends, TypeOK, CorrValues
    <3>2. CASE j = corr.id
      <4>1. buf'[j] = buf[j] \/ buf'[j] = corr.resp
        BY <1>4, <2>3, <3>2 DEF CorrSends, TypeOK
      <4>2. KeyOf(corr.resp) = j
        BY <2>1, <3>2 DEF HeldByKey
      <4> QED BY <2>1, <3>1, <3>2, <4>1, <4>2 DEF Owned, Held, Sending, TimerStarted, TimerLive
    <3>3. CASE j # corr.id
      <4>1. buf'[j] = buf[j]
        BY <1>4, <2>3, <3>3 DEF CorrSends, TypeOK
      <4> QED BY <2>1, <3>1, <3>3, <4>1 DEF Owned, Held, Sending, TimerStarted, TimerLive
    <3> QED BY <3>2, <3>3
  <2> QED BY <2>2, <2>3
<1>5. CASE CorrCloses
  <2>1. /\ corr.at = "close" /\ corr'.at = "idle"
        /\ closed'[j] = (closed[j] \/ j = corr.id)
        /\ UNCHANGED <<requestID, call, timer, pending, buf>>
    BY <1>5 DEF CorrCloses, CloseResponse, CorrIdle, TypeOK, callVars
  <2> QED BY <2>1 DEF Owned, Held, Sending, TimerStarted, TimerLive
<1>6. CASE CorrSeesDone
  <2>1. /\ corr.at = "idle" /\ corr'.at = "exited"
        /\ UNCHANGED <<requestID, call, timer, pending, buf, closed>>
    BY <1>6 DEF CorrSeesDone, TypeOK, CorrValues, callVars, chanVars
  <2> QED BY <2>1 DEF Owned, Held, Sending, TimerStarted, TimerLive
<1> QED BY <1>1, <1>2, <1>3, <1>4, <1>5, <1>6 DEF Correlator

\* Close's pass over the map.
LEMMA OwnedCloseAllPending ==
    ASSUME TypeOK, NEW j \in Ids, Owned(j), CloseAllPending
    PROVE  Owned(j)'
<1>1. UNCHANGED <<requestID, call, buf, corr>>
  BY DEF CloseAllPending, callVars
<1>2. CASE \E i \in pending : closed[i]
  <2>1. UNCHANGED <<timer, closed, pending>>
    BY <1>2 DEF CloseAllPending
  <2> QED BY <1>1, <2>1, Frame DEF SameAt
<1>3. CASE ~\E i \in pending : closed[i]
  <2>1. /\ timer'[j] = IF j \in pending THEN Stopped(timer[j]) ELSE timer[j]
        /\ closed'[j] = (closed[j] \/ j \in pending)
        /\ pending' = {}
    BY <1>3 DEF CloseAllPending
  <2> QED BY <1>1, <2>1 DEF Stopped, Owned, Held, Sending, TimerStarted, TimerLive
<1> QED BY <1>2, <1>3

\* The steps that do not concern pending requests at all.
Silent == \/ \E s \in Senders : OneWay(s)
          \/ Transport
          \/ Router
          \/ CloseCancels
          \/ ParentCancelled

\* They leave the state of every request as it is.
LEMMA SilentKeeps ==
    Silent => UNCHANGED <<callVars, timer, pending, chanVars, corr, panicked>>
<1> SUFFICES ASSUME Silent
             PROVE  UNCHANGED <<callVars, timer, pending, chanVars, corr, panicked>>
  OBVIOUS
<1>1. ASSUME NEW s \in Senders, OneWay(s)
      PROVE  UNCHANGED <<callVars, timer, pending, chanVars, corr, panicked>>
  BY <1>1 DEF OneWay, BeginOneWay, EnqueueOneWay, CancelOneWay
<1>2. CASE Transport
  BY <1>2 DEF Transport, TransportDelivers, TransportTakesOutgoing,
              TransportTakesRequest, TransportTakesNotification
<1>3. CASE Router
  BY <1>3 DEF Router, RouterTakes, RouterForwards, RouterSeesDone
<1>4. CASE CloseCancels \/ ParentCancelled
  BY <1>4 DEF CloseCancels, ParentCancelled
<1> QED BY <1>1, <1>2, <1>3, <1>4 DEF Silent

\* Every step preserves the invariant of every request.
LEMMA OwnershipStep ==
    TypeOK /\ Ownership /\ HeldByKey /\ Next => Ownership'
<1> SUFFICES ASSUME TypeOK, Ownership, HeldByKey, Next, NEW j \in Ids
             PROVE  Owned(j)'
  BY DEF Ownership, Ids
<1>0. Owned(j)
  BY DEF Ownership
<1>1. CASE SendRequest
  BY <1>0, <1>1, OwnedSendRequest
<1>2. ASSUME NEW i \in Ids, Caller(i) \/ Timer(i) PROVE Owned(j)'
  <2>1. CASE i = j
    BY <1>0, <1>2, <2>1, OwnedCaller, OwnedTimer
  <2>2. CASE i # j
    BY <1>0, <1>2, <2>2, OthersKept, Frame
  <2> QED BY <2>1, <2>2
<1>3. CASE Correlator
  BY <1>0, <1>3, OwnedCorrelator
<1>4. CASE CloseAllPending
  BY <1>0, <1>4, OwnedCloseAllPending
<1>5. CASE Silent
  <2>1. SameAt(j)
    BY <1>5, SilentKeeps DEF SameAt, callVars, chanVars
  <2> QED BY <1>0, <2>1, Frame
<1> QED BY <1>1, <1>2, <1>3, <1>4, <1>5 DEF Next, Shutdown, Silent

\* The response correlateResponse holds stays the one it looked up.
LEMMA HeldByKeyStep == TypeOK /\ HeldByKey /\ Next => HeldByKey'
<1> SUFFICES ASSUME TypeOK, HeldByKey, Next PROVE HeldByKey'
  OBVIOUS
<1>1. CASE corr' = corr
  BY <1>1 DEF HeldByKey
<1>2. CASE CorrTakes \/ CorrCloses \/ CorrSeesDone
  BY <1>2 DEF CorrTakes, CorrCloses, CorrSeesDone, CorrIdle, HeldByKey,
              TypeOK, CorrValues
<1>3. CASE CorrLooksUp
  <2>1. \/ corr'.at = "idle"
        \/ corr'.id = KeyOf(corr.resp) /\ corr'.resp = corr.resp
    <3>1. CASE KeyOf(corr.resp) \in pending
      BY <1>3, <3>1 DEF CorrLooksUp, TypeOK, CorrValues
    <3>2. CASE KeyOf(corr.resp) \notin pending
      BY <1>3, <3>2 DEF CorrLooksUp, CorrIdle
    <3> QED BY <3>1, <3>2
  <2> QED BY <2>1 DEF HeldByKey
<1>4. CASE CorrStopsTimer \/ CorrSends
  <2>1. /\ corr.at \in {"stop", "send"}
        /\ corr'.id = corr.id /\ corr'.resp = corr.resp
    BY <1>4 DEF CorrStopsTimer, CorrSends, TypeOK, CorrValues
  <2> QED BY <2>1 DEF HeldByKey
<1>5. ASSUME NEW i \in Ids, Caller(i) \/ Timer(i) PROVE corr' = corr
  BY <1>5 DEF Caller, Timer, StorePending, EnqueueRequest, FailRequest,
              Receive, Abandon, TimerFires, TimerRemoves, TimerCloses
<1>6. CASE SendRequest \/ CloseAllPending
  BY <1>1, <1>6 DEF SendRequest, CloseAllPending
<1>7. CASE Silent
  BY <1>1, <1>7, SilentKeeps
<1> QED BY <1>1, <1>2, <1>3, <1>4, <1>5, <1>6, <1>7
        DEF Next, Correlator, Shutdown, Silent

\* The request a panic is recorded on.
LEMMA PanicId ==
    \A op, i : [op |-> op, id |-> i].id = i
OBVIOUS

\* A step that panics does so on a request whose timer callback has started.
LEMMA PanicStep ==
    TypeOK /\ Ownership /\ PanicNeedsTimeout /\ Next => PanicNeedsTimeout'
<1> SUFFICES ASSUME TypeOK, Ownership, PanicNeedsTimeout, Next
             PROVE  PanicNeedsTimeout'
  OBVIOUS
<1>0. panicked = NoPanic
  BY DEF Next, Caller, Timer, OneWay, Transport, Router, Correlator, Shutdown,
         Running, SendRequest, StorePending, EnqueueRequest, FailRequest,
         Receive, Abandon, TimerFires, TimerRemoves, TimerCloses, BeginOneWay,
         EnqueueOneWay, CancelOneWay, TransportDelivers,
         TransportTakesOutgoing, TransportTakesRequest,
         TransportTakesNotification, RouterTakes, RouterForwards,
         RouterSeesDone, CorrTakes, CorrLooksUp, CorrStopsTimer, CorrSends,
         CorrCloses, CorrSeesDone, CloseCancels, CloseAllPending,
         ParentCancelled
<1>1. CASE panicked' = panicked
  BY <1>0, <1>1 DEF PanicNeedsTimeout
<1>2. ASSUME NEW i \in Ids, TimerCloses(i) PROVE PanicNeedsTimeout'
  <2>1. panicked' = panicked \/ panicked'.id = i
    <3>1. \/ panicked' = [op |-> "close of closed channel", id |-> i]
          \/ panicked' = panicked
      BY <1>2 DEF TimerCloses, CloseResponse
    <3> QED BY <3>1, PanicId, Zenon
  <2>2. TimerStarted(i)'
    BY <1>2 DEF TimerCloses, TimerStarted, TypeOK
  <2> QED BY <1>1, <2>1, <2>2 DEF PanicNeedsTimeout
<1>3. CASE CorrSends \/ CorrCloses
  <2>1. corr.id \in Ids /\ Held(corr.id) /\ timer' = timer
    BY <1>3 DEF CorrSends, CorrCloses, TypeOK, Held
  <2>2. CASE closed[corr.id]
    <3>1. panicked'.id = corr.id
      <4>1. \/ panicked' = [op |-> "send on closed channel", id |-> corr.id]
            \/ panicked' = [op |-> "close of closed channel", id |-> corr.id]
        BY <1>3, <2>2 DEF CorrSends, CorrCloses, CloseResponse
      <4> QED BY <4>1, PanicId, Zenon
    <3>2. TimerStarted(corr.id)
      BY <2>1, <2>2 DEF Ownership, Owned
    <3> QED BY <2>1, <3>1, <3>2 DEF PanicNeedsTimeout, TimerStarted
  <2>3. CASE ~closed[corr.id]
    BY <1>1, <1>3, <2>3 DEF CorrSends, CorrCloses, CloseResponse
  <2> QED BY <2>2, <2>3
<1>4. CASE CloseAllPending
  <2>1. CASE \E i \in pending : closed[i]
    <3>1. PICK i \in pending : closed[i] /\ panicked'.id = i
      <4>1. PICK i \in pending :
                /\ closed[i]
                /\ panicked' = [op |-> "close of closed channel", id |-> i]
        BY <1>4, <2>1 DEF CloseAllPending
      <4> QED BY <4>1
    <3>2. i \in Ids /\ timer' = timer
      BY <1>4, <2>1 DEF CloseAllPending, TypeOK
    <3>3. TimerStarted(i)
      BY <3>1, <3>2 DEF Ownership, Owned
    <3> QED BY <3>1, <3>2, <3>3 DEF PanicNeedsTimeout, TimerStarted
  <2>2. CASE ~\E i \in pending : closed[i]
    BY <1>1, <1>4, <2>2 DEF CloseAllPending
  <2> QED BY <2>1, <2>2
<1>5. ASSUME NEW i \in Ids, Caller(i) \/ TimerFires(i) \/ TimerRemoves(i)
      PROVE  panicked' = panicked
  BY <1>5 DEF Caller, StorePending, EnqueueRequest, FailRequest, Receive,
              Abandon, TimerFires, TimerRemoves
<1>6. CASE SendRequest \/ CorrTakes \/ CorrLooksUp \/ CorrStopsTimer
              \/ CorrSeesDone
  BY <1>1, <1>6 DEF SendRequest, CorrTakes, CorrLooksUp, CorrStopsTimer,
                    CorrSeesDone
<1>7. CASE Silent
  BY <1>1, <1>7, SilentKeeps
<1> QED BY <1>1, <1>2, <1>3, <1>4, <1>5, <1>6, <1>7
        DEF Next, Timer, Correlator, Shutdown, Silent

\* The inductive invariant holds when NewMessageHandler returns.
LEMMA InvInit == Init => IInv
<1> SUFFICES ASSUME Init PROVE IInv
  OBVIOUS
<1>1. Ownership
  <2> SUFFICES ASSUME NEW i \in Ids PROVE Owned(i)
    BY DEF Ownership
  <2>1. i > requestID
    BY DEF Init, Ids
  <2> QED BY <2>1 DEF Init, Owned, CorrIdle, Held, Sending, TimerStarted, TimerLive
<1>2. HeldByKey /\ PanicNeedsTimeout
  BY DEF Init, HeldByKey, PanicNeedsTimeout, CorrIdle
<1> QED BY <1>1, <1>2, TypeInit DEF IInv

\* The inductive invariant holds throughout every run.
LEMMA Inductive == Spec => []IInv
<1>1. IInv /\ Next => IInv'
  BY TypeStep, OwnershipStep, HeldByKeyStep, PanicStep DEF IInv
<1>2. IInv /\ UNCHANGED vars => IInv'
  BY DEF IInv, TypeOK, Ownership, Owned, HeldByKey, PanicNeedsTimeout, Held,
         Sending, TimerStarted, TimerLive, vars, callVars, chanVars, flowVars
<1> QED BY <1>1, <1>2, InvInit, PTL DEF Spec

-----------------------------------------------------------------------------
(***************************************************************************)
(* The theorems                                                            *)
(***************************************************************************)

\* However responses, failed sends, Close and timeouts interleave, a send on or
\* a close of a closed response channel can only happen to a request whose
\* timeout callback has started.
THEOREM PanicsOnlyAfterTimeout == Spec => []PanicNeedsTimeout
BY Inductive, PTL DEF IInv

\* SendRequest, correlateResponse, removePendingRequest and Close never stop the
\* timer of an open channel without closing it or holding the request.
THEOREM NoCallerStranded == Spec => []OpenChannelHasCloser
<1>1. IInv => OpenChannelHasCloser
  BY DEF IInv, Ownership, Owned, OpenChannelHasCloser
<1> QED BY <1>1, Inductive, PTL

\* A request gets at most one response, and one that carries its id.
THEOREM AtMostOneResponse == Spec => []AnswerIsFinal
<1>1. IInv => AnswerIsFinal
  BY DEF IInv, Ownership, Owned, AnswerIsFinal
<1> QED BY <1>1, Inductive, PTL

\* A SendRequest that fails leaves nothing in the map of pending requests.
THEOREM FailedSendCleansUp == Spec => []FailedCallIsForgotten
<1>1. IInv => FailedCallIsForgotten
  BY DEF IInv, Ownership, Owned, FailedCallIsForgotten
<1> QED BY <1>1, Inductive, PTL

\* Close's pass over the map leaves no waiting call on a channel that stays open.
LEMMA Released ==
    ASSUME IInv, CloseAllPending, panicked' = NoPanic
    PROVE  \A i \in Ids : call[i] = "waiting"
               => closed'[i] \/ Held(i) \/ TimerStarted(i)
<1> SUFFICES ASSUME NEW i \in Ids, call[i] = "waiting"
             PROVE  closed'[i] \/ Held(i) \/ TimerStarted(i)
  OBVIOUS
<1>1. closed[i] \/ i \in pending \/ Held(i) \/ TimerStarted(i)
  BY DEF IInv, Ownership, Owned
<1>2. CASE \E k \in pending : closed[k]
  BY <1>2 DEF CloseAllPending, NoPanic
<1>3. CASE ~\E k \in pending : closed[k]
  BY <1>1, <1>3 DEF CloseAllPending
<1> QED BY <1>2, <1>3

\* Close leaves no call that was already waiting to its timeout.
THEOREM CloseReleases == Spec => CloseReleasesWaiters
<1>1. IInv /\ [Next]_vars
        => [CloseAllPending /\ panicked' = NoPanic
                => \A i \in Ids : call[i] = "waiting"
                       => closed'[i] \/ Held(i) \/ TimerStarted(i)]_vars
  BY Released
<1> QED BY <1>1, Inductive, PTL DEF Spec, CloseReleasesWaiters

-----------------------------------------------------------------------------
(***************************************************************************)
(* The handler's invariant under what a transport may do to it             *)
(***************************************************************************)

\* A step that touches no request, the correlator or the panic, and keeps the
\* types, keeps the handler's invariant.
LEMMA QuietKeeps ==
    ASSUME IInv, TypeOK',
           UNCHANGED <<callVars, timer, pending, chanVars, corr, panicked>>
    PROVE  IInv'
<1>1. Ownership'
  <2> SUFFICES ASSUME NEW i \in Ids PROVE Owned(i)'
    BY DEF Ownership, Ids
  <2>1. Owned(i) /\ SameAt(i)
    BY DEF IInv, Ownership, SameAt, callVars, chanVars
  <2> QED BY <2>1, Frame
<1>2. HeldByKey' /\ PanicNeedsTimeout'
  BY DEF IInv, HeldByKey, PanicNeedsTimeout, TimerStarted
<1> QED BY <1>1, <1>2 DEF IInv

\* Whatever a transport delivers, not only what the peer may send.
LEMMA DeliveryKeeps ==
    ASSUME IInv, NEW m \in Messages, TransportDelivers(m)
    PROVE  IInv'
<1>1. arrivals' \in 0 .. MaxIncoming /\ incoming' \in Seq(Messages)
  <2>1. arrivals \in 0 .. MaxIncoming /\ incoming \in Seq(Messages)
    BY DEF IInv, TypeOK
  <2>2. /\ arrivals < MaxIncoming /\ arrivals' = arrivals + 1
        /\ incoming' = Append(incoming, m)
    BY DEF TransportDelivers
  <2> QED BY <2>1, <2>2, Appended, ConstantsTyped
<1>2. TypeOK'
  BY <1>1 DEF IInv, TypeOK, TransportDelivers, callVars, chanVars
<1> QED BY <1>2, QuietKeeps DEF TransportDelivers

\* The cancellation by a transport, also of a context that is done.
LEMMA CancelKeeps == ASSUME IInv, Cancel PROVE IInv'
<1>1. TypeOK'
  BY DEF IInv, TypeOK, Cancel, callVars, chanVars, flowVars
<1> QED BY <1>1, QuietKeeps DEF Cancel

\* The steps of the handler a transport lets it take are steps of its own.
LEMMA HandlerStepIsNext == HandlerStep => Next
BY DEF HandlerStep, SendEnds, Next, Caller, Shutdown

\* The handler's own steps keep its invariant.
LEMMA NextKeeps == IInv /\ Next => IInv'
BY TypeStep, OwnershipStep, HeldByKeyStep, PanicStep DEF IInv

\* So does a step that leaves the handler alone.
LEMMA StutterKeeps == IInv /\ UNCHANGED vars => IInv'
BY DEF IInv, TypeOK, Ownership, Owned, HeldByKey, PanicNeedsTimeout, Held,
       Sending, TimerStarted, TimerLive, vars, callVars, chanVars, flowVars

\* A response as it comes back from JSON is a message for its request.
LEMMA AnswerType ==
    \A i \in Nat : /\ Answer(i) \in Messages
                   /\ KeyOf(Answer(i).id) = i
                   /\ Answer(i).kind = "response"
<1> SUFFICES ASSUME NEW i \in Nat
             PROVE  Answer(i) \in Messages /\ KeyOf(Answer(i).id) = i
                        /\ Answer(i).kind = "response"
  OBVIOUS
<1>1. (2 * i) \div 2 = i
  OBVIOUS
<1> QED BY <1>1 DEF Answer, Messages, Kinds, WireIds, KeyOf

\* Bytes that are no message.
LEMMA NoiseType ==
    \A k \in Kinds : [kind |-> k, id |-> NoId] \in Messages
BY DEF Messages, NoId, WireIds

-----------------------------------------------------------------------------
(***************************************************************************)
(* The SSE transport                                                       *)
(***************************************************************************)

\* The wait group counts the goroutines that have not ended; an event is only
\* held by a stream that is being read; Close returns after both.
SSEInv ==
    /\ wg = (IF stream.at = "exited" THEN 0 ELSE 1)
                + (IF post = "exited" THEN 0 ELSE 1)
    /\ stream.at # "reading" => stream.event = NoMsg
    /\ NoGoroutineAfterClose

SSEIInv == IInv /\ HandlerTransportTypeOK /\ SSETypeOK /\ SSEInv

\* What the server may send are messages.
LEMMA EventType == TypeOK => Events \subseteq Messages
<1> SUFFICES ASSUME TypeOK, NEW m \in Events PROVE m \in Messages
  OBVIOUS
<1>1. CASE \E k \in UserKinds \cup {"malformed"} : m = [kind |-> k, id |-> NoId]
  BY <1>1, NoiseType, SSEAssumption DEF SSEAssumption, Kinds
<1>2. CASE \E i \in 1 .. requestID : m = Answer(i)
  BY <1>2, AnswerType, ConstantsTyped DEF TypeOK
<1> QED BY <1>1, <1>2 DEF Events

\* Where the stream goroutine stands when it has no event.
LEMMA StreamAtType ==
    \A w \in {"dialing", "delay", "reading", "exited"} :
        /\ StreamAt(w) \in Streams
        /\ StreamAt(w).at = w
        /\ StreamAt(w).event = NoMsg
BY NoMsgType DEF StreamAt, Streams

\* An event is read and put on the channel of its kind.
LEMMA SSEEvents ==
    ASSUME SSEIInv, EventRouted \/ \E m \in Events : EventArrives(m)
    PROVE  SSEIInv'
<1>1. ASSUME NEW m \in Events, EventArrives(m) PROVE SSEIInv'
  <2>1. m \in Messages
    BY EventType DEF SSEIInv, IInv
  <2>2. /\ stream = StreamAt("reading")
        /\ stream' = [stream EXCEPT !.event = m]
        /\ arrivals < MaxEvents /\ arrivals' = arrivals + 1
        /\ UNCHANGED <<ctxDone, callVars, timer, pending, chanVars, oneWay,
                       flowVars, router, corr, closing, panicked>>
        /\ UNCHANGED <<wg, closer, reconnectCount, userChan, post>>
    BY <1>1 DEF EventArrives, closeVars
  <2>3. arrivals' \in 0 .. MaxIncoming
    BY <2>2, SSEAssumption, ConstantsTyped
    DEF SSEIInv, IInv, TypeOK, SSEAssumption
  <2>4. TypeOK'
    BY <2>2, <2>3 DEF SSEIInv, IInv, TypeOK, callVars, chanVars, flowVars
  <2>5. IInv'
    BY <2>2, <2>4, QuietKeeps DEF SSEIInv
  <2>6. stream' \in Streams /\ stream'.at = "reading" /\ stream.at = "reading"
    BY <2>1, <2>2, StreamAtType DEF Streams
  <2> QED BY <2>2, <2>5, <2>6
          DEF SSEIInv, HandlerTransportTypeOK, SSETypeOK, SSEInv, NoGoroutineAfterClose
<1>2. CASE EventRouted
  <2> DEFINE e == stream.event
  <2>0. e \in Messages /\ stream \in Streams /\ stream.at = "reading"
    BY <1>2 DEF SSEIInv, SSETypeOK, Streams, EventRouted, SSEInv
  <2>1. /\ stream' = StreamAt("reading")
        /\ UNCHANGED <<ctxDone, callVars, timer, pending, chanVars, oneWay,
                       outgoing, requestChan, notificationChan, responseChan,
                       router, corr, closing, arrivals, panicked>>
        /\ UNCHANGED <<wg, closer, reconnectCount, post>>
    BY <1>2 DEF EventRouted, closeVars
  <2>2. incoming' = Append(incoming, e) \/ incoming' = incoming
    BY <1>2 DEF EventRouted
  <2>3. incoming' \in Seq(Messages)
    <3>1. incoming \in Seq(Messages)
      BY DEF SSEIInv, IInv, TypeOK
    <3> QED BY <2>0, <2>2, <3>1, Appended
  <2>4. TypeOK'
    BY <2>1, <2>3 DEF SSEIInv, IInv, TypeOK, callVars, chanVars
  <2>5. IInv'
    BY <2>1, <2>4, QuietKeeps DEF SSEIInv
  <2>6. userChan' \in [UserKinds -> 0 .. BufferSize]
    <3>1. userChan \in [UserKinds -> 0 .. BufferSize]
      BY DEF SSEIInv, SSETypeOK
    <3>2. CASE e.kind \in UserKinds /\ userChan[e.kind] < BufferSize
                  /\ userChan' = [userChan EXCEPT ![e.kind] = @ + 1]
      <4>1. userChan[e.kind] \in 0 .. BufferSize
        BY <3>1, <3>2
      <4>2. userChan[e.kind] + 1 \in 0 .. BufferSize
        BY <3>2, <4>1, ConstantsTyped
      <4> QED BY <3>1, <3>2, <4>2
    <3>3. CASE userChan' = userChan
      BY <3>1, <3>3
    <3> QED BY <1>2, <3>2, <3>3 DEF EventRouted
  <2>7. stream' \in Streams /\ stream'.at = "reading" /\ stream'.event = NoMsg
    BY <2>1, StreamAtType
  <2> QED BY <2>0, <2>1, <2>5, <2>6, <2>7
          DEF SSEIInv, HandlerTransportTypeOK, SSETypeOK, SSEInv, NoGoroutineAfterClose
<1> QED BY <1>1, <1>2

\* The stream goroutine between two streams, and its end.
LEMMA SSEStream ==
    ASSUME SSEIInv,
           \/ ConnectionEstablished \/ ConnectionFails \/ DelayPasses
           \/ StreamEnds \/ StreamSeesDone
    PROVE  SSEIInv'
<1> USE DEF closeVars
<1>0. wg \in 0 .. 4 /\ stream \in Streams /\ reconnectCount \in 0 .. MaxReconnects
  BY DEF SSEIInv, HandlerTransportTypeOK, SSETypeOK
<1>1. CASE ConnectionEstablished \/ DelayPasses \/ StreamEnds
  <2>1. /\ UNCHANGED <<vars, wg, closer, reconnectCount, userChan, post>>
        /\ stream.at # "exited" /\ stream' \in Streams
        /\ stream'.at # "exited" /\ stream'.event = NoMsg
    BY <1>1, StreamAtType DEF ConnectionEstablished, DelayPasses, StreamEnds
  <2> QED BY <2>1, StutterKeeps
          DEF SSEIInv, HandlerTransportTypeOK, SSETypeOK, SSEInv, NoGoroutineAfterClose
<1>2. CASE (ConnectionFails /\ reconnectCount >= MaxReconnects) \/ StreamSeesDone
  <2>1. /\ UNCHANGED <<vars, closer, reconnectCount, userChan, post>>
        /\ stream.at # "exited" /\ wg' = wg - 1
        /\ stream' \in Streams /\ stream'.at = "exited" /\ stream'.event = NoMsg
    BY <1>2, StreamAtType DEF ConnectionFails, StreamSeesDone
  <2>2. wg' \in 0 .. 4
    BY <1>0, <2>1 DEF SSEIInv, SSEInv
  <2>3. IInv' /\ SSETypeOK' /\ HandlerTransportTypeOK'
    BY <2>1, <2>2, StutterKeeps DEF SSEIInv, HandlerTransportTypeOK, SSETypeOK
  <2>4. SSEInv'
    BY <1>0, <2>1 DEF SSEIInv, SSEInv, NoGoroutineAfterClose
  <2> QED BY <2>3, <2>4 DEF SSEIInv
<1>3. CASE ConnectionFails /\ ~(reconnectCount >= MaxReconnects)
  <2>1. /\ UNCHANGED <<vars, wg, closer, userChan, post>>
        /\ stream.at # "exited" /\ reconnectCount' = reconnectCount + 1
        /\ stream' \in Streams /\ stream'.at # "exited" /\ stream'.event = NoMsg
    BY <1>3, StreamAtType DEF ConnectionFails
  <2>2. reconnectCount' \in 0 .. MaxReconnects
    BY <1>0, <1>3, <2>1, SSEAssumption DEF SSEAssumption
  <2> QED BY <2>1, <2>2, StutterKeeps
          DEF SSEIInv, HandlerTransportTypeOK, SSETypeOK, SSEInv, NoGoroutineAfterClose
<1> QED BY <1>1, <1>2, <1>3

\* The posting goroutine, and whoever reads the transport's channels.
LEMMA SSEPoster ==
    ASSUME SSEIInv, Poster \/ \E k \in UserKinds : UserReceives(k)
    PROVE  SSEIInv'
<1> USE DEF closeVars
<1>0. wg \in 0 .. 4 /\ userChan \in [UserKinds -> 0 .. BufferSize]
  BY DEF SSEIInv, HandlerTransportTypeOK, SSETypeOK
<1>1. CASE PostTakes \/ PostEnds
  <2>1. /\ UNCHANGED <<wg, closer, stream, reconnectCount, userChan>>
        /\ post # "exited" /\ post' \in {"idle", "posting"}
    BY <1>1 DEF PostTakes, PostEnds
  <2>2. Next \/ UNCHANGED vars
    BY <1>1 DEF PostTakes, PostEnds, Next, Transport
  <2>3. IInv'
    BY <2>2, NextKeeps, StutterKeeps DEF SSEIInv
  <2> QED BY <2>1, <2>3
          DEF SSEIInv, HandlerTransportTypeOK, SSETypeOK, SSEInv, NoGoroutineAfterClose
<1>2. CASE PostSeesDone
  <2>1. /\ UNCHANGED <<vars, closer, stream, reconnectCount, userChan>>
        /\ post = "idle" /\ post' = "exited" /\ wg' = wg - 1
    BY <1>2 DEF PostSeesDone
  <2>2. wg' \in 0 .. 4
    BY <1>0, <2>1 DEF SSEIInv, SSEInv
  <2>3. IInv' /\ SSETypeOK' /\ HandlerTransportTypeOK'
    BY <2>1, <2>2, StutterKeeps DEF SSEIInv, HandlerTransportTypeOK, SSETypeOK
  <2>4. SSEInv'
    BY <1>0, <2>1 DEF SSEIInv, SSEInv, NoGoroutineAfterClose
  <2> QED BY <2>3, <2>4 DEF SSEIInv
<1>3. ASSUME NEW k \in UserKinds, UserReceives(k) PROVE SSEIInv'
  <2>1. /\ UNCHANGED <<vars, wg, closer, stream, reconnectCount, post>>
        /\ userChan[k] > 0 /\ userChan' = [userChan EXCEPT ![k] = @ - 1]
    BY <1>3 DEF UserReceives
  <2>2. userChan[k] - 1 \in 0 .. BufferSize
    BY <1>0, <2>1, ConstantsTyped
  <2>3. userChan' \in [UserKinds -> 0 .. BufferSize]
    BY <1>0, <2>1, <2>2
  <2> QED BY <2>1, <2>3, StutterKeeps
          DEF SSEIInv, HandlerTransportTypeOK, SSETypeOK, SSEInv, NoGoroutineAfterClose
<1> QED BY <1>1, <1>2, <1>3 DEF Poster

\* Close: it waits for the wait group, so that both goroutines have ended.
LEMMA SSECloses ==
    ASSUME SSEIInv, SSECloseCancels \/ SSEClose
    PROVE  SSEIInv'
<1>1. IInv'
  <2>1. Cancel \/ Next \/ UNCHANGED vars
    BY DEF SSECloseCancels, SSEClose, SSECloseHandler, SSECloseDrained,
           SSECloseReturns, Next, Shutdown
  <2> QED BY <2>1, CancelKeeps, NextKeeps, StutterKeeps DEF SSEIInv
<1>2. /\ UNCHANGED <<wg, stream, reconnectCount, userChan, post>>
      /\ closer' \in CloserStates
      /\ closer' = "returned" => wg = 0
  BY DEF SSECloseCancels, SSEClose, SSECloseHandler, SSECloseDrained,
         SSECloseReturns, CloserStates, sseVars
<1> QED BY <1>1, <1>2
        DEF SSEIInv, HandlerTransportTypeOK, SSETypeOK, SSEInv, NoGoroutineAfterClose

\* Every step of the SSE transport.
LEMMA SSEStep == SSEIInv /\ SSENext => SSEIInv'
<1> SUFFICES ASSUME SSEIInv, SSENext PROVE SSEIInv'
  OBVIOUS
<1>1. CASE (HandlerStep \/ ParentCancelled) /\ UNCHANGED <<closeVars, sseVars>>
  <2>1. Next
    BY <1>1, HandlerStepIsNext DEF Next, Shutdown
  <2>2. IInv'
    BY <2>1, NextKeeps DEF SSEIInv
  <2> QED BY <1>1, <2>2 DEF SSEIInv, HandlerTransportTypeOK, SSETypeOK, SSEInv,
                            NoGoroutineAfterClose, closeVars, sseVars
<1> QED BY <1>1, SSEEvents, SSEStream, SSEPoster, SSECloses DEF SSENext, Reader

-----------------------------------------------------------------------------
(***************************************************************************)
(* The in-process transport                                                *)
(***************************************************************************)

\* An id that is neither of a request still to be made nor of the one a
\* handler of the server waits for.
Clear(w) ==
    /\ KeyOf(w) <= requestID
    /\ bridge.at = "nested" => KeyOf(w) # bridge.nested

ClearMessages == {m \in Messages : Clear(m.id)}

\* What is on its way to the transport belongs to requests that were made.
MadeRequests == {m \in OutgoingMessages : m.id <= requestID}

\* A handler waits for a request that was made; no response to it is on its
\* way anywhere, for the bridge, which would make one, runs the handler.
InFlight ==
    /\ bridge.id <= requestID
    /\ bridge.at = "nested" => bridge.nested \in Ids /\ bridge.nested <= requestID
    /\ incoming \in Seq(ClearMessages)
    /\ responseChan \in Seq(ClearMessages)
    /\ router.msg \in ClearMessages
    /\ corr.at \in {"lookup", "stop", "send"} => Clear(corr.resp)
    /\ outgoing \in Seq(MadeRequests)

\* The bridge is counted by the wait group for which Close waits.
BridgeCounted ==
    /\ bridge.at # "exited" => wg >= 1
    /\ NoHandlerAfterClose

InProcessTypes == HandlerTransportTypeOK /\ InProcessTypeOK

InProcessIInv ==
    IInv /\ InProcessTypes /\ BridgeCounted /\ InFlight /\ NestedCallUnanswered

\* A channel of messages of one kind is one of messages of a wider kind.
LEMMA WiderSeq ==
    ASSUME NEW S, NEW T, S \subseteq T
    PROVE  Seq(S) \subseteq Seq(T)
OBVIOUS

\* Every key is a natural number, and no message has the key 0.
LEMMA KeyType == (\A w \in WireIds : KeyOf(w) \in Nat) /\ KeyOf(NoId) = 0
BY DEF WireIds, KeyOf, NoId

\* As long as no handler starts to wait for anything but the next request,
\* an id that is clear stays so.
LEMMA ClearStays ==
    ASSUME TypeOK, requestID' \in Nat, requestID' >= requestID,
           \/ bridge'.at # "nested"
           \/ bridge.at = "nested" /\ bridge'.nested = bridge.nested
           \/ bridge'.nested = requestID + 1
    PROVE  /\ \A w \in WireIds : Clear(w) => Clear(w)'
           /\ ClearMessages \subseteq ClearMessages'
           /\ MadeRequests \subseteq MadeRequests'
<1>0. requestID \in Nat
  BY ConstantsTyped DEF TypeOK
<1>1. ASSUME NEW w \in WireIds, Clear(w) PROVE Clear(w)'
  <2>1. KeyOf(w) \in Nat /\ KeyOf(w)' = KeyOf(w)
    BY KeyType DEF KeyOf
  <2> QED BY <1>0, <1>1, <2>1 DEF Clear
<1>2. \A m \in Messages : m.id \in WireIds
  BY DEF Messages
<1>3. \A m \in OutgoingMessages : m.id \in Nat
  BY DEF OutgoingMessages
<1> QED BY <1>0, <1>1, <1>2, <1>3 DEF ClearMessages, MadeRequests

\* Under the same condition what is on its way stays clear where it is.
LEMMA FlightKept ==
    ASSUME TypeOK, InFlight, requestID' \in Nat, requestID' >= requestID,
           \/ bridge'.at # "nested"
           \/ bridge.at = "nested" /\ bridge'.nested = bridge.nested
           \/ bridge'.nested = requestID + 1
    PROVE  /\ incoming \in Seq(ClearMessages')
           /\ responseChan \in Seq(ClearMessages')
           /\ router.msg \in ClearMessages'
           /\ corr' = corr
                  => (corr.at \in {"lookup", "stop", "send"} => Clear(corr.resp)')
           /\ outgoing \in Seq(MadeRequests')
<1>1. /\ \A w \in WireIds : Clear(w) => Clear(w)'
      /\ ClearMessages \subseteq ClearMessages'
      /\ MadeRequests \subseteq MadeRequests'
  BY ClearStays
<1>2. /\ Seq(ClearMessages) \subseteq Seq(ClearMessages')
      /\ Seq(MadeRequests) \subseteq Seq(MadeRequests')
  BY <1>1, WiderSeq
<1>3. ASSUME corr' = corr, corr.at \in {"lookup", "stop", "send"}
      PROVE  Clear(corr.resp)'
  <2>1. corr.resp \in WireIds /\ Clear(corr.resp)
    BY <1>3 DEF TypeOK, CorrValues, InFlight
  <2>2. KeyOf(corr.resp)' = KeyOf(corr.resp) 
    BY <1>3 DEF KeyOf
  <2> QED BY <1>1, <1>3, <2>1, <2>2 DEF Clear
<1> QED BY <1>1, <1>2, <1>3 DEF InFlight

\* The transport and the bridge, as a step of the handler leaves them.
LEMMA TransportKept ==
    ASSUME InProcessTypes, BridgeCounted, UNCHANGED <<closeVars, inProcessVars>>
    PROVE  InProcessTypes' /\ BridgeCounted'
BY DEF InProcessTypes, HandlerTransportTypeOK, InProcessTypeOK, BridgeCounted,
       NoHandlerAfterClose, closeVars, inProcessVars

\* The router passes on what it took, or drops it.
LEMMA RouterKeepsFlight ==
    ASSUME InProcessIInv, TypeOK', Router, UNCHANGED inProcessVars
    PROVE  InFlight' /\ NestedCallUnanswered'
<1>1. /\ UNCHANGED <<requestID, call, buf, corr, outgoing, bridge>>
      /\ TypeOK /\ InFlight
  BY DEF Router, RouterTakes, RouterForwards, RouterSeesDone, callVars, chanVars,
         flowVars, inProcessVars, InProcessIInv, IInv
<1>2. requestID \in Nat /\ ClearMessages' = ClearMessages /\ MadeRequests' = MadeRequests
  BY <1>1, ConstantsTyped
  DEF TypeOK, ClearMessages, MadeRequests, Clear, KeyOf
<1>3. NoMsg \in ClearMessages
  BY <1>1, <1>2, KeyType, NoMsgType
  DEF ClearMessages, Clear, NoMsg, InFlight, Ids
<1>4. CASE RouterTakes
  <2>1. /\ incoming # <<>> /\ incoming' = Tail(incoming)
        /\ router' = [at |-> "route", msg |-> Head(incoming)]
        /\ responseChan' = responseChan
    BY <1>4 DEF RouterTakes
  <2>2. incoming' \in Seq(ClearMessages) /\ router'.msg \in ClearMessages
    BY <1>1, <2>1, NonEmpty DEF InFlight
  <2> QED BY <1>1, <1>2, <2>1, <2>2
          DEF InFlight, NestedCallUnanswered, InProcessIInv, Clear, KeyOf
<1>5. CASE RouterForwards \/ RouterSeesDone
  <2>1. /\ router'.msg = NoMsg /\ incoming' = incoming
        /\ responseChan' = responseChan \/ responseChan' = Append(responseChan, router.msg)
    BY <1>5 DEF RouterForwards, RouterSeesDone, flowVars
  <2>2. responseChan' \in Seq(ClearMessages)
    BY <1>1, <2>1, Appended DEF InFlight
  <2> QED BY <1>1, <1>2, <1>3, <2>1, <2>2
          DEF InFlight, NestedCallUnanswered, InProcessIInv, Clear, KeyOf
<1> QED BY <1>4, <1>5 DEF Router

\* correlateResponse sends a response to no other request than its own.
LEMMA CorrelatorKeepsFlight ==
    ASSUME InProcessIInv, TypeOK', Correlator, UNCHANGED inProcessVars
    PROVE  InFlight' /\ NestedCallUnanswered'
<1>1. /\ UNCHANGED <<requestID, call, outgoing, incoming, router, bridge>>
      /\ TypeOK /\ InFlight /\ HeldByKey /\ NestedCallUnanswered
  BY DEF Correlator, CorrTakes, CorrLooksUp, CorrStopsTimer, CorrSends, CorrCloses,
         CorrSeesDone, callVars, chanVars, flowVars, inProcessVars, InProcessIInv, IInv
<1>2. requestID \in Nat /\ ClearMessages' = ClearMessages /\ MadeRequests' = MadeRequests
  BY <1>1, ConstantsTyped
  DEF TypeOK, ClearMessages, MadeRequests, Clear, KeyOf
<1>3. \A w \in WireIds : Clear(w) => Clear(w)'
  BY <1>1 DEF Clear, KeyOf
<1>4. corr \in CorrValues
  BY <1>1 DEF TypeOK
<1>5. CASE CorrTakes
  <2>1. /\ responseChan # <<>> /\ responseChan' = Tail(responseChan)
        /\ corr' = [at |-> "lookup", id |-> 0, resp |-> Head(responseChan).id]
        /\ buf' = buf
    BY <1>5 DEF CorrTakes, chanVars
  <2>2. responseChan' \in Seq(ClearMessages) /\ Head(responseChan) \in ClearMessages
    BY <1>1, <2>1, NonEmpty DEF InFlight
  <2>3. Clear(corr'.resp)
    BY <2>1, <2>2 DEF ClearMessages
  <2>4. Clear(corr.resp)'
    BY <1>1, <2>3 DEF Clear, KeyOf
  <2> QED BY <1>1, <1>2, <2>1, <2>2, <2>4 DEF InFlight, NestedCallUnanswered
<1>6. CASE ~CorrTakes
  <2>1. responseChan' = responseChan
    BY <1>6 DEF Correlator, CorrLooksUp, CorrStopsTimer, CorrSends, CorrCloses,
                CorrSeesDone, flowVars
  <2>2. corr'.at \in {"lookup", "stop", "send"}
            => corr.at \in {"lookup", "stop", "send"} /\ corr'.resp = corr.resp
    <3>1. CASE CorrLooksUp
      <4>1. CASE KeyOf(corr.resp) \in pending
        BY <1>4, <3>1, <4>1 DEF CorrLooksUp, CorrValues
      <4>2. CASE KeyOf(corr.resp) \notin pending
        BY <3>1, <4>2 DEF CorrLooksUp, CorrIdle
      <4> QED BY <4>1, <4>2
    <3>2. CASE CorrStopsTimer
      BY <1>4, <3>2 DEF CorrStopsTimer, CorrValues
    <3>3. CASE CorrSends
      BY <1>4, <3>3 DEF CorrSends, CorrValues
    <3>4. CASE CorrCloses
      BY <3>4 DEF CorrCloses, CorrIdle
    <3>5. CASE CorrSeesDone
      BY <1>4, <3>5 DEF CorrSeesDone, CorrValues
    <3> QED BY <1>6, <3>1, <3>2, <3>3, <3>4, <3>5 DEF Correlator
  <2>3. corr'.at \in {"lookup", "stop", "send"} => Clear(corr.resp)'
    BY <1>1, <2>2 DEF InFlight, Clear, KeyOf
  <2>4. bridge.at = "nested" => buf'[bridge.nested] = buf[bridge.nested]
    <3>1. CASE CorrSends /\ bridge.at = "nested" /\ ~closed[corr.id]
      <4>1. corr.at = "send" /\ corr.id = KeyOf(corr.resp) /\ corr.id # bridge.nested
        BY <1>1, <3>1 DEF CorrSends, HeldByKey, InFlight, Clear
      <4> QED BY <1>1, <3>1, <4>1 DEF CorrSends, TypeOK, InFlight
    <3>2. CASE CorrSends /\ closed[corr.id]
      BY <3>2 DEF CorrSends
    <3>3. CASE ~CorrSends
      BY <1>6, <3>3 DEF Correlator, CorrLooksUp, CorrStopsTimer, CorrCloses,
                        CorrSeesDone, chanVars
    <3> QED BY <3>1, <3>2, <3>3
  <2>5. InFlight'
    BY <1>1, <1>2, <2>1, <2>3 DEF InFlight
  <2>6. NestedCallUnanswered'
    BY <1>1, <2>4 DEF NestedCallUnanswered
  <2> QED BY <2>5, <2>6
<1> QED BY <1>5, <1>6

\* A request is numbered after all those on their way.
LEMMA SendRequestKeepsFlight ==
    ASSUME InProcessIInv, TypeOK', SendRequest,
           \/ bridge' = bridge
           \/ /\ bridge'.at = "nested" /\ bridge'.id = bridge.id
              /\ bridge'.nested = requestID + 1
    PROVE  InFlight' /\ NestedCallUnanswered'
<1>1. /\ requestID' = requestID + 1 /\ requestID < MaxRequests
      /\ call' = [call EXCEPT ![requestID + 1] = "created"]
      /\ UNCHANGED <<buf, corr, flowVars, router>>
      /\ TypeOK /\ InFlight /\ Ownership /\ NestedCallUnanswered
  BY DEF SendRequest, chanVars, InProcessIInv, IInv
<1>2. requestID \in Nat /\ requestID' \in Nat /\ requestID' >= requestID
  BY <1>1, ConstantsTyped DEF TypeOK
<1>3. requestID' \in Ids
  BY <1>1, <1>2, ConstantsTyped DEF Ids
<1>4. /\ incoming \in Seq(ClearMessages')
      /\ responseChan \in Seq(ClearMessages')
      /\ router.msg \in ClearMessages'
      /\ corr.at \in {"lookup", "stop", "send"} => Clear(corr.resp)'
      /\ outgoing \in Seq(MadeRequests')
  BY <1>1, <1>2, FlightKept
<1>5. bridge'.id <= requestID'
  BY <1>1, <1>2 DEF InFlight, InProcessIInv, InProcessTypes, InProcessTypeOK, Bridges
<1>6. bridge'.at = "nested" =>
          /\ bridge'.nested \in Ids /\ bridge'.nested <= requestID'
          /\ call'[bridge'.nested] # "answered" /\ buf[bridge'.nested] = NoId
  <2>1. CASE bridge' = bridge
    <3>1. bridge.at = "nested" => bridge.nested \in Nat /\ bridge.nested <= requestID
      BY <1>1, IdsAreNat DEF InFlight
    <3> QED BY <1>1, <1>2, <2>1, <3>1 DEF InFlight, NestedCallUnanswered, TypeOK
  <2>2. CASE bridge'.nested = requestID + 1
    <3>1. Owned(requestID + 1)
      BY <1>1, <1>3 DEF Ownership
    <3>2. call[requestID + 1] = "none" /\ buf[requestID + 1] = NoId
      BY <1>2, <3>1 DEF Owned
    <3>3. call'[requestID + 1] = "created"
      BY <1>1, <1>3 DEF TypeOK
    <3> QED BY <1>1, <1>2, <1>3, <2>2, <3>2, <3>3
  <2> QED BY <2>1, <2>2
<1>7. InFlight'
  BY <1>1, <1>4, <1>5, <1>6 DEF InFlight, flowVars
<1> QED BY <1>1, <1>6, <1>7 DEF NestedCallUnanswered

\* A caller puts its own request on the way, and receives what its channel has;
\* timers and Close do neither.
LEMMA CallersKeepFlight ==
    ASSUME InProcessIInv, TypeOK', UNCHANGED inProcessVars,
           \/ \E i \in Ids : Caller(i) \/ Timer(i)
           \/ CloseAllPending
    PROVE  InFlight' /\ NestedCallUnanswered'
<1>1. /\ UNCHANGED <<requestID, incoming, responseChan, router, corr, bridge>>
      /\ TypeOK /\ InFlight /\ Ownership /\ NestedCallUnanswered
  BY DEF Caller, Timer, StorePending, EnqueueRequest, FailRequest, Receive, Abandon,
         TimerFires, TimerRemoves, TimerCloses, CloseAllPending, callVars,
         flowVars, inProcessVars, InProcessIInv, IInv
<1>2. /\ requestID \in Nat /\ ClearMessages' = ClearMessages
      /\ MadeRequests' = MadeRequests
      /\ Clear(corr.resp)' = Clear(corr.resp)
  BY <1>1, ConstantsTyped
  DEF TypeOK, ClearMessages, MadeRequests, Clear, KeyOf
<1>3. outgoing' \in Seq(MadeRequests)
  <2>1. ASSUME NEW i \in Ids, EnqueueRequest(i) PROVE outgoing' \in Seq(MadeRequests)
    <3>1. call[i] = "stored" /\ Owned(i) /\ i \in Nat
      BY <1>1, <2>1, IdsAreNat DEF EnqueueRequest, Ownership
    <3>2. i <= requestID
      BY <1>2, <3>1 DEF Owned
    <3>3. [kind |-> "request", id |-> i] \in MadeRequests
      BY <3>1, <3>2 DEF MadeRequests, OutgoingMessages
    <3>4. outgoing' = Append(outgoing, [kind |-> "request", id |-> i])
      BY <2>1 DEF EnqueueRequest
    <3> QED BY <1>1, <3>3, <3>4, Appended DEF InFlight
  <2>2. CASE outgoing' = outgoing
    BY <1>1, <2>2 DEF InFlight
  <2>3. ASSUME NEW i \in Ids, Caller(i) \/ Timer(i), ~EnqueueRequest(i)
        PROVE  outgoing' = outgoing
    BY <2>3 DEF Caller, Timer, StorePending, FailRequest, Receive, Abandon,
                TimerFires, TimerRemoves, TimerCloses, flowVars
  <2> QED BY <2>1, <2>2, <2>3 DEF CloseAllPending, flowVars
<1>4. ASSUME NEW n \in Ids, call[n] # "answered", buf[n] = NoId
      PROVE  call'[n] # "answered" /\ buf'[n] = NoId
  <2>1. ASSUME NEW i \in Ids, Receive(i)
        PROVE  call'[n] # "answered" /\ buf'[n] = NoId
    BY <1>1, <1>4, <2>1 DEF Receive, TypeOK
  <2>2. ASSUME NEW i \in Ids, Caller(i) \/ Timer(i), ~Receive(i)
        PROVE  call'[n] # "answered" /\ buf'[n] = NoId
    BY <1>1, <1>4, <2>2
    DEF Caller, Timer, StorePending, EnqueueRequest, FailRequest, Abandon, TimerFires,
        TimerRemoves, TimerCloses, callVars, chanVars, TypeOK
  <2>3. CASE CloseAllPending
    BY <1>4, <2>3 DEF CloseAllPending, callVars
  <2> QED BY <2>1, <2>2, <2>3
<1>5. InFlight'
  BY <1>1, <1>2, <1>3 DEF InFlight
<1> QED BY <1>1, <1>4, <1>5 DEF InFlight, NestedCallUnanswered

\* Every step of the handler over the in-process transport.
LEMMA InProcessHandlerStep ==
    ASSUME InProcessIInv, HandlerStep, UNCHANGED <<closeVars, inProcessVars>>
    PROVE  InProcessIInv'
<1>1. IInv'
  BY HandlerStepIsNext, NextKeeps DEF InProcessIInv
<1>2. TypeOK' /\ UNCHANGED inProcessVars /\ bridge' = bridge
  BY <1>1 DEF IInv, inProcessVars
<1>3. InFlight' /\ NestedCallUnanswered'
  <2>1. CASE SendRequest
    BY <1>2, <2>1, SendRequestKeepsFlight
  <2>2. CASE Router
    BY <1>2, <2>2, RouterKeepsFlight
  <2>3. CASE Correlator
    BY <1>2, <2>3, CorrelatorKeepsFlight
  <2>4. CASE (\E i \in Ids : Caller(i) \/ Timer(i)) \/ CloseAllPending
    BY <1>2, <2>4, CallersKeepFlight
  <2> QED BY <2>1, <2>2, <2>3, <2>4 DEF HandlerStep, SendEnds, Caller
<1> QED BY <1>1, <1>3, TransportKept DEF InProcessIInv

\* What the bridge is between two requests.
LEMMA BridgeAtType ==
    \A w \in {"idle", "handler", "nested", "respond", "exited"} :
        /\ BridgeAt(w) \in Bridges
        /\ BridgeAt(w).at = w /\ BridgeAt(w).id = 0 /\ BridgeAt(w).nested = 0
BY ConstantsTyped DEF BridgeAt, Bridges

\* The steps of the bridge that leave the handler alone.
LEMMA BridgeAlone ==
    ASSUME InProcessIInv,
           NestedReturns \/ HandlerReturns \/ BridgeSeesDone
    PROVE  InProcessIInv'
<1>1. /\ UNCHANGED <<vars, closer, registered>>
      /\ bridge.at # "exited"
      /\ TypeOK /\ InFlight
  BY DEF NestedReturns, HandlerReturns, BridgeSeesDone, closeVars, InProcessIInv, IInv
<1>2. IInv'
  BY <1>1, StutterKeeps DEF InProcessIInv
<1>3. bridge \in Bridges /\ wg \in 0 .. 4 /\ wg >= 1
  BY <1>1 DEF InProcessIInv, InProcessTypes, HandlerTransportTypeOK, InProcessTypeOK,
              BridgeCounted
<1>4. /\ bridge' \in Bridges
      /\ bridge'.at # "nested"
      /\ bridge'.id = bridge.id \/ bridge'.id = 0
  BY <1>3, BridgeAtType, ConstantsTyped
  DEF NestedReturns, HandlerReturns, BridgeSeesDone, Bridges
<1>5. wg' = wg \/ (bridge'.at = "exited" /\ wg' = wg - 1)
  BY BridgeAtType DEF NestedReturns, HandlerReturns, BridgeSeesDone, closeVars
<1>6. wg' \in 0 .. 4 /\ (bridge'.at # "exited" => wg' >= 1)
  BY <1>3, <1>5
<1>7. InProcessTypes' /\ BridgeCounted'
  BY <1>1, <1>4, <1>6
  DEF InProcessIInv, InProcessTypes, HandlerTransportTypeOK, InProcessTypeOK,
      BridgeCounted, NoHandlerAfterClose
<1>8. requestID \in Nat /\ requestID' = requestID
  BY <1>1, ConstantsTyped DEF TypeOK, vars, callVars
<1>9. InFlight'
  BY <1>1, <1>4, <1>8, FlightKept DEF InFlight, vars, flowVars
<1> QED BY <1>2, <1>4, <1>7, <1>9 DEF InProcessIInv, NestedCallUnanswered

\* The bridge takes a request, which was made, or a one-way message.
LEMMA BridgeTakesKeeps ==
    ASSUME InProcessIInv, BridgeTakes
    PROVE  InProcessIInv'
<1> DEFINE m == Head(outgoing)
<1>1. /\ outgoing # <<>> /\ outgoing' = Tail(outgoing)
      /\ UNCHANGED <<requestID, incoming, responseChan, router, corr>>
      /\ UNCHANGED <<wg, closer, registered>>
      /\ bridge.at = "idle"
      /\ TypeOK /\ InFlight
  BY DEF BridgeTakes, TransportTakesOutgoing, closeVars, callVars, InProcessIInv, IInv
<1>2. IInv'
  <2>1. Next
    BY DEF BridgeTakes, Next, Transport
  <2> QED BY <2>1, NextKeeps DEF InProcessIInv
<1>3. m \in MadeRequests /\ outgoing' \in Seq(MadeRequests)
  BY <1>1, NonEmpty DEF InFlight
<1>4. m.id \in Nat /\ m.id <= requestID /\ requestID \in 0 .. MaxRequests
  BY <1>1, <1>3 DEF MadeRequests, OutgoingMessages, TypeOK
<1>5. /\ bridge' \in Bridges /\ bridge'.at \in {"idle", "handler", "respond"}
      /\ bridge'.id <= requestID
  <2>1. CASE bridge' = bridge
    BY <1>1, <2>1
    DEF InProcessIInv, InProcessTypes, InProcessTypeOK, InFlight
  <2>2. ASSUME NEW next \in {"respond", "handler"},
               bridge' = [BridgeAt(next) EXCEPT !.id = m.id]
        PROVE  /\ bridge' \in Bridges /\ bridge'.at \in {"idle", "handler", "respond"}
               /\ bridge'.id <= requestID
    <3>1. m.id \in 0 .. MaxRequests
      BY <1>4, ConstantsTyped
    <3> QED BY <1>4, <2>2, <3>1, BridgeAtType DEF Bridges
  <2>3. bridge' \in {bridge} \cup HandleRequest(m.id)
    BY DEF BridgeTakes
  <2>4. bridge' = bridge \/ \E next \in {"respond", "handler"} :
                                bridge' = [BridgeAt(next) EXCEPT !.id = m.id]
    BY <2>3 DEF HandleRequest
  <2> HIDE DEF m
  <2> QED BY <2>1, <2>2, <2>4
<1>6. InProcessTypes' /\ BridgeCounted'
  BY <1>1, <1>5
  DEF InProcessIInv, InProcessTypes, HandlerTransportTypeOK, InProcessTypeOK,
      BridgeCounted, NoHandlerAfterClose
<1>7. /\ incoming \in Seq(ClearMessages')
      /\ responseChan \in Seq(ClearMessages')
      /\ router.msg \in ClearMessages'
      /\ corr.at \in {"lookup", "stop", "send"} => Clear(corr.resp)'
  BY <1>1, <1>4, <1>5, FlightKept
<1>8. MadeRequests' = MadeRequests
  BY <1>1 DEF MadeRequests
<1>9. InFlight'
  BY <1>1, <1>3, <1>5, <1>7, <1>8 DEF InFlight
<1> QED BY <1>2, <1>5, <1>6, <1>9 DEF InProcessIInv, NestedCallUnanswered

\* The bridge answers the request it took, while nobody waits in a handler.
LEMMA BridgeRespondsKeeps ==
    ASSUME InProcessIInv, BridgeResponds
    PROVE  InProcessIInv'
<1>1. PICK m \in {Answer(bridge.id), [kind |-> "malformed", id |-> NoId]} :
          TransportDelivers(m)
  BY DEF BridgeResponds
<1>2. /\ incoming' = Append(incoming, m)
      /\ bridge.at = "respond" /\ bridge' = BridgeAt("idle")
      /\ UNCHANGED <<requestID, outgoing, responseChan, router, corr>>
      /\ UNCHANGED <<wg, closer, registered>>
      /\ TypeOK /\ InFlight
  BY <1>1 DEF BridgeResponds, TransportDelivers, callVars, closeVars, InProcessIInv, IInv
<1>3. bridge.id \in Nat /\ bridge.id <= requestID /\ requestID \in Nat
  BY <1>2, ConstantsTyped
  DEF InProcessIInv, InProcessTypes, InProcessTypeOK, Bridges, InFlight, TypeOK,
      ConstantsTyped
<1>4. m \in Messages /\ KeyOf(m.id) <= requestID
  <2>1. CASE m = Answer(bridge.id)
    BY <1>3, <2>1, AnswerType
  <2>2. CASE m = [kind |-> "malformed", id |-> NoId]
    BY <1>3, <2>2, NoiseType, KeyType DEF Kinds
  <2> QED BY <1>1, <2>1, <2>2
<1>5. IInv'
  BY <1>1, <1>4, DeliveryKeeps DEF InProcessIInv
<1>6. bridge' \in Bridges /\ bridge'.at = "idle" /\ bridge'.id = 0
  BY <1>2, BridgeAtType
<1>7. InProcessTypes' /\ BridgeCounted'
  BY <1>2, <1>6
  DEF InProcessIInv, InProcessTypes, HandlerTransportTypeOK, InProcessTypeOK,
      BridgeCounted, NoHandlerAfterClose
<1>8. m \in ClearMessages'
  BY <1>2, <1>4, <1>6 DEF ClearMessages, Clear, KeyOf
<1>9. /\ incoming \in Seq(ClearMessages')
      /\ responseChan \in Seq(ClearMessages')
      /\ router.msg \in ClearMessages'
      /\ corr.at \in {"lookup", "stop", "send"} => Clear(corr.resp)'
      /\ outgoing \in Seq(MadeRequests')
  BY <1>2, <1>3, <1>6, FlightKept
<1>10. incoming' \in Seq(ClearMessages')
  BY <1>2, <1>8, <1>9, Appended
<1>11. InFlight'
  BY <1>2, <1>3, <1>6, <1>9, <1>10 DEF InFlight
<1> QED BY <1>5, <1>6, <1>7, <1>11 DEF InProcessIInv, NestedCallUnanswered

\* A handler of the server calls back.
LEMMA HandlerCallsKeeps ==
    ASSUME InProcessIInv, HandlerCalls
    PROVE  InProcessIInv'
<1>1. /\ SendRequest /\ requestID' = requestID + 1 /\ requestID < MaxRequests
      /\ bridge.at = "handler"
      /\ bridge' = [bridge EXCEPT !.at = "nested", !.nested = requestID']
      /\ UNCHANGED <<wg, closer, registered>>
      /\ TypeOK /\ bridge \in Bridges
  BY DEF HandlerCalls, SendRequest, closeVars, InProcessIInv, IInv, InProcessTypes,
         InProcessTypeOK
<1>2. IInv'
  BY <1>1, NextKeeps DEF Next, InProcessIInv
<1>3. requestID' \in 0 .. MaxRequests
  BY <1>2 DEF IInv, TypeOK
<1>4. /\ bridge' \in Bridges /\ bridge'.at = "nested"
      /\ bridge'.id = bridge.id /\ bridge'.nested = requestID + 1
  BY <1>1, <1>3 DEF Bridges
<1>5. InFlight' /\ NestedCallUnanswered'
  BY <1>1, <1>2, <1>4, SendRequestKeepsFlight DEF IInv
<1>6. InProcessTypes' /\ BridgeCounted'
  BY <1>1, <1>4
  DEF InProcessIInv, InProcessTypes, HandlerTransportTypeOK, InProcessTypeOK,
      BridgeCounted, NoHandlerAfterClose
<1> QED BY <1>2, <1>5, <1>6 DEF InProcessIInv

\* Registration, the other goroutines and Close, which waits for all of them.
LEMMA InProcessCloses ==
    ASSUME InProcessIInv,
           AddHandler \/ RelayExits \/ InProcessCloseCancels \/ InProcessClose
    PROVE  InProcessIInv'
<1>1. /\ UNCHANGED <<callVars, flowVars, chanVars, router, corr, bridge>>
      /\ TypeOK /\ InFlight /\ NestedCallUnanswered
  BY DEF AddHandler, RelayExits, InProcessCloseCancels, InProcessClose,
         InProcessCloseWaits, InProcessCloseReturns, Cancel, CloseCancels, vars,
         inProcessVars, InProcessIInv, IInv
<1>2. IInv'
  <2>1. Cancel \/ Next \/ UNCHANGED vars
    BY DEF AddHandler, RelayExits, InProcessCloseCancels, InProcessClose,
           InProcessCloseWaits, InProcessCloseReturns, Next, Shutdown
  <2> QED BY <2>1, CancelKeeps, NextKeeps, StutterKeeps DEF InProcessIInv
<1>3. wg \in 0 .. 4 /\ registered \in BOOLEAN /\ closer \in CloserStates /\ bridge \in Bridges
  BY DEF InProcessIInv, InProcessTypes, HandlerTransportTypeOK, InProcessTypeOK
<1>4. InProcessTypes' /\ BridgeCounted'
  <2>1. CASE AddHandler
    BY <1>3, <2>1
    DEF AddHandler, closeVars, InProcessIInv, InProcessTypes, HandlerTransportTypeOK,
        InProcessTypeOK, BridgeCounted, NoHandlerAfterClose
  <2>2. CASE RelayExits
    <3>1. /\ wg' = wg - 1 /\ UNCHANGED <<closer, registered, bridge>>
          /\ wg > (IF bridge.at = "exited" THEN 0 ELSE 1)
      BY <2>2 DEF RelayExits, inProcessVars
    <3>2. wg' \in 0 .. 4 /\ (bridge.at # "exited" => wg' >= 1)
      BY <1>3, <3>1
    <3> QED BY <1>3, <3>1, <3>2
            DEF InProcessIInv, InProcessTypes, HandlerTransportTypeOK, InProcessTypeOK,
                BridgeCounted, NoHandlerAfterClose
  <2>3. CASE InProcessCloseCancels \/ InProcessClose
    <3>1. /\ UNCHANGED <<wg, registered, bridge>>
          /\ closer' \in CloserStates
          /\ \/ closer' = "waiting"
             \/ closer' = "draining" /\ wg = 0
             \/ closer' = "returned" /\ closer = "draining"
      BY <2>3 DEF InProcessCloseCancels, InProcessClose, InProcessCloseWaits,
                  InProcessCloseReturns, Drained, CloserStates, inProcessVars
    <3> QED BY <1>3, <3>1
            DEF InProcessIInv, InProcessTypes, HandlerTransportTypeOK, InProcessTypeOK,
                BridgeCounted, NoHandlerAfterClose
  <2> QED BY <2>1, <2>2, <2>3
<1>5. requestID \in Nat /\ requestID' = requestID
  BY <1>1, ConstantsTyped DEF TypeOK, callVars
<1>6. InFlight'
  BY <1>1, <1>5, FlightKept DEF InFlight, flowVars
<1>7. NestedCallUnanswered'
  BY <1>1 DEF NestedCallUnanswered, callVars, chanVars
<1> QED BY <1>2, <1>4, <1>6, <1>7 DEF InProcessIInv

\* Every step of the in-process transport.
LEMMA InProcessStep == InProcessIInv /\ InProcessNext => InProcessIInv'
BY InProcessHandlerStep, BridgeAlone, BridgeTakesKeeps, BridgeRespondsKeeps,
   HandlerCallsKeeps, InProcessCloses
DEF InProcessNext, Bridge

-----------------------------------------------------------------------------
(***************************************************************************)
(* The handler over any of the transports                                  *)
(***************************************************************************)

\* What the run handler_transports adds to the handler's invariant: the states
\* of both transports, and the argument of the one the behaviour is about.
TransportsIInv ==
    /\ IInv
    /\ HandlerTransportTypeOK
    /\ InProcessTypeOK
    /\ SSETypeOK
    /\ transport = "inprocess" => BridgeCounted /\ InFlight /\ NestedCallUnanswered
    /\ transport = "sse" => SSEInv
    /\ transport # "inprocess" => bridge.at # "nested"

\* It holds when the transport has been started.
LEMMA TransportsInvInit == TransportsInit => TransportsIInv
<1> SUFFICES ASSUME TransportsInit PROVE TransportsIInv
  OBVIOUS
<1>1. IInv /\ requestID = 0
  BY InvInit DEF TransportsInit, Init
<1>2. HandlerTransportTypeOK
  BY DEF TransportsInit, HandlerTransportTypeOK, CloserStates
<1>3. bridge \in Bridges /\ bridge.at = "idle" /\ bridge.id = 0
  BY BridgeAtType DEF TransportsInit, InProcessInit
<1>4. stream \in Streams /\ stream.at = "dialing" /\ stream.event = NoMsg
  BY StreamAtType DEF TransportsInit, SSEInit
<1>5. InProcessTypeOK /\ SSETypeOK
  <2>1. /\ registered = FALSE /\ post = "idle" /\ reconnectCount = 0
        /\ userChan \in [UserKinds -> 0 .. BufferSize]
    BY DEF TransportsInit, InProcessInit, SSEInit
  <2>2. 0 \in 0 .. MaxReconnects
    BY SSEAssumption DEF SSEAssumption
  <2> QED BY <1>3, <1>4, <2>1, <2>2 DEF InProcessTypeOK, SSETypeOK
<1>6. NoMsg \in ClearMessages
  BY <1>1, <1>3, KeyType, NoMsgType DEF ClearMessages, Clear, NoMsg
<1>7. InFlight
  BY <1>1, <1>3, <1>6 DEF TransportsInit, Init, CorrIdle, InFlight
<1>8. transport = "inprocess" => BridgeCounted
  BY DEF TransportsInit, BridgeCounted, NoHandlerAfterClose
<1>9. transport = "sse" => SSEInv
  BY <1>4 DEF TransportsInit, SSEInit, SSEInv, NoGoroutineAfterClose
<1> QED BY <1>1, <1>2, <1>3, <1>5, <1>7, <1>8, <1>9
        DEF TransportsIInv, NestedCallUnanswered

\* Every step over every transport preserves it.
LEMMA TransportsStep == TransportsIInv /\ TransportsNext => TransportsIInv'
<1> SUFFICES ASSUME TransportsIInv, TransportsNext PROVE TransportsIInv'
  OBVIOUS
<1>0. transport' = transport
  BY DEF TransportsNext
<1>1. CASE OnAny
  <2>1. Next /\ UNCHANGED <<closeVars, inProcessVars, sseVars>>
        /\ transport # "inprocess" /\ transport # "sse"
    BY <1>1 DEF OnAny
  <2>2. IInv'
    BY <2>1, NextKeeps DEF TransportsIInv
  <2> QED BY <1>0, <2>1, <2>2
          DEF TransportsIInv, HandlerTransportTypeOK, InProcessTypeOK, SSETypeOK,
              closeVars, inProcessVars, sseVars
<1>2. CASE OnInProcess
  <2>1. transport = "inprocess" /\ InProcessNext /\ UNCHANGED sseVars
    BY <1>2 DEF OnInProcess
  <2>2. InProcessIInv
    BY <2>1 DEF TransportsIInv, InProcessIInv, InProcessTypes
  <2>3. InProcessIInv'
    BY <2>1, <2>2, InProcessStep
  <2> QED BY <1>0, <2>1, <2>3
          DEF TransportsIInv, InProcessIInv, InProcessTypes, SSETypeOK, sseVars
<1>3. CASE OnSSE
  <2>1. transport = "sse" /\ SSENext /\ UNCHANGED inProcessVars
    BY <1>3 DEF OnSSE
  <2>2. SSEIInv
    BY <2>1 DEF TransportsIInv, SSEIInv
  <2>3. SSEIInv'
    BY <2>1, <2>2, SSEStep
  <2> QED BY <1>0, <2>1, <2>3
          DEF TransportsIInv, SSEIInv, InProcessTypeOK, inProcessVars
<1> QED BY <1>1, <1>2, <1>3 DEF TransportsNext

\* It holds throughout every run over every transport.
LEMMA TransportsInductive == TransportsSpec => []TransportsIInv
<1>1. TransportsIInv /\ UNCHANGED allVars => TransportsIInv'
  <2> SUFFICES ASSUME TransportsIInv, UNCHANGED allVars PROVE TransportsIInv'
    OBVIOUS
  <2>1. UNCHANGED vars /\ UNCHANGED <<closeVars, inProcessVars, sseVars, transport>>
    BY DEF allVars
  <2>2. IInv'
    BY <2>1, StutterKeeps DEF TransportsIInv
  <2>3. HandlerTransportTypeOK' /\ InProcessTypeOK' /\ SSETypeOK'
    BY <2>1 DEF TransportsIInv, HandlerTransportTypeOK, InProcessTypeOK, SSETypeOK,
                closeVars, inProcessVars, sseVars
  <2>4. BridgeCounted' = BridgeCounted /\ SSEInv' = SSEInv
    BY <2>1 DEF BridgeCounted, SSEInv, NoHandlerAfterClose, NoGoroutineAfterClose,
                closeVars, inProcessVars, sseVars
  <2>5. InFlight' = InFlight /\ NestedCallUnanswered' = NestedCallUnanswered
    BY <2>1 DEF InFlight, NestedCallUnanswered, ClearMessages, MadeRequests, Clear,
                KeyOf, vars, callVars, chanVars, flowVars, inProcessVars
  <2> QED BY <2>1, <2>2, <2>3, <2>4, <2>5 DEF TransportsIInv, inProcessVars
<1> QED BY <1>1, TransportsInvInit, TransportsStep, PTL DEF TransportsSpec

\* Over each of the transports: Close returns after every goroutine of the
\* transport has ended, and a handler of the in-process server that calls back
\* over its own transport is never answered.
THEOREM TransportsSound == TransportsSpec => []TransportsInv
<1>1. TransportsIInv => TransportsInv
  BY DEF TransportsIInv, TransportsInv, IInv, BridgeCounted, SSEInv,
         NestedCallUnanswered
<1> QED BY <1>1, TransportsInductive, PTL

\* What the handler promises does not depend on the transport around it.
THEOREM HandlerSoundOverTransports ==
    TransportsSpec => /\ [](OpenChannelHasCloser /\ PanicNeedsTimeout /\ AnswerIsFinal)
                      /\ CloseReleasesWaiters
<1>1. TransportsIInv => OpenChannelHasCloser /\ PanicNeedsTimeout /\ AnswerIsFinal
  BY DEF TransportsIInv, IInv, Ownership, Owned, OpenChannelHasCloser, AnswerIsFinal
<1>2. TransportsIInv /\ [TransportsNext]_allVars
        => [CloseAllPending /\ panicked' = NoPanic
                => \A i \in Ids : call[i] = "waiting"
                       => closed'[i] \/ Held(i) \/ TimerStarted(i)]_vars
  BY Released DEF TransportsIInv
<1> QED BY <1>1, <1>2, TransportsInductive, PTL DEF TransportsSpec, CloseReleasesWaiters

-----------------------------------------------------------------------------
(***************************************************************************)
(* ProgressHandler: a MessageHandler with requests that have timers of     *)
(* their own.  Its context, its counter and what the peer sends are those  *)
(* of the MessageHandler; of outgoing only the length matters there.       *)
(***************************************************************************)
\* Request i has been in the map, and never comes into it again.
Stored(i) == progress[i] \notin {"none", "created"}

\* Ids are given in order.
ProgressNumbered == \A i \in Ids : i > requestID => progress[i] = "none"

\* Only stored requests are in the map or in the hands of Close, and never in
\* both.
ProgressStored ==
    /\ \A i \in tracked \cup cleanup : Stored(i)
    /\ cleanup \cap tracked = {}

\* A request is taken from the map by one callback, which closes its channel.
TakenOnce ==
    \A i \in Ids :
        /\ ending[i] \in {"stop", "close", "done"} => Stored(i) /\ i \notin tracked
        /\ ended[i] = IF ending[i] = "done" THEN 1 ELSE 0

\* What will end request i, or has come too early to do so.
HasTimer(i) ==
    \/ clock[i].timer = "armed" \/ clock[i].total = "armed"
    \/ expiring[i] > 0
    \/ notifier = [at |-> "rearm", id |-> i]
    \/ ending[i] = "missed"

\* A request has a timer from the beginning, before it is in the map.
ProgressTimed == \A i \in Ids : i \in tracked \/ progress[i] = "created" => HasTimer(i)

\* Progress is about a request there is.
NotifierKnows == notifier.at # "idle" => notifier.id \in Ids

ProgressIInv ==
    /\ ProgressTypeOK
    /\ ProgressNumbered
    /\ ProgressStored
    /\ TakenOnce
    /\ ProgressTimed
    /\ NotifierKnows

ClockStates == {"none", "armed", "stopped", "fired"}
Clocks == [timer : ClockStates, total : ClockStates]

\* Stopping a timer never arms nor forgets one.
LEMMA ClockStops ==
    ASSUME NEW c \in Clocks
    PROVE  /\ StoppedClock(c) \in Clocks
           /\ [c EXCEPT !.timer = Stopped(c.timer)] \in Clocks
  BY DEF StoppedClock, Stopped, Clocks, ClockStates

LEMMA ProgressBegins ==
    ASSUME ProgressInit
    PROVE  ProgressIInv
  <1> USE BoundsAssumption, ProgressAssumption
  <1>1. ProgressTypeOK
    <2>1. /\ 0 \in 0 .. MaxRequests /\ 0 \in 0 .. BufferSize /\ 0 \in 0 .. MaxIncoming
          /\ 0 \in 0 .. MaxProgress
      OBVIOUS
    <2>2. clock \in [Ids -> Clocks]
      BY DEF ProgressInit, NoClock, Clocks, ClockStates
    <2>3. notifier \in [at : {"idle", "callback", "rearm"}, id : Ids \cup {0}]
      BY DEF ProgressInit, NoNotification
    <2>4. expiring \in [Ids -> Nat] /\ ended \in [Ids -> Nat]
      BY DEF ProgressInit
    <2> HIDE BoundsAssumption, ProgressAssumption
    <2> QED BY <2>1, <2>2, <2>3, <2>4 DEF ProgressInit, ProgressTypeOK, Clocks,
               ClockStates
  <1> QED BY <1>1 DEF ProgressInit, ProgressIInv, ProgressNumbered, ProgressStored,
             TakenOnce, ProgressTimed, NotifierKnows, NoNotification

\* The caller of a request.
LEMMA ProgressCallerStep ==
    ASSUME ProgressIInv,
           SendWithProgress \/ \E i \in Ids : ProgressCaller(i)
    PROVE  ProgressIInv'
  <1> USE BoundsAssumption, ProgressAssumption
  <1>1. CASE SendWithProgress
    <2>1. PICK total \in {"armed", "none"} :
             clock' = [clock EXCEPT ![requestID + 1] =
                          [timer |-> "armed", total |-> total]]
      BY <1>1 DEF SendWithProgress
    <2>2. /\ requestID \in Nat /\ requestID < MaxRequests
          /\ requestID + 1 \in Ids /\ requestID' = requestID + 1
          /\ progress[requestID + 1] = "none"
          /\ progress' = [progress EXCEPT ![requestID + 1] = "created"]
          /\ UNCHANGED <<ctxDone, outgoingLength, notifications, arrivals, tracked,
                         expiring, ending, ended, notifier, injected, consumer,
                         cleanup, shutdown, forsaken>>
      BY <1>1 DEF SendWithProgress, progressCloseVars, ProgressIInv,
         ProgressTypeOK, ProgressNumbered, Ids
    <2>3. ProgressTypeOK'
      <3>1. clock' \in [Ids -> Clocks]
        BY <2>1 DEF ProgressIInv, ProgressTypeOK, Clocks, ClockStates
      <3>2. /\ requestID' \in 0 .. MaxRequests
            /\ progress' \in [Ids -> {"none", "created", "stored", "waiting",
                                      "noResponse", "abandoned", "failed"}]
        BY <2>2 DEF ProgressIInv, ProgressTypeOK
      <3> QED BY <2>2, <3>1, <3>2 DEF ProgressIInv, ProgressTypeOK, Clocks,
                 ClockStates
    <2>4. \A i \in Ids : Stored(i)' <=> Stored(i)
      BY <2>2 DEF ProgressIInv, ProgressTypeOK, Stored
    <2>5. ProgressNumbered' /\ NotifierKnows'
      BY <2>2 DEF ProgressIInv, ProgressTypeOK, ProgressNumbered, NotifierKnows, Ids
    <2>6. ProgressStored' /\ TakenOnce'
      BY <2>2, <2>4 DEF ProgressIInv, ProgressTypeOK, ProgressStored, TakenOnce
    <2>7. ProgressTimed'
      BY <2>1, <2>2 DEF ProgressIInv, ProgressTypeOK, ProgressTimed, HasTimer
    <2> QED BY <2>3, <2>5, <2>6, <2>7 DEF ProgressIInv
  <1>2. ASSUME NEW i \in Ids, StoreProgress(i)
        PROVE  ProgressIInv'
    <2>1. /\ progress[i] = "created"
          /\ progress' = [progress EXCEPT ![i] = "stored"]
          /\ tracked' = tracked \cup {i}
          /\ UNCHANGED <<ctxDone, requestID, outgoingLength, notifications, arrivals,
                         clock, expiring, ending, ended, notifier, injected,
                         consumer, cleanup, shutdown, forsaken>>
      BY <1>2 DEF StoreProgress, progressCloseVars, baseVars
    <2>2. ProgressTypeOK'
      BY <2>1 DEF ProgressIInv, ProgressTypeOK
    <2>3. ProgressNumbered' /\ NotifierKnows'
      BY <2>1 DEF ProgressIInv, ProgressTypeOK, ProgressNumbered, NotifierKnows
    <2>4. ProgressStored' /\ TakenOnce'
      BY <2>1 DEF ProgressIInv, ProgressTypeOK, ProgressStored, TakenOnce, Stored
    <2>5. ProgressTimed'
      BY <2>1 DEF ProgressIInv, ProgressTypeOK, ProgressTimed, HasTimer
    <2> QED BY <2>2, <2>3, <2>4, <2>5 DEF ProgressIInv
  <1>3. ASSUME NEW i \in Ids,
               \/ EnqueueProgress(i) \/ ProgressReturns(i)
               \/ AbandonProgress(i)
        PROVE  ProgressIInv'
    <2>1. /\ \E p \in {"waiting", "noResponse", "abandoned"} :
                 progress' = [progress EXCEPT ![i] = p]
          /\ Stored(i)
          /\ outgoingLength' \in 0 .. BufferSize
          /\ UNCHANGED <<ctxDone, requestID, notifications, arrivals, tracked,
                         clock, expiring, ending, ended, notifier, injected,
                         consumer, cleanup, shutdown, forsaken>>
      BY <1>3 DEF EnqueueProgress, ProgressReturns, Stored,
         AbandonProgress, progressCloseVars, baseVars,
         ProgressIInv, ProgressTypeOK
    <2>2. ProgressTypeOK'
      BY <2>1 DEF ProgressIInv, ProgressTypeOK
    <2>3. ProgressNumbered' /\ NotifierKnows'
      BY <2>1 DEF ProgressIInv, ProgressTypeOK, ProgressNumbered, NotifierKnows,
         Stored
    <2>4. ProgressStored' /\ TakenOnce'
      BY <2>1 DEF ProgressIInv, ProgressTypeOK, ProgressStored, TakenOnce, Stored
    <2>5. ProgressTimed'
      BY <2>1 DEF ProgressIInv, ProgressTypeOK, ProgressTimed, HasTimer
    <2> QED BY <2>2, <2>3, <2>4, <2>5 DEF ProgressIInv
  <1>4. ASSUME NEW i \in Ids, FailProgress(i)
        PROVE  ProgressIInv'
    <2>1. /\ progress[i] = "stored"
          /\ progress' = [progress EXCEPT ![i] = "failed"]
          /\ tracked' = tracked \ {i}
          /\ clock' = [clock EXCEPT ![i] = IF i \in tracked
                                           THEN StoppedClock(@) ELSE @]
          /\ UNCHANGED <<ctxDone, requestID, outgoingLength, notifications, arrivals,
                         expiring, ending, ended, notifier, injected,
                         consumer, cleanup, shutdown, forsaken>>
      BY <1>4 DEF FailProgress, progressCloseVars, baseVars
    <2>2. ProgressTypeOK'
      <3>1. clock' \in [Ids -> Clocks]
        BY <2>1, ClockStops DEF ProgressIInv, ProgressTypeOK, Clocks, ClockStates
      <3> QED BY <2>1, <3>1 DEF ProgressIInv, ProgressTypeOK, Clocks, ClockStates
    <2>3. ProgressNumbered' /\ NotifierKnows'
      BY <2>1 DEF ProgressIInv, ProgressTypeOK, ProgressNumbered, NotifierKnows
    <2>4. ProgressStored' /\ TakenOnce'
      BY <2>1 DEF ProgressIInv, ProgressTypeOK, ProgressStored, TakenOnce, Stored
    <2>5. ProgressTimed'
      BY <2>1 DEF ProgressIInv, ProgressTypeOK, ProgressTimed, HasTimer
    <2> QED BY <2>2, <2>3, <2>4, <2>5 DEF ProgressIInv
  <1> QED BY <1>1, <1>2, <1>3, <1>4 DEF ProgressCaller

\* The timers of a request.
LEMMA ProgressExpiryStep ==
    ASSUME ProgressIInv,
           NEW i \in Ids, Clock(i) \/ Expiry(i)
    PROVE  ProgressIInv'
  <1> USE BoundsAssumption, ProgressAssumption
  <1>1. ASSUME NEW t \in {"timer", "total"}, ClockFires(i, t)
        PROVE  ProgressIInv'
    <2>1. /\ clock' = [clock EXCEPT ![i][t] = "fired"]
          /\ expiring' = [expiring EXCEPT ![i] = @ + 1]
          /\ UNCHANGED <<ctxDone, requestID, outgoingLength, notifications, arrivals,
                         progress, tracked, ending, ended, notifier, injected,
                         consumer, cleanup, shutdown, forsaken>>
      BY <1>1 DEF ClockFires, progressCloseVars, baseVars
    <2>2. ProgressTypeOK' /\ expiring'[i] > 0
      <3>1. clock' \in [Ids -> Clocks]
        <4>1. clock \in [Ids -> Clocks]
          BY DEF ProgressIInv, ProgressTypeOK, Clocks, ClockStates
        <4>2. [clock[i] EXCEPT ![t] = "fired"] \in Clocks
          BY <4>1 DEF Clocks, ClockStates
        <4> QED BY <2>1, <4>1, <4>2
      <3>2. expiring' \in [Ids -> Nat] /\ expiring'[i] > 0
        BY <2>1 DEF ProgressIInv, ProgressTypeOK
      <3> QED BY <2>1, <3>1, <3>2 DEF ProgressIInv, ProgressTypeOK, Clocks,
                 ClockStates
    <2>3. /\ ProgressNumbered' /\ NotifierKnows'
          /\ ProgressStored' /\ TakenOnce'
      BY <2>1 DEF ProgressIInv, ProgressNumbered, NotifierKnows, ProgressStored,
         TakenOnce, Stored
    <2>4. ProgressTimed'
      BY <2>1, <2>2 DEF ProgressIInv, ProgressTypeOK, ProgressTimed, HasTimer
    <2> QED BY <2>2, <2>3, <2>4 DEF ProgressIInv
  <1>2. CASE ExpiryTakes(i)
    <2>1. /\ expiring[i] > 0
          /\ expiring' = [expiring EXCEPT ![i] = @ - 1]
          /\ tracked' = tracked \ {i}
          /\ ending' = [ending EXCEPT ![i] = IF i \in tracked THEN "stop"
                                             ELSE IF progress[i] = "created"
                                                  THEN "missed" ELSE @]
          /\ UNCHANGED <<ctxDone, requestID, outgoingLength, notifications, arrivals,
                         progress, clock, ended, notifier, injected,
                         consumer, cleanup, shutdown, forsaken>>
      BY <1>2 DEF ExpiryTakes, progressCloseVars, baseVars
    <2>2. ProgressTypeOK'
      <3>1. expiring' \in [Ids -> Nat]
        BY <2>1 DEF ProgressIInv, ProgressTypeOK
      <3> QED BY <2>1, <3>1 DEF ProgressIInv, ProgressTypeOK
    <2>3. ProgressNumbered' /\ NotifierKnows' /\ ProgressStored'
      BY <2>1 DEF ProgressIInv, ProgressNumbered, NotifierKnows, ProgressStored,
         Stored
    <2>4. TakenOnce'
      BY <2>1 DEF ProgressIInv, ProgressTypeOK, ProgressStored, TakenOnce, Stored
    <2>5. /\ i \notin tracked' /\ (progress'[i] = "created" => ending'[i] = "missed")
          /\ \A j \in Ids \ {i} : ending'[j] = ending[j] /\ expiring'[j] = expiring[j]
      BY <2>1 DEF ProgressIInv, ProgressTypeOK, ProgressStored, Stored
    <2>6. ProgressTimed'
      BY <2>1, <2>5 DEF ProgressIInv, ProgressTimed, HasTimer
    <2> QED BY <2>2, <2>3, <2>4, <2>6 DEF ProgressIInv
  <1>3. CASE ExpiryStopsClock(i)
    <2>1. /\ ending[i] = "stop"
          /\ clock' = [clock EXCEPT ![i] = StoppedClock(@)]
          /\ ending' = [ending EXCEPT ![i] = "close"]
          /\ UNCHANGED <<ctxDone, requestID, outgoingLength, notifications, arrivals,
                         progress, tracked, expiring, ended, notifier, injected,
                         consumer, cleanup, shutdown, forsaken>>
      BY <1>3 DEF ExpiryStopsClock, progressCloseVars, baseVars
    <2>2. ProgressTypeOK'
      <3>1. clock' \in [Ids -> Clocks]
        BY <2>1, ClockStops DEF ProgressIInv, ProgressTypeOK, Clocks, ClockStates
      <3> QED BY <2>1, <3>1 DEF ProgressIInv, ProgressTypeOK, Clocks, ClockStates
    <2>3. ProgressNumbered' /\ NotifierKnows' /\ ProgressStored'
      BY <2>1 DEF ProgressIInv, ProgressNumbered, NotifierKnows, ProgressStored,
         Stored
    <2>4. TakenOnce' /\ Stored(i) /\ i \notin tracked
      BY <2>1 DEF ProgressIInv, ProgressTypeOK, TakenOnce, Stored
    <2>5. ProgressTimed'
      BY <2>1, <2>4 DEF ProgressIInv, ProgressTypeOK, ProgressTimed, HasTimer, Stored
    <2> QED BY <2>2, <2>3, <2>4, <2>5 DEF ProgressIInv
  <1>4. CASE ExpiryCloses(i)
    <2>1. /\ ending[i] = "close"
          /\ ending' = [ending EXCEPT ![i] = "done"]
          /\ ended' = [ended EXCEPT ![i] = @ + 1]
          /\ UNCHANGED <<ctxDone, requestID, outgoingLength, notifications, arrivals,
                         progress, tracked, clock, expiring, notifier, injected,
                         consumer, cleanup, shutdown, forsaken>>
      BY <1>4 DEF ExpiryCloses, progressCloseVars, baseVars
    <2>2. ProgressTypeOK'
      BY <2>1 DEF ProgressIInv, ProgressTypeOK
    <2>3. ProgressNumbered' /\ NotifierKnows' /\ ProgressStored'
      BY <2>1 DEF ProgressIInv, ProgressNumbered, NotifierKnows, ProgressStored,
         Stored
    <2>4. TakenOnce'
      BY <2>1 DEF ProgressIInv, ProgressTypeOK, TakenOnce, Stored
    <2>5. ProgressTimed'
      BY <2>1 DEF ProgressIInv, ProgressTypeOK, ProgressTimed, HasTimer
    <2> QED BY <2>2, <2>3, <2>4, <2>5 DEF ProgressIInv
  <1> QED BY <1>1, <1>2, <1>3, <1>4 DEF Clock, Expiry

\* Progress, which is looked up in the map and arms a timer after that.
LEMMA ProgressNotifierStep ==
    ASSUME ProgressIInv,
           Notifier \/ \E i \in Ids : ProgressInjected(i)
    PROVE  ProgressIInv'
  <1> USE BoundsAssumption, ProgressAssumption
  <1>1. clock \in [Ids -> Clocks]
    BY DEF ProgressIInv, ProgressTypeOK, Clocks, ClockStates
  <1>2. ASSUME NEW i \in Ids, ProgressInjected(i)
        PROVE  ProgressIInv'
    <2>1. /\ injected < MaxProgress /\ injected' = injected + 1
          /\ notifier.at = "idle" /\ notifier' = [at |-> "callback", id |-> i]
          /\ UNCHANGED <<ctxDone, requestID, outgoingLength, notifications, arrivals,
                         progress, tracked, clock, expiring, ending, ended,
                         consumer, cleanup, shutdown, forsaken>>
      BY <1>2 DEF ProgressInjected, progressCloseVars, baseVars,
         requestVars
    <2>2. ProgressTypeOK'
      BY <2>1 DEF ProgressIInv, ProgressTypeOK
    <2>3. ProgressNumbered' /\ NotifierKnows' /\ ProgressStored' /\ TakenOnce'
      BY <2>1 DEF ProgressIInv, ProgressNumbered, NotifierKnows, ProgressStored,
         TakenOnce, Stored
    <2>4. ProgressTimed'
      BY <2>1 DEF ProgressIInv, ProgressTimed, HasTimer
    <2> QED BY <2>2, <2>3, <2>4 DEF ProgressIInv
  <1>3. CASE CallbackReturns
    <2>1. /\ notifier.at = "callback" /\ notifier.id \in Ids
          /\ notifier \in [at : {"idle", "callback", "rearm"}, id : Ids \cup {0}]
          /\ UNCHANGED <<ctxDone, requestID, outgoingLength, notifications, arrivals,
                         progress, tracked, expiring, ending, ended, injected,
                         consumer, cleanup, shutdown, forsaken>>
      BY <1>3 DEF CallbackReturns, progressCloseVars, baseVars,
         ProgressIInv, ProgressTypeOK, NotifierKnows
    <2>2. ProgressNumbered' /\ ProgressStored' /\ TakenOnce'
      BY <2>1 DEF ProgressIInv, ProgressNumbered, ProgressStored, TakenOnce, Stored
    <2>3. CASE notifier' = NoNotification /\ clock' = clock
      <3>1. ProgressTypeOK' /\ NotifierKnows'
        BY <2>1, <2>3 DEF ProgressIInv, ProgressTypeOK, NotifierKnows,
           NoNotification
      <3>2. ProgressTimed'
        BY <2>1, <2>3 DEF ProgressIInv, ProgressTimed, HasTimer
      <3> QED BY <2>2, <3>1, <3>2 DEF ProgressIInv
    <2>4. CASE /\ notifier' = [notifier EXCEPT !.at = "rearm"]
               /\ clock' = [clock EXCEPT ![notifier.id].timer = Stopped(@)]
      <3>1. clock' = [clock EXCEPT ![notifier.id] =
                          [clock[notifier.id] EXCEPT !.timer =
                              Stopped(clock[notifier.id].timer)]]
        BY <2>4
      <3>2. clock' \in [Ids -> Clocks]
        <4>1. clock[notifier.id] \in Clocks
          BY <1>1, <2>1
        <4>2. [clock[notifier.id] EXCEPT !.timer =
                  Stopped(clock[notifier.id].timer)] \in Clocks
          BY <4>1, ClockStops
        <4> QED BY <1>1, <3>1, <4>2
      <3>3. notifier' = [at |-> "rearm", id |-> notifier.id]
        BY <2>1, <2>4
      <3>4. ProgressTypeOK' /\ NotifierKnows'
        BY <2>1, <3>2, <3>3 DEF ProgressIInv, ProgressTypeOK, NotifierKnows, Clocks,
           ClockStates
      <3>5. \A i \in Ids \ {notifier.id} : clock'[i] = clock[i]
        BY <1>1, <2>1, <3>1
      <3>6. ProgressTimed'
        BY <2>1, <3>3, <3>5 DEF ProgressIInv, ProgressTimed, HasTimer
      <3> QED BY <2>2, <3>4, <3>6 DEF ProgressIInv
    <2> QED BY <1>3, <2>3, <2>4 DEF CallbackReturns
  <1>4. CASE Rearms
    <2>1. /\ notifier.at = "rearm" /\ notifier.id \in Ids
          /\ notifier \in [at : {"idle", "callback", "rearm"}, id : Ids \cup {0}]
          /\ notifier' = NoNotification
          /\ clock' = [clock EXCEPT ![notifier.id] = [@ EXCEPT !.timer = "armed"]]
          /\ UNCHANGED <<ctxDone, requestID, outgoingLength, notifications, arrivals,
                         progress, tracked, expiring, ending, ended, injected,
                         consumer, cleanup, shutdown, forsaken>>
      BY <1>4 DEF Rearms, progressCloseVars, baseVars,
         ProgressIInv, ProgressTypeOK, NotifierKnows
    <2>2. ProgressNumbered' /\ ProgressStored' /\ TakenOnce'
      BY <2>1 DEF ProgressIInv, ProgressNumbered, ProgressStored, TakenOnce, Stored
    <2>3. clock' \in [Ids -> Clocks]
      <3>1. [clock[notifier.id] EXCEPT !.timer = "armed"] \in Clocks
        BY <1>1, <2>1 DEF Clocks, ClockStates
      <3> QED BY <1>1, <2>1, <3>1
    <2>4. ProgressTypeOK' /\ NotifierKnows'
      BY <2>1, <2>3 DEF ProgressIInv, ProgressTypeOK, NotifierKnows, Clocks,
         ClockStates, NoNotification
    <2>5. /\ \A i \in Ids \ {notifier.id} : clock'[i] = clock[i]
          /\ clock'[notifier.id].timer = "armed"
      BY <1>1, <2>1 DEF Clocks
    <2>6. ProgressTimed'
      BY <2>1, <2>5 DEF ProgressIInv, ProgressTimed, HasTimer
    <2> QED BY <2>2, <2>4, <2>6 DEF ProgressIInv
  <1> QED BY <1>2, <1>3, <1>4 DEF Notifier

\* Close, which empties the map before it stops the timers of what was in it.
LEMMA ProgressCloseStep ==
    ASSUME ProgressIInv, Close
    PROVE  ProgressIInv'
  <1> USE BoundsAssumption, ProgressAssumption
  <1>1. CASE CloseTakesRequests
    <2>1. /\ cleanup' = tracked /\ tracked' = {}
          /\ shutdown' = "cleaning" /\ forsaken' = forsaken \cup tracked
          /\ UNCHANGED <<ctxDone, requestID, outgoingLength, notifications, arrivals,
                         progress, clock, expiring, ending, ended, notifier,
                         injected, consumer>>
      BY <1>1 DEF CloseTakesRequests, baseVars
    <2> QED BY <2>1 DEF ProgressIInv, ProgressTypeOK, ProgressNumbered,
               ProgressStored, TakenOnce, ProgressTimed, HasTimer, NotifierKnows,
               Stored
  <1>2. CASE CloseStopsClocks
    <2>1. /\ cleanup' = {} /\ shutdown' = "base"
          /\ clock' = [i \in Ids |-> IF i \in cleanup
                                     THEN StoppedClock(clock[i])
                                     ELSE clock[i]]
          /\ UNCHANGED <<ctxDone, requestID, outgoingLength, notifications, arrivals,
                         progress, tracked, expiring, ending, ended, notifier,
                         injected, consumer, forsaken>>
      BY <1>2 DEF CloseStopsClocks, baseVars
    <2>2. clock' \in [Ids -> Clocks]
      BY <2>1, ClockStops DEF ProgressIInv, ProgressTypeOK, Clocks, ClockStates
    <2>3. ProgressTypeOK'
      BY <2>1, <2>2 DEF ProgressIInv, ProgressTypeOK, Clocks, ClockStates
    <2>4. ProgressNumbered' /\ NotifierKnows' /\ ProgressStored' /\ TakenOnce'
      BY <2>1 DEF ProgressIInv, ProgressNumbered, NotifierKnows, ProgressStored,
         TakenOnce, Stored
    <2>5. ProgressTimed'
      BY <2>1 DEF ProgressIInv, ProgressStored, ProgressTimed, HasTimer, Stored
    <2> QED BY <2>3, <2>4, <2>5 DEF ProgressIInv
  <1>3. CASE CloseBase
    BY <1>3 DEF CloseBase, requestVars, ProgressIInv,
       ProgressTypeOK, ProgressNumbered, ProgressStored, TakenOnce, ProgressTimed,
       HasTimer, NotifierKnows, Stored
  <1> QED BY <1>1, <1>2, <1>3 DEF Close

\* What does not touch the requests.
LEMMA ProgressOtherStep ==
    ASSUME ProgressIInv,
           \/ Consumer \/ ContextCancelled
           \/ OutgoingTaken \/ NotificationArrives
           \/ UNCHANGED progressVars
    PROVE  ProgressIInv'
  <1> USE BoundsAssumption, ProgressAssumption
  <1>1. UNCHANGED <<requestID, progress, tracked, clock, expiring, ending, ended,
                    notifier, injected, cleanup, shutdown, forsaken>>
    BY DEF Consumer, ConsumerTakes, ConsumerExits,
       ContextCancelled, OutgoingTaken,
       NotificationArrives, progressVars, baseVars,
       requestVars, progressCloseVars
  <1>2. /\ outgoingLength' \in 0 .. BufferSize /\ notifications' \in 0 .. BufferSize
        /\ arrivals' \in 0 .. MaxIncoming /\ ctxDone' \in BOOLEAN
        /\ consumer' \in {"idle", "exited"}
    <2>1. /\ outgoingLength \in 0 .. BufferSize /\ notifications \in 0 .. BufferSize
          /\ arrivals \in 0 .. MaxIncoming /\ ctxDone \in BOOLEAN
          /\ consumer \in {"idle", "exited"}
      BY DEF ProgressIInv, ProgressTypeOK
    <2>2. CASE ConsumerTakes
      BY <2>1, <2>2 DEF ConsumerTakes
    <2>6. CASE ConsumerExits
      BY <2>1, <2>6 DEF ConsumerExits, baseVars
    <2>3. CASE ContextCancelled
      BY <2>1, <2>3 DEF ContextCancelled
    <2>7. CASE OutgoingTaken
      BY <2>1, <2>7 DEF OutgoingTaken
    <2>4. CASE NotificationArrives
      BY <2>1, <2>4 DEF NotificationArrives
    <2>5. CASE UNCHANGED progressVars
      BY <2>1, <2>5 DEF progressVars, baseVars
    <2> QED BY <2>2, <2>3, <2>4, <2>5, <2>6, <2>7 DEF Consumer
  <1>3. ProgressTypeOK'
    BY <1>1, <1>2 DEF ProgressIInv, ProgressTypeOK
  <1>4. ProgressNumbered' /\ NotifierKnows' /\ ProgressStored' /\ TakenOnce'
    BY <1>1 DEF ProgressIInv, ProgressNumbered, NotifierKnows, ProgressStored,
       TakenOnce, Stored
  <1>5. ProgressTimed'
    BY <1>1 DEF ProgressIInv, ProgressTimed, HasTimer
  <1> QED BY <1>3, <1>4, <1>5 DEF ProgressIInv

\* Those that Close has taken have been stored, and no callback has taken them or
\* will; and a caller that has seen its channel closed had it closed by a callback.
ForsakenIInv ==
    /\ \A i \in forsaken : /\ Stored(i) /\ i \notin tracked
                           /\ ending[i] \in {"no", "missed"}
    /\ \A i \in Ids : progress[i] = "noResponse" => ending[i] = "done"

LEMMA ForsakenCallerStep ==
    ASSUME ProgressIInv, ForsakenIInv,
           SendWithProgress \/ \E i \in Ids : ProgressCaller(i)
    PROVE  ForsakenIInv'
  <1>1. progress \in [Ids -> {"none", "created", "stored", "waiting",
                              "noResponse", "abandoned", "failed"}]
    BY DEF ProgressIInv, ProgressTypeOK
  <1>2. CASE SendWithProgress
    <2>1. requestID + 1 \in Ids /\ progress[requestID + 1] = "none"
      BY <1>2, BoundsAssumption DEF SendWithProgress, ProgressIInv, ProgressTypeOK,
         ProgressNumbered, Ids
    <2>2. /\ progress' = [progress EXCEPT ![requestID + 1] = "created"]
          /\ UNCHANGED <<tracked, ending, forsaken>>
      BY <1>2 DEF SendWithProgress, progressCloseVars
    <2> QED BY <1>1, <2>1, <2>2 DEF ForsakenIInv, Stored
  <1>3. ASSUME NEW i \in Ids, StoreProgress(i)
        PROVE  ForsakenIInv'
    <2>1. /\ progress[i] = "created"
          /\ progress' = [progress EXCEPT ![i] = "stored"]
          /\ tracked' = tracked \cup {i}
          /\ UNCHANGED <<ending, forsaken>>
      BY <1>3 DEF StoreProgress, progressCloseVars
    <2> QED BY <1>1, <2>1 DEF ForsakenIInv, Stored
  <1>4. ASSUME NEW i \in Ids,
               EnqueueProgress(i) \/ AbandonProgress(i) \/ FailProgress(i)
        PROVE  ForsakenIInv'
    <2>1. /\ \E q \in {"waiting", "abandoned", "failed"} :
                 progress' = [progress EXCEPT ![i] = q]
          /\ tracked' \subseteq tracked
          /\ UNCHANGED <<ending, forsaken>>
      BY <1>4 DEF EnqueueProgress, AbandonProgress, FailProgress, progressCloseVars
    <2> QED BY <1>1, <2>1 DEF ForsakenIInv, Stored
  <1>5. ASSUME NEW i \in Ids, ProgressReturns(i)
        PROVE  ForsakenIInv'
    <2>1. /\ ended[i] > 0
          /\ progress' = [progress EXCEPT ![i] = "noResponse"]
          /\ UNCHANGED <<tracked, ending, forsaken>>
      BY <1>5 DEF ProgressReturns, progressCloseVars
    <2>2. ending[i] = "done"
      BY <2>1 DEF ProgressIInv, TakenOnce
    <2> QED BY <1>1, <2>1, <2>2 DEF ForsakenIInv, Stored
  <1> QED BY <1>2, <1>3, <1>4, <1>5 DEF ProgressCaller

LEMMA ForsakenExpiryStep ==
    ASSUME ProgressIInv, ForsakenIInv, NEW i \in Ids, Expiry(i)
    PROVE  ForsakenIInv'
  <1>1. /\ ending \in [Ids -> {"no", "missed", "stop", "close", "done"}]
        /\ forsaken \subseteq Ids
    BY DEF ProgressIInv, ProgressTypeOK
  <1>2. ending[i] = "done" => Stored(i) /\ i \notin tracked
    BY DEF ProgressIInv, TakenOnce
  <1>3. /\ UNCHANGED <<progress, forsaken>>
        /\ tracked' \subseteq tracked
        /\ \A j \in Ids \ {i} : ending'[j] = ending[j]
        /\ \/ ending'[i] = ending[i]
           \/ i \in tracked
           \/ ~Stored(i)
           \/ ending[i] \in {"stop", "close"}
    BY <1>1 DEF Expiry, ExpiryTakes, ExpiryStopsClock, ExpiryCloses, Stored,
       progressCloseVars
  <1>4. \A j \in forsaken : ending'[j] = ending[j]
    BY <1>1, <1>3 DEF ForsakenIInv
  <1>5. \A j \in Ids : ending[j] = "done" => ending'[j] = "done"
    BY <1>2, <1>3
  <1> QED BY <1>3, <1>4, <1>5 DEF ForsakenIInv, Stored

\* Close takes what no callback has taken.
LEMMA ForsakenCloseStep ==
    ASSUME ProgressIInv, ForsakenIInv, CloseTakesRequests
    PROVE  ForsakenIInv'
  <1>1. /\ forsaken' = forsaken \cup tracked /\ tracked' = {}
        /\ UNCHANGED <<progress, ending>>
    BY DEF CloseTakesRequests, requestVars
  <1>2. \A i \in tracked : Stored(i) /\ ending[i] \in {"no", "missed"}
    BY DEF ProgressIInv, ProgressTypeOK, ProgressStored, TakenOnce
  <1> QED BY <1>1, <1>2 DEF ForsakenIInv, Stored

LEMMA ForsakenStep ==
    ProgressIInv /\ ForsakenIInv /\ [ProgressNext]_progressVars => ForsakenIInv'
  <1> SUFFICES ASSUME ProgressIInv, ForsakenIInv, [ProgressNext]_progressVars
               PROVE  ForsakenIInv'
    OBVIOUS
  <1>1. ASSUME UNCHANGED <<progress, tracked, ending, forsaken>>
        PROVE  ForsakenIInv'
    BY <1>1 DEF ForsakenIInv, Stored
  <1>2. CASE UNCHANGED progressVars
    BY <1>1, <1>2 DEF progressVars, requestVars, progressCloseVars
  <1>3. ASSUME NEW i \in Ids, Clock(i) \/ ProgressInjected(i)
        PROVE  ForsakenIInv'
    BY <1>1, <1>3 DEF Clock, ClockFires, ProgressInjected, requestVars,
       progressCloseVars
  <1>4. CASE Notifier \/ Consumer
    BY <1>1, <1>4 DEF Notifier, CallbackReturns, Rearms, Consumer, ConsumerTakes,
       ConsumerExits, requestVars, progressCloseVars
  <1>5. CASE CloseStopsClocks \/ CloseBase
    BY <1>1, <1>5 DEF CloseStopsClocks, CloseBase, requestVars
  <1>6. CASE ContextCancelled \/ OutgoingTaken \/ NotificationArrives
    BY <1>1, <1>6 DEF ContextCancelled, OutgoingTaken, NotificationArrives,
       requestVars, progressCloseVars
  <1> QED BY <1>2, <1>3, <1>4, <1>5, <1>6, ForsakenCallerStep, ForsakenExpiryStep,
             ForsakenCloseStep DEF ProgressNext, Close

\* SendRequestWithProgress, its timers, progress and Close
\* (progress_handler.go:63-340), however they race each other: only the callback
\* that took a request from the map closes its channel, a request in the map has
\* a timer, or a callback that came too early, and of the requests that Close has
\* taken no channel is ever closed.
THEOREM ProgressTimersSound == ProgressSpec => []ProgressInv
  <1>1. ProgressInit => ProgressIInv /\ ForsakenIInv
    BY ProgressBegins DEF ProgressInit, ForsakenIInv
  <1>2. ProgressIInv /\ [ProgressNext]_progressVars => ProgressIInv'
    BY ProgressCallerStep, ProgressExpiryStep, ProgressNotifierStep,
       ProgressCloseStep, ProgressOtherStep DEF ProgressNext
  <1>3. ProgressIInv /\ ForsakenIInv => ProgressInv
    <2> SUFFICES ASSUME ProgressIInv, ForsakenIInv PROVE ProgressInv
      OBVIOUS
    <2>1. OneExpiryCloses
      BY DEF ProgressIInv, TakenOnce, OneExpiryCloses
    <2>2. TrackedHasTimer
      BY DEF ProgressIInv, ProgressTypeOK, ProgressTimed, HasTimer,
         TrackedHasTimer
    <2>3. ForsakenStayOpen
      BY DEF ProgressIInv, ProgressTypeOK, TakenOnce, ForsakenIInv, ForsakenStayOpen
    <2> QED BY <2>1, <2>2, <2>3 DEF ProgressIInv, ProgressInv
  <1>4. ProgressSpec => [](ProgressIInv /\ ForsakenIInv)
    BY <1>1, <1>2, ForsakenStep, PTL DEF ProgressSpec
  <1> QED BY <1>3, <1>4, PTL

=============================================================================
