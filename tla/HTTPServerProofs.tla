-------------------------- MODULE HTTPServerProofs --------------------------
(***************************************************************************)
(* Theorems about HTTPServerEvents, for any number of calls, streams and   *)
(* notifications and any buffer size.                                      *)
(*                                                                         *)
(* What is true of the calls rests on their ids being distinct: then the   *)
(* entry under the id of a call is its own or none, a worker finds no      *)
(* other, and whatever it does concerns this call alone.                   *)
(***************************************************************************)
EXTENDS HTTPServerEvents, TLAPS

\* No two calls have the same id.  (Clients that number their requests from 1
\* break it: HTTPServerSharedIds.cfg.)
DistinctIds == \A c, d \in Calls : Id[c] = Id[d] => c = d

(***************************************************************************)
(* The inductive invariant                                                 *)
(***************************************************************************)
Queued(c) == \E k \in DOMAIN queue : queue[k] = c

\* The response of c has come to its channel, or its client.
Answered(c) == buf[c] = c \/ outcome[c] = Answer(c)
Delivered(c) == buf[c] = c \/ call[c] = "ended"

\* The response of c goes to the streams.
Broadcast(c) == \/ \E k \in DOMAIN outgoing : outgoing[k] = Response(c)
                \/ bridge.message = Response(c)

CallOK(c) ==
    \* A POST hands its request over once,
    /\ Queued(c) => work[c] = "none"
    /\ call[c] \in {"none", "store", "enqueue"} => work[c] = "none" /\ ~Queued(c)
    \* what is kept for it is its own,
    /\ {pending[Id[c]], found[c], buf[c]} \subseteq {NoCall, c}
    /\ work[c] = "send" => found[c] = c
    /\ outcome[c].kind = "answer" => outcome[c].for = c
    \* a timer that is out of use has done its work, or the response has,
    /\ call[c] = "none" <=> timer[c] = "none"
    /\ timer[c] = "expired" => closed[c]
    /\ timer[c] = "stopped" \/ work[c] = "remove" => Delivered(c)
    \* and the response goes to the POST or to the streams.
    /\ Answered(c) => work[c] \in {"remove", "done"} /\ ~Broadcast(c)
    /\ Broadcast(c) => work[c] = "done"

CallsInv ==
    /\ \A c \in Calls : CallOK(c)
    /\ \A j, k \in DOMAIN queue : queue[j] = queue[k] => j = k

\* Only Close closes the Done of a stream that has not ended, and only the
\* broadcast of a notification that cannot be marshalled drops one.
StreamsInv ==
    /\ \A s \in sseClients : stream[s] \in {"serve", "leave"}
    /\ closer = "open" => \A s \in done : stream[s] \in {"ended", "aborted"}
    /\ \A n \in Notices : todo[n] # {} => notice[n] = "broadcast"
    /\ ServedIsListed

IInv == EventsTypeOK /\ CallsInv /\ StreamsInv

\* The invariant implies what the run checks.
LEMMA IInvImpliesInv == IInv => EventsInv
  <1> SUFFICES ASSUME IInv PROVE EventsInv
    OBVIOUS
  <1>1. EventsTypeOK /\ TypeOK /\ \A c \in Calls : CallOK(c) /\ c # NoCall
    BY DEF IInv, EventsTypeOK, CallsInv, Calls, NoCall
  <1>2. OwnAnswer
    BY <1>1 DEF OwnAnswer, CallOK
  <1>3. WaitingHasEnd
    <2> SUFFICES ASSUME NEW c \in Calls, call[c] \in {"store", "enqueue", "wait"},
                        timer[c] \notin {"armed", "fired", "removed"}, ~closed[c]
                 PROVE  buf[c] # NoCall
      BY DEF WaitingHasEnd
    <2>1. timer[c] \in {"none", "stopped", "expired"}
      BY <1>1 DEF TypeOK
    <2>2. timer[c] = "stopped"
      BY <1>1, <2>1 DEF CallOK
    <2> QED BY <1>1, <2>2 DEF CallOK, Delivered
  <1>4. CloseFindsOpen
    BY DEF IInv, StreamsInv, CloseFindsOpen
  <1>5. AnswerNotBroadcast
    BY <1>1 DEF AnswerNotBroadcast, CallOK, Answered, Broadcast
  <1> QED BY <1>1, <1>2, <1>3, <1>4, <1>5 DEF IInv, StreamsInv, EventsInv

(***************************************************************************)
(* One call goes on                                                        *)
(***************************************************************************)

\* What is not about d leaves it alone.
LEMMA CallApart ==
    ASSUME NEW d \in Calls, CallOK(d), Queued(d)' => Queued(d),
           Broadcast(d)' => Broadcast(d),
           call'[d] = call[d], outcome'[d] = outcome[d], timer'[d] = timer[d],
           buf'[d] = buf[d], closed'[d] = closed[d],
           pending'[Id[d]] = pending[Id[d]], work'[d] = work[d], found'[d] = found[d]
    PROVE  CallOK(d)'
  <1>1. (Answered(d)' <=> Answered(d)) /\ (Delivered(d)' <=> Delivered(d))
    BY DEF Answered, Delivered
  <1> QED BY <1>1 DEF CallOK

\* The streams, while calls go on.
LEMMA EventsKept ==
    ASSUME IInv, UNCHANGED eventVars, TypeOK', closer' = "open" => closer = "open"
    PROVE  EventsTypeOK' /\ StreamsInv'
  <1>1. UNCHANGED <<load, stream, sseClients, done, notice, todo, outgoing, bridge>>
    BY DEF eventVars, noticeVars
  <1>2. EventsTypeOK'
    BY <1>1 DEF IInv, EventsTypeOK
  <1> QED BY <1>1, <1>2 DEF IInv, StreamsInv, ServedIsListed

\* The calls, while streams go on.
LEMMA CallsKept ==
    ASSUME IInv, UNCHANGED vars, \A c \in Calls : Broadcast(c)' => Broadcast(c)
    PROVE  TypeOK' /\ CallsInv'
  <1>1. UNCHANGED <<call, outcome, timer, buf, closed, pending, queue, work, found,
                    ctxDone, closer, panicked>>
    BY DEF vars, callVars, chanVars, workVars
  <1>2. TypeOK'
    BY <1>1 DEF IInv, EventsTypeOK, TypeOK
  <1>3. \A c \in Calls : CallOK(c)'
    <2> SUFFICES ASSUME NEW c \in Calls PROVE CallOK(c)'
      OBVIOUS
    <2>1. CallOK(c) /\ (Queued(c)' => Queued(c))
      BY <1>1 DEF IInv, CallsInv, Queued
    <2> QED BY <1>1, <2>1, CallApart
  <1> QED BY <1>1, <1>2, <1>3 DEF IInv, CallsInv

\* removePendingHTTPRequest, by the goroutine of call c or its timer or worker:
\* the entry is that of c, or gone.
LEMMA RemovesOwn ==
    ASSUME NEW c \in Calls, TypeOK, DistinctIds, pending[Id[c]] \in {NoCall, c},
           NEW t \in [Calls -> {"none", "armed", "stopped", "fired", "removed",
                                "expired"}],
           RemovePending(Id[c], t)
    PROVE  /\ pending' \in [Ids -> Calls \cup {NoCall}]
           /\ timer' \in [Calls -> {"none", "armed", "stopped", "fired", "removed",
                                    "expired"}]
           /\ pending'[Id[c]] = NoCall
           /\ timer'[c] = t[c] \/ (t[c] = "armed" /\ timer'[c] = "stopped")
           /\ \A d \in Calls \ {c} :
                  pending'[Id[d]] = pending[Id[d]] /\ timer'[d] = t[d]
  <1>1. Id[c] \in Ids /\ \A d \in Calls \ {c} : Id[d] \in Ids /\ Id[d] # Id[c]
    BY DEF Ids, DistinctIds
  <1>2. pending' = [pending EXCEPT ![Id[c]] = NoCall]
    BY DEF RemovePending
  <1>3. \/ timer' = t
        \/ timer' = [t EXCEPT ![c] = "stopped"] /\ t[c] = "armed"
    BY DEF RemovePending
  <1>4. /\ pending' \in [Ids -> Calls \cup {NoCall}]
        /\ pending'[Id[c]] = NoCall
        /\ \A d \in Calls \ {c} : pending'[Id[d]] = pending[Id[d]]
    BY <1>1, <1>2 DEF TypeOK
  <1>5. CASE timer' = t
    BY <1>4, <1>5
  <1>6. CASE timer' = [t EXCEPT ![c] = "stopped"] /\ t[c] = "armed"
    BY <1>4, <1>6
  <1> QED BY <1>3, <1>5, <1>6

(***************************************************************************)
(* The steps of a call                                                     *)
(***************************************************************************)

\* Call c goes on and nothing else happens but to the queue.
LEMMA CallMoves ==
    ASSUME IInv, DistinctIds, NEW c \in Calls, CallOK(c)', UNCHANGED eventVars,
           TypeOK', closer' = "open" => closer = "open",
           \A j, k \in DOMAIN queue' : queue'[j] = queue'[k] => j = k,
           \A d \in Calls \ {c} :
               /\ Queued(d)' => Queued(d)
               /\ call'[d] = call[d] /\ outcome'[d] = outcome[d]
               /\ timer'[d] = timer[d] /\ buf'[d] = buf[d] /\ closed'[d] = closed[d]
               /\ pending'[Id[d]] = pending[Id[d]]
               /\ work'[d] = work[d] /\ found'[d] = found[d]
    PROVE  IInv'
  <1>1. EventsTypeOK' /\ StreamsInv'
    BY EventsKept
  <1>2. \A d \in Calls : Broadcast(d)' <=> Broadcast(d)
    BY DEF Broadcast, eventVars
  <1>3. \A d \in Calls : CallOK(d)'
    <2> SUFFICES ASSUME NEW d \in Calls \ {c} PROVE CallOK(d)'
      OBVIOUS
    <2>1. CallOK(d)
      BY DEF IInv, CallsInv
    <2> QED BY <1>2, <2>1, CallApart
  <1> QED BY <1>1, <1>3 DEF IInv, CallsInv

\* What is known before a step of c.
LEMMA BeforeStep ==
    ASSUME IInv, NEW c \in Calls
    PROVE  /\ TypeOK /\ CallOK(c) /\ c \in Nat /\ c # NoCall
           /\ \A j, k \in DOMAIN queue : queue[j] = queue[k] => j = k
           /\ pending[Id[c]] \in {NoCall, c} /\ found[c] \in {NoCall, c}
           /\ buf[c] \in {NoCall, c}
           /\ Id[c] \in Ids
  BY DEF IInv, EventsTypeOK, CallsInv, CallOK, Calls, NoCall, Ids

\* A POST arrives and its entry is stored.
LEMMA RpcBeginsStep ==
    ASSUME IInv, DistinctIds, UNCHANGED eventVars, NEW c \in Calls,
           RpcArrives(c) \/ RpcStores(c)
    PROVE  IInv'
  <1>0. /\ TypeOK /\ CallOK(c) /\ c # NoCall /\ Id[c] \in Ids
        /\ \A j, k \in DOMAIN queue : queue[j] = queue[k] => j = k
    BY BeforeStep
  <1>1. CASE RpcArrives(c)
    <2>1. /\ call[c] = "none" /\ call' = [call EXCEPT ![c] = "store"]
          /\ timer' = [timer EXCEPT ![c] = "armed"]
          /\ UNCHANGED <<outcome, buf, closed, pending, queue, work, found, ctxDone,
                         closer, panicked>>
      BY <1>1 DEF RpcArrives, chanVars, workVars
    <2>2. TypeOK'
      BY <1>0, <2>1 DEF TypeOK
    <2>3. /\ call'[c] = "store" /\ timer'[c] = "armed"
          /\ \A d \in Calls \ {c} : call'[d] = call[d] /\ timer'[d] = timer[d]
      BY <1>0, <2>1 DEF TypeOK
    <2>4. \A d : (Queued(d)' <=> Queued(d)) /\ (Broadcast(d)' <=> Broadcast(d))
      BY <2>1 DEF Queued, Broadcast, eventVars
    <2>5. CallOK(c)'
      BY <1>0, <2>1, <2>3, <2>4 DEF CallOK, Answered, Delivered
    <2> QED BY <1>0, <2>1, <2>2, <2>3, <2>4, <2>5, CallMoves
  <1>2. CASE RpcStores(c)
    <2>1. /\ call[c] = "store" /\ call' = [call EXCEPT ![c] = "enqueue"]
          /\ pending' = [pending EXCEPT ![Id[c]] = c]
          /\ UNCHANGED <<outcome, timer, buf, closed, queue, work, found, ctxDone,
                         closer, panicked>>
      BY <1>2 DEF RpcStores, chanVars, workVars
    <2>2. TypeOK'
      BY <1>0, <2>1 DEF TypeOK
    <2>3. /\ call'[c] = "enqueue" /\ pending'[Id[c]] = c
          /\ \A d \in Calls \ {c} :
                 call'[d] = call[d] /\ pending'[Id[d]] = pending[Id[d]]
      BY <1>0, <2>1 DEF TypeOK, DistinctIds
    <2>4. \A d : (Queued(d)' <=> Queued(d)) /\ (Broadcast(d)' <=> Broadcast(d))
      BY <2>1 DEF Queued, Broadcast, eventVars
    <2>5. CallOK(c)'
      BY <1>0, <2>1, <2>3, <2>4 DEF CallOK, Answered, Delivered
    <2> QED BY <1>0, <2>1, <2>2, <2>3, <2>4, <2>5, CallMoves
  <1> QED BY <1>1, <1>2

\* The request is handed over,
LEMMA RpcEnqueuesStep ==
    ASSUME IInv, DistinctIds, UNCHANGED eventVars, NEW c \in Calls, RpcEnqueues(c)
    PROVE  IInv'
  <1>0. /\ TypeOK /\ CallOK(c) /\ c # NoCall /\ Id[c] \in Ids
        /\ \A j, k \in DOMAIN queue : queue[j] = queue[k] => j = k
    BY BeforeStep
  <1>1. /\ call[c] = "enqueue" /\ call' = [call EXCEPT ![c] = "wait"]
        /\ queue' = Append(queue, c) /\ Len(queue) < MessageBuffer
        /\ UNCHANGED <<outcome, timer, buf, closed, pending, work, found, ctxDone,
                       closer, panicked>>
    BY DEF RpcEnqueues, chanVars, workVars
  <1>2. /\ queue' \in Seq(Calls) /\ Len(queue') = Len(queue) + 1
        /\ DOMAIN queue' = DOMAIN queue \cup {Len(queue) + 1}
        /\ queue'[Len(queue) + 1] = c
        /\ \A k \in DOMAIN queue : queue'[k] = queue[k] /\ k # Len(queue) + 1
    BY <1>0, <1>1 DEF TypeOK
  <1>3. ~Queued(c) /\ work[c] = "none"
    BY <1>0, <1>1 DEF CallOK
  <1>4. TypeOK'
    BY <1>0, <1>1, <1>2, ConstantsAssumption DEF TypeOK
  <1>5. /\ call'[c] = "wait" /\ \A d \in Calls \ {c} : call'[d] = call[d]
    BY <1>0, <1>1 DEF TypeOK
  <1>6. \A d : (Broadcast(d)' <=> Broadcast(d))
               /\ (d # c => (Queued(d)' <=> Queued(d)))
    BY <1>1, <1>2 DEF Queued, Broadcast, eventVars
  <1>7. \A j, k \in DOMAIN queue' : queue'[j] = queue'[k] => j = k
    BY <1>0, <1>2, <1>3 DEF Queued
  <1>8. CallOK(c)'
    BY <1>0, <1>1, <1>3, <1>5, <1>6 DEF CallOK, Answered, Delivered
  <1> QED BY <1>0, <1>1, <1>4, <1>5, <1>6, <1>7, <1>8, CallMoves

\* or the call ends, with or without its answer.
LEMMA RpcEndsStep ==
    ASSUME IInv, DistinctIds, UNCHANGED eventVars, NEW c \in Calls,
           \/ RpcFindsQueueClosed(c) \/ RpcRefused(c)
           \/ RpcReceives(c) \/ RpcInterrupted(c)
    PROVE  IInv'
  <1>0. /\ TypeOK /\ CallOK(c) /\ c \in Nat /\ c # NoCall /\ Id[c] \in Ids
        /\ \A j, k \in DOMAIN queue : queue[j] = queue[k] => j = k
        /\ pending[Id[c]] \in {NoCall, c} /\ buf[c] \in {NoCall, c}
    BY BeforeStep
  <1>1. /\ call[c] \in {"enqueue", "wait"}
        /\ UNCHANGED <<closed, queue, work, found, ctxDone, closer, panicked>>
    BY DEF RpcFindsQueueClosed, RpcRefused, RpcReceives, RpcInterrupted, chanVars,
       workVars
  <1>2. PICK o \in {Unavailable, TimedOut, Aborted, Answer(c)} :
            /\ Ends(c, o)
            /\ o = Answer(c) => buf[c] = c
    BY <1>0 DEF RpcFindsQueueClosed, RpcRefused, RpcReceives, RpcInterrupted,
       Unavailable, TimedOut, Aborted, Answer
  <1>3. /\ o \in Outcomes
        /\ o.kind = "answer" => o.for = c
        /\ o.kind = "answer" => o = Answer(c)
    BY DEF Outcomes, Unavailable, TimedOut, Aborted, Answer
  <1>4. /\ call' \in [Calls -> {"none", "store", "enqueue", "wait", "ended"}]
        /\ outcome' \in [Calls -> Outcomes]
        /\ call'[c] = "ended" /\ outcome'[c] = o
        /\ \A d \in Calls \ {c} : call'[d] = call[d] /\ outcome'[d] = outcome[d]
    <2>1. call' = [call EXCEPT ![c] = "ended"] /\ outcome' = [outcome EXCEPT ![c] = o]
      BY <1>2 DEF Ends
    <2>2. outcome \in [Calls -> Outcomes] /\ o \in Outcomes
      BY <1>0, <1>3 DEF TypeOK
    <2>3. /\ outcome' \in [Calls -> Outcomes] /\ outcome'[c] = o
          /\ \A d \in Calls \ {c} : outcome'[d] = outcome[d]
      BY <2>1, <2>2
    <2>4. call \in [Calls -> {"none", "store", "enqueue", "wait", "ended"}]
      BY <1>0 DEF TypeOK
    <2>5. /\ call' \in [Calls -> {"none", "store", "enqueue", "wait", "ended"}]
          /\ call'[c] = "ended" /\ \A d \in Calls \ {c} : call'[d] = call[d]
      BY <2>1, <2>4
    <2> QED BY <2>3, <2>5
  <1>5. /\ buf' \in [Calls -> Calls \cup {NoCall}] /\ buf'[c] \in {buf[c], NoCall}
        /\ \A d \in Calls \ {c} : buf'[d] = buf[d]
    BY <1>0 DEF RpcFindsQueueClosed, RpcRefused, RpcReceives, RpcInterrupted,
       chanVars, TypeOK
  <1>6. /\ pending' \in [Ids -> Calls \cup {NoCall}]
        /\ timer' \in [Calls -> {"none", "armed", "stopped", "fired", "removed",
                                 "expired"}]
        /\ pending'[Id[c]] \in {NoCall, c}
        /\ timer'[c] = timer[c] \/ (timer[c] = "armed" /\ timer'[c] = "stopped")
        /\ \A d \in Calls \ {c} :
               pending'[Id[d]] = pending[Id[d]] /\ timer'[d] = timer[d]
    <2>1. CASE RpcRefused(c)
      <3>1. RemovePending(Id[c], timer)
        BY <2>1 DEF RpcRefused
      <3>2. timer \in [Calls -> {"none", "armed", "stopped", "fired", "removed",
                                 "expired"}]
        BY <1>0 DEF TypeOK
      <3> QED BY <1>0, <3>1, <3>2, RemovesOwn
    <2>2. CASE UNCHANGED <<pending, timer>>
      BY <1>0, <2>2 DEF TypeOK
    <2> QED BY <2>1, <2>2 DEF RpcFindsQueueClosed, RpcReceives, RpcInterrupted
  <1>7. TypeOK'
    BY <1>0, <1>1, <1>4, <1>5, <1>6 DEF TypeOK
  <1>8. \A d : (Queued(d)' <=> Queued(d)) /\ (Broadcast(d)' <=> Broadcast(d))
    BY <1>1 DEF Queued, Broadcast, eventVars
  <1>9. Answered(c)' => Answered(c)
    BY <1>0, <1>2, <1>3, <1>4, <1>5 DEF Answered, Answer
  <1>10. CallOK(c)'
    BY <1>0, <1>1, <1>3, <1>4, <1>5, <1>6, <1>8, <1>9 DEF CallOK, Delivered
  <1> QED BY <1>0, <1>1, <1>4, <1>5, <1>6, <1>7, <1>8, <1>10, CallMoves

(***************************************************************************)
(* The timer of a call, and the worker that answers it                     *)
(***************************************************************************)
LEMMA TimerStep ==
    ASSUME IInv, DistinctIds, UNCHANGED eventVars, NEW c \in Calls, Timer(c)
    PROVE  IInv'
  <1>0. /\ TypeOK /\ CallOK(c) /\ c # NoCall /\ Id[c] \in Ids
        /\ \A j, k \in DOMAIN queue : queue[j] = queue[k] => j = k
        /\ pending[Id[c]] \in {NoCall, c}
    BY BeforeStep
  <1>1. /\ timer[c] \in {"armed", "fired", "removed"}
        /\ UNCHANGED <<call, outcome, buf, queue, work, found, ctxDone, closer,
                       panicked>>
    BY DEF Timer, TimerFires, TimerRemoves, TimerCloses, callVars, chanVars, workVars
  <1>2. \A d : (Queued(d)' <=> Queued(d)) /\ (Broadcast(d)' <=> Broadcast(d))
    BY <1>1 DEF Queued, Broadcast, eventVars
  <1>3. CASE TimerFires(c) \/ TimerCloses(c)
    <2>1. UNCHANGED pending
      BY <1>3 DEF TimerFires, TimerCloses
    <2>2. /\ timer' \in [Calls -> {"none", "armed", "stopped", "fired", "removed",
                                   "expired"}]
          /\ timer'[c] \in {"fired", "expired"}
          /\ \A d \in Calls \ {c} : timer'[d] = timer[d]
      BY <1>0, <1>3 DEF TimerFires, TimerCloses, TypeOK
    <2>3. /\ closed' \in [Calls -> BOOLEAN]
          /\ timer'[c] = "expired" => closed'[c]
          /\ \A d \in Calls \ {c} : closed'[d] = closed[d]
      BY <1>0, <1>3 DEF TimerFires, TimerCloses, TypeOK, chanVars
    <2>4. TypeOK'
      BY <1>0, <1>1, <2>1, <2>2, <2>3 DEF TypeOK
    <2>5. CallOK(c)'
      BY <1>0, <1>1, <1>2, <2>1, <2>2, <2>3 DEF CallOK, Answered, Delivered
    <2> QED BY <1>0, <1>1, <1>2, <2>1, <2>2, <2>3, <2>4, <2>5, CallMoves
  <1>4. CASE TimerRemoves(c)
    <2> DEFINE t == [timer EXCEPT ![c] = "removed"]
    <2>1. /\ t \in [Calls -> {"none", "armed", "stopped", "fired", "removed",
                              "expired"}]
          /\ t[c] = "removed" /\ \A d \in Calls \ {c} : t[d] = timer[d]
      BY <1>0 DEF TypeOK
    <2>2. RemovePending(Id[c], t) /\ UNCHANGED closed
      BY <1>4 DEF TimerRemoves, chanVars
    <2> HIDE DEF t
    <2>3. /\ pending' \in [Ids -> Calls \cup {NoCall}]
          /\ timer' \in [Calls -> {"none", "armed", "stopped", "fired", "removed",
                                   "expired"}]
          /\ pending'[Id[c]] = NoCall /\ timer'[c] = "removed"
          /\ \A d \in Calls \ {c} :
                 pending'[Id[d]] = pending[Id[d]] /\ timer'[d] = timer[d]
      BY <1>0, <2>1, <2>2, RemovesOwn
    <2>4. TypeOK'
      BY <1>0, <1>1, <2>2, <2>3 DEF TypeOK
    <2>5. CallOK(c)'
      BY <1>0, <1>1, <1>2, <2>2, <2>3 DEF CallOK, Answered, Delivered
    <2> QED BY <1>0, <1>1, <1>2, <2>2, <2>3, <2>4, <2>5, CallMoves
  <1> QED BY <1>3, <1>4 DEF Timer

\* processRequests takes the request that has waited longest.
LEMMA ServerTakesStep ==
    ASSUME IInv, DistinctIds, UNCHANGED eventVars, ServerTakes
    PROVE  IInv'
  <1>1. /\ queue # <<>> /\ queue' = Tail(queue)
        /\ work' = [work EXCEPT ![Head(queue)] = "handling"]
        /\ UNCHANGED <<call, outcome, timer, buf, closed, pending, found, ctxDone,
                       closer, panicked>>
    BY DEF ServerTakes, callVars, chanVars
  <1>t. TypeOK /\ queue \in Seq(Calls)
    BY DEF IInv, EventsTypeOK, TypeOK
  <1>c. PICK c \in Calls : c = Head(queue) /\ c = queue[1]
    BY <1>1, <1>t
  <1>0. /\ CallOK(c) /\ c # NoCall
        /\ \A j, k \in DOMAIN queue : queue[j] = queue[k] => j = k
    BY BeforeStep
  <1>2. /\ queue' \in Seq(Calls) /\ Len(queue') = Len(queue) - 1
        /\ Len(queue) \in Nat \ {0} /\ DOMAIN queue = 1 .. Len(queue)
        /\ DOMAIN queue' = 1 .. (Len(queue) - 1)
        /\ \A k \in DOMAIN queue' : queue'[k] = queue[k + 1]
    BY <1>1, <1>t
  <1>3. Queued(c)
    BY <1>c, <1>2 DEF Queued
  <1>4. \A j, k \in DOMAIN queue' : queue'[j] = queue'[k] => j = k
    BY <1>0, <1>2
  <1>5. \A k \in DOMAIN queue' : queue'[k] # c
    BY <1>0, <1>2, <1>c
  <1>6. ~Queued(c)' /\ \A d : Queued(d)' => Queued(d)
    BY <1>2, <1>5 DEF Queued
  <1>7. /\ work'[c] = "handling" /\ \A d \in Calls \ {c} : work'[d] = work[d]
        /\ work' \in [Calls -> {"none", "handling", "delegated", "enqueue",
                                "send", "remove", "done"}]
    BY <1>1, <1>t, <1>c DEF TypeOK
  <1>8. TypeOK'
    BY <1>1, <1>t, <1>2, <1>7, ConstantsAssumption DEF TypeOK
  <1>9. \A d : Broadcast(d)' <=> Broadcast(d)
    BY DEF Broadcast, eventVars
  <1>10. CallOK(c)'
    BY <1>0, <1>1, <1>3, <1>6, <1>7, <1>9 DEF CallOK, Answered, Delivered
  <1> QED BY <1>1, <1>4, <1>6, <1>7, <1>8, <1>10, CallMoves

\* SendResponse finds the entry of its call or none, and sends to this call.
LEMMA SendResponseStep ==
    ASSUME IInv, DistinctIds, UNCHANGED eventVars, NEW c \in Calls, SendResponse(c)
    PROVE  IInv'
  <1>0. /\ TypeOK /\ CallOK(c) /\ c # NoCall /\ Id[c] \in Ids
        /\ \A j, k \in DOMAIN queue : queue[j] = queue[k] => j = k
        /\ pending[Id[c]] \in {NoCall, c} /\ found[c] \in {NoCall, c}
        /\ buf[c] \in {NoCall, c}
    BY BeforeStep
  <1>1. /\ work[c] \in {"handling", "send", "remove"}
        /\ UNCHANGED <<call, outcome, closed, queue, ctxDone, closer>>
    BY DEF SendResponse, SendResponseLooksUp, SendResponseSends, SendResponseRemoves,
       callVars, chanVars
  <1>2. \A d : (Queued(d)' <=> Queued(d)) /\ (Broadcast(d)' <=> Broadcast(d))
    BY <1>1 DEF Queued, Broadcast, eventVars
  <1>3. CASE SendResponseLooksUp(c)
    <2>1. /\ work[c] = "handling" /\ found' = [found EXCEPT ![c] = pending[Id[c]]]
          /\ work' = [work EXCEPT ![c] =
                        IF pending[Id[c]] = NoCall THEN "delegated" ELSE "send"]
          /\ UNCHANGED <<timer, buf, pending, panicked>>
      BY <1>3 DEF SendResponseLooksUp, chanVars
    <2>2. /\ work' \in [Calls -> {"none", "handling", "delegated", "enqueue",
                                  "send", "remove", "done"}]
          /\ work'[c] \in {"delegated", "send"}
          /\ work'[c] = "send" => pending[Id[c]] = c
          /\ \A d \in Calls \ {c} : work'[d] = work[d]
      BY <1>0, <2>1 DEF TypeOK
    <2>3. /\ found' \in [Calls -> Calls \cup {NoCall}] /\ found'[c] = pending[Id[c]]
          /\ \A d \in Calls \ {c} : found'[d] = found[d]
      BY <1>0, <2>1 DEF TypeOK
    <2>4. TypeOK'
      BY <1>0, <1>1, <2>1, <2>2, <2>3 DEF TypeOK
    <2>5. CallOK(c)'
      BY <1>0, <1>1, <1>2, <2>1, <2>2, <2>3 DEF CallOK, Answered, Delivered
    <2> QED BY <1>0, <1>1, <1>2, <2>1, <2>2, <2>3, <2>4, <2>5, CallMoves
  <1>4. CASE SendResponseSends(c)
    <2>1. work[c] = "send" /\ found[c] = c /\ UNCHANGED <<timer, pending, found>>
      BY <1>0, <1>4 DEF SendResponseSends, CallOK
    <2>2. /\ work' \in [Calls -> {"none", "handling", "delegated", "enqueue",
                                  "send", "remove", "done"}]
          /\ work'[c] \in {"send", "remove", "done"}
          /\ \A d \in Calls \ {c} : work'[d] = work[d]
      BY <1>0, <1>4, <2>1 DEF SendResponseSends, TypeOK
    <2>3. /\ buf' \in [Calls -> Calls \cup {NoCall}]
          /\ \A d \in Calls \ {c} : buf'[d] = buf[d]
          /\ \/ buf'[c] = buf[c] /\ work'[c] \in {"send", "done"}
             \/ buf'[c] = c /\ work'[c] = "remove"
      BY <1>0, <1>4, <2>1 DEF SendResponseSends, TypeOK
    <2>4. panicked' \in BOOLEAN
      BY <1>0, <1>4 DEF SendResponseSends, TypeOK
    <2>5. TypeOK'
      BY <1>0, <1>1, <2>1, <2>2, <2>3, <2>4 DEF TypeOK
    <2>6. CallOK(c)'
      BY <1>0, <1>1, <1>2, <2>1, <2>2, <2>3 DEF CallOK, Answered, Delivered
    <2> QED BY <1>0, <1>1, <1>2, <2>1, <2>2, <2>3, <2>5, <2>6, CallMoves
  <1>5. CASE SendResponseRemoves(c)
    <2>1. /\ work[c] = "remove" /\ work' = [work EXCEPT ![c] = "done"]
          /\ RemovePending(Id[c], timer) /\ UNCHANGED <<buf, found, panicked>>
      BY <1>5 DEF SendResponseRemoves, chanVars
    <2>2. /\ work' \in [Calls -> {"none", "handling", "delegated", "enqueue",
                                  "send", "remove", "done"}]
          /\ work'[c] = "done" /\ \A d \in Calls \ {c} : work'[d] = work[d]
      BY <1>0, <2>1 DEF TypeOK
    <2>3. timer \in [Calls -> {"none", "armed", "stopped", "fired", "removed",
                               "expired"}]
      BY <1>0 DEF TypeOK
    <2>4. /\ pending' \in [Ids -> Calls \cup {NoCall}]
          /\ timer' \in [Calls -> {"none", "armed", "stopped", "fired", "removed",
                                   "expired"}]
          /\ pending'[Id[c]] = NoCall
          /\ timer'[c] = timer[c] \/ (timer[c] = "armed" /\ timer'[c] = "stopped")
          /\ \A d \in Calls \ {c} :
                 pending'[Id[d]] = pending[Id[d]] /\ timer'[d] = timer[d]
      BY <1>0, <2>1, <2>3, RemovesOwn
    <2>5. TypeOK'
      BY <1>0, <1>1, <2>1, <2>2, <2>4 DEF TypeOK
    <2>6. CallOK(c)'
      BY <1>0, <1>1, <1>2, <2>1, <2>2, <2>4 DEF CallOK, Answered, Delivered
    <2> QED BY <1>0, <1>1, <1>2, <2>1, <2>2, <2>4, <2>5, <2>6, CallMoves
  <1> QED BY <1>3, <1>4, <1>5 DEF SendResponse

\* Close and the parent context.
LEMMA ShutdownStep ==
    ASSUME IInv, UNCHANGED eventVars, CloseCancels \/ CloseChannels \/ ParentCancelled
    PROVE  IInv'
  <1>1. /\ UNCHANGED <<call, outcome, timer, buf, closed, pending, queue, work, found,
                       panicked>>
        /\ ctxDone' \in BOOLEAN /\ closer' \in {"cancelled", "closed", closer}
    BY DEF CloseCancels, CloseChannels, ParentCancelled, callVars, chanVars, workVars,
       IInv, EventsTypeOK, TypeOK
  <1>2. TypeOK'
    BY <1>1 DEF IInv, EventsTypeOK, TypeOK
  <1>3. EventsTypeOK' /\ StreamsInv'
    BY <1>1, <1>2, EventsKept
  <1>4. \A c \in Calls : CallOK(c)'
    <2> SUFFICES ASSUME NEW c \in Calls PROVE CallOK(c)'
      OBVIOUS
    <2>1. CallOK(c) /\ (Queued(c)' => Queued(c)) /\ (Broadcast(c)' => Broadcast(c))
      BY <1>1 DEF IInv, CallsInv, Queued, Broadcast, eventVars
    <2> QED BY <1>1, <2>1, CallApart
  <1> QED BY <1>1, <1>3, <1>4 DEF IInv, CallsInv

LEMMA RequestsStep ==
    ASSUME IInv, DistinctIds, RequestsNext
    PROVE  IInv'
  <1>1. UNCHANGED eventVars
    BY DEF RequestsNext
  <1>2. ASSUME NEW c \in Calls, RpcArrives(c) \/ HandleRPC(c)
        PROVE  IInv'
    BY <1>1, <1>2, RpcBeginsStep, RpcEnqueuesStep, RpcEndsStep DEF HandleRPC
  <1>3. ASSUME NEW c \in Calls, Timer(c) \/ SendResponse(c)
        PROVE  IInv'
    BY <1>1, <1>3, TimerStep, SendResponseStep
  <1> QED BY <1>1, <1>2, <1>3, ServerTakesStep, ShutdownStep DEF RequestsNext

(***************************************************************************)
(* The event streams                                                       *)
(***************************************************************************)

\* A stream goes on: nothing that is known of the calls changes.
LEMMA StreamStep ==
    ASSUME IInv, NEW s \in Streams,
           \/ StreamArrives(s) \/ ClientLeaves(s) \/ HandleSSE(s)
    PROVE  IInv'
  <1>1. /\ UNCHANGED vars
        /\ UNCHANGED <<load, notice, todo, outgoing, bridge>>
    BY DEF StreamArrives, ClientLeaves, HandleSSE, StreamRegisters, StreamInterrupted,
       StreamLoopEnds, StreamDeregisters, StreamEnds, noticeVars
  <1>2. TypeOK' /\ CallsInv'
    BY <1>1, CallsKept DEF Broadcast
  <1>3. UNCHANGED closer
    BY <1>1 DEF vars
  <1>4. PICK w \in {"register", "serve", "leave", "close", "ended", "aborted"} :
            /\ stream' = [stream EXCEPT ![s] = w]
            /\ \/ /\ w \in {"register", "ended", "aborted"}
                  /\ stream[s] \in {"none", "close"} /\ UNCHANGED sseClients
               \/ /\ w = "leave" /\ stream[s] = "serve" /\ UNCHANGED sseClients
               \/ w = "serve" /\ sseClients' = sseClients \cup {s}
               \/ w = "close" /\ sseClients' = sseClients \ {s}
            /\ \/ UNCHANGED done /\ stream[s] \notin {"ended", "aborted"}
               \/ w \in {"ended", "aborted"} /\ done' = done \cup {s}
    <2>1. CASE StreamArrives(s)
      BY <2>1 DEF StreamArrives
    <2>2. CASE StreamRegisters(s)
      BY <2>2 DEF StreamRegisters
    <2>3. CASE ClientLeaves(s) \/ StreamInterrupted(s)
      BY <2>3 DEF ClientLeaves, StreamInterrupted, StreamLoopEnds
    <2>4. CASE StreamDeregisters(s)
      BY <2>4 DEF StreamDeregisters
    <2>5. CASE StreamEnds(s)
      BY <2>5 DEF StreamEnds
    <2> QED BY <2>1, <2>2, <2>3, <2>4, <2>5 DEF HandleSSE
  <1>5. /\ stream' \in [Streams -> {"none", "register", "serve", "leave", "close",
                                    "ended", "aborted"}]
        /\ stream'[s] = w /\ \A r \in Streams \ {s} : stream'[r] = stream[r]
    BY <1>4 DEF IInv, EventsTypeOK
  <1>6. sseClients' \subseteq Streams /\ done' \subseteq Streams
    BY <1>4 DEF IInv, EventsTypeOK
  <1>7. EventsTypeOK'
    BY <1>1, <1>2, <1>5, <1>6 DEF IInv, EventsTypeOK
  <1>8. \A r \in sseClients' : stream'[r] \in {"serve", "leave"}
    BY <1>4, <1>5, <1>6 DEF IInv, StreamsInv
  <1>9. closer' = "open" => \A r \in done' : stream'[r] \in {"ended", "aborted"}
    BY <1>3, <1>4, <1>5, <1>6 DEF IInv, StreamsInv
  <1>10. ServedIsListed'
    BY <1>1, <1>4, <1>5 DEF IInv, StreamsInv, ServedIsListed
  <1>11. \A n \in Notices : todo'[n] # {} => notice'[n] = "broadcast"
    BY <1>1 DEF IInv, StreamsInv
  <1> QED BY <1>2, <1>7, <1>8, <1>9, <1>10, <1>11 DEF IInv, StreamsInv

\* A notification that cannot be marshalled may drop streams; the others do not.
LEMMA NoticeStep ==
    ASSUME IInv, NEW n \in Notices, NoticeBegins(n) \/ SendNotification(n)
    PROVE  IInv'
  <1>1. /\ UNCHANGED vars
        /\ UNCHANGED <<load, stream, done, bridge>>
    BY DEF NoticeBegins, SendNotification, NoticeWrites, NoticeDropsClient,
       NoticeMarshalled, NoticeRefused, NoticeReturns, noticeVars
  <1>t. EventsTypeOK /\ StreamsInv
    BY DEF IInv
  <1>2. /\ outgoing' \in Seq(Messages) /\ Len(outgoing') <= MessageBuffer
        /\ \A c : Broadcast(c)' => Broadcast(c)
    <2>1. CASE UNCHANGED outgoing
      BY <1>1, <1>t, <2>1 DEF EventsTypeOK, Broadcast
    <2>2. CASE Len(outgoing) < MessageBuffer /\ outgoing' = Append(outgoing, Notice(n))
      <3>1. Notice(n) \in Messages /\ \A c : Notice(n) # Response(c)
        BY DEF Messages, Notice, Response
      <3>2. outgoing \in Seq(Messages) /\ MessageBuffer \in Nat
        BY <1>t, ConstantsAssumption DEF EventsTypeOK
      <3>3. /\ outgoing' \in Seq(Messages) /\ Len(outgoing') = Len(outgoing) + 1
            /\ \A k \in DOMAIN outgoing' :
                   \/ k \in DOMAIN outgoing /\ outgoing'[k] = outgoing[k]
                   \/ outgoing'[k] = Notice(n)
        BY <2>2, <3>1, <3>2
      <3>4. \A c : Broadcast(c)' => Broadcast(c)
        BY <1>1, <3>1, <3>3 DEF Broadcast
      <3> QED BY <2>2, <3>2, <3>3, <3>4
    <2> QED BY <2>1, <2>2 DEF NoticeBegins, SendNotification, NoticeWrites,
            NoticeDropsClient, NoticeMarshalled, NoticeRefused, NoticeReturns
  <1>3. TypeOK' /\ CallsInv'
    BY <1>1, <1>2, CallsKept
  <1>4. /\ notice' \in [Notices -> {"none", "broadcast", "enqueue", "returned"}]
        /\ todo' \in [Notices -> SUBSET Streams] /\ sseClients' \subseteq sseClients
        /\ \A m \in Notices \ {n} : notice'[m] = notice[m] /\ todo'[m] = todo[m]
        /\ todo'[n] # {} => notice'[n] = "broadcast"
        /\ notice'[n] # "none"
        /\ UNCHANGED sseClients \/ n \in BadNotices
    <2>1. CASE NoticeBegins(n)
      BY <1>t, <2>1 DEF NoticeBegins, EventsTypeOK
    <2>2. CASE \E s \in Streams : NoticeWrites(n, s) \/ NoticeDropsClient(n, s)
      <3>1. notice[n] = "broadcast" /\ UNCHANGED notice
        BY <1>t, <2>2 DEF NoticeWrites, NoticeDropsClient, StreamsInv
      <3>2. PICK s \in Streams : todo' = [todo EXCEPT ![n] = @ \ {s}]
        BY <2>2 DEF NoticeWrites, NoticeDropsClient
      <3>3. /\ todo' \in [Notices -> SUBSET Streams]
            /\ \A m \in Notices \ {n} : todo'[m] = todo[m]
        BY <1>t, <3>2 DEF EventsTypeOK
      <3>4. sseClients' \subseteq sseClients /\ (UNCHANGED sseClients \/ n \in BadNotices)
        BY <2>2 DEF NoticeWrites, NoticeDropsClient
      <3> QED BY <1>t, <3>1, <3>3, <3>4 DEF EventsTypeOK
    <2>3. CASE NoticeMarshalled(n) \/ NoticeRefused(n) \/ NoticeReturns(n)
      <3>1. todo[n] = {} /\ UNCHANGED <<todo, sseClients>>
        BY <1>t, <2>3 DEF NoticeMarshalled, NoticeRefused, NoticeReturns, StreamsInv
      <3>2. PICK w \in {"enqueue", "returned"} : notice' = [notice EXCEPT ![n] = w]
        BY <2>3 DEF NoticeMarshalled, NoticeRefused, NoticeReturns
      <3> QED BY <1>t, <3>1, <3>2 DEF EventsTypeOK
    <2> QED BY <2>1, <2>2, <2>3 DEF SendNotification
  <1>5. EventsTypeOK'
    BY <1>t, <1>1, <1>2, <1>3, <1>4 DEF EventsTypeOK
  <1>6. UNCHANGED closer
    BY <1>1 DEF vars
  <1>7. ServedIsListed'
    BY <1>t, <1>1, <1>4, EventsAssumption DEF StreamsInv, ServedIsListed
  <1> QED BY <1>t, <1>1, <1>3, <1>4, <1>5, <1>6, <1>7 DEF IInv, StreamsInv

\* A response that no POST waits for goes to the streams.
LEMMA ResponseStep ==
    ASSUME IInv, DistinctIds, NEW c \in Calls,
           ResponseMarshalled(c) \/ ResponseDelegated(c)
    PROVE  IInv'
  <1>0. /\ TypeOK /\ CallOK(c) /\ c # NoCall /\ Id[c] \in Ids
        /\ \A j, k \in DOMAIN queue : queue[j] = queue[k] => j = k
    BY BeforeStep
  <1>t. EventsTypeOK /\ StreamsInv /\ MessageBuffer \in Nat
    BY ConstantsAssumption DEF IInv
  <1>1. /\ UNCHANGED <<call, outcome, timer, buf, closed, pending, queue, found,
                       ctxDone, closer, panicked>>
        /\ UNCHANGED <<load, stream, sseClients, done, notice, todo, bridge>>
        /\ work[c] \in {"delegated", "enqueue"}
    BY DEF ResponseMarshalled, ResponseDelegated, callVars, chanVars, eventVars,
       noticeVars
  <1>2. PICK w \in {"done", "enqueue"} : work' = [work EXCEPT ![c] = w]
    BY DEF ResponseMarshalled, ResponseDelegated
  <1>3. /\ work' \in [Calls -> {"none", "handling", "delegated", "enqueue",
                                "send", "remove", "done"}]
        /\ work'[c] = w /\ \A d \in Calls \ {c} : work'[d] = work[d]
    BY <1>0, <1>2 DEF TypeOK
  <1>4. TypeOK'
    BY <1>0, <1>1, <1>3 DEF TypeOK
  <1>5. /\ outgoing' \in Seq(Messages) /\ Len(outgoing') <= MessageBuffer
        /\ \A d \in Calls \ {c} : Broadcast(d)' => Broadcast(d)
        /\ Broadcast(c)' => Broadcast(c) \/ w = "done"
    <2>1. CASE UNCHANGED outgoing
      BY <1>1, <1>t, <2>1 DEF EventsTypeOK, Broadcast
    <2>2. CASE /\ Len(outgoing) < MessageBuffer
               /\ outgoing' = Append(outgoing, Response(c)) /\ work'[c] = "done"
      <3>1. /\ Response(c) \in Messages
            /\ \A d \in Calls \ {c} : Response(c) # Response(d)
        BY DEF Messages, Response
      <3>2. outgoing \in Seq(Messages)
        BY <1>t DEF EventsTypeOK
      <3>3. /\ outgoing' \in Seq(Messages) /\ Len(outgoing') = Len(outgoing) + 1
            /\ \A k \in DOMAIN outgoing' :
                   \/ k \in DOMAIN outgoing /\ outgoing'[k] = outgoing[k]
                   \/ outgoing'[k] = Response(c)
        BY <2>2, <3>1, <3>2
      <3>4. \A d \in Calls \ {c} : Broadcast(d)' => Broadcast(d)
        BY <1>1, <3>1, <3>3 DEF Broadcast
      <3> QED BY <1>3, <1>t, <2>2, <3>2, <3>3, <3>4
    <2> QED BY <1>0, <2>1, <2>2 DEF ResponseMarshalled, ResponseDelegated, eventVars,
            TypeOK
  <1>6. EventsTypeOK' /\ StreamsInv'
    BY <1>t, <1>1, <1>4, <1>5 DEF EventsTypeOK, StreamsInv, ServedIsListed
  <1>7. \A d : Queued(d)' <=> Queued(d)
    BY <1>1 DEF Queued
  <1>8. CallOK(c)'
    <2>1. ~Answered(c) /\ ~Broadcast(c) /\ work[c] \notin {"none", "send", "remove"}
      BY <1>0, <1>1 DEF CallOK
    <2>2. ~Answered(c)' /\ (Broadcast(c)' => w = "done") /\ (Delivered(c)' <=> Delivered(c))
      BY <1>1, <1>5, <2>1 DEF Answered, Delivered
    <2> QED BY <1>0, <1>1, <1>3, <1>7, <2>1, <2>2 DEF CallOK
  <1>9. \A d \in Calls \ {c} : CallOK(d)'
    <2> SUFFICES ASSUME NEW d \in Calls \ {c} PROVE CallOK(d)'
      OBVIOUS
    <2>1. CallOK(d)
      BY DEF IInv, CallsInv
    <2> QED BY <1>1, <1>3, <1>5, <1>7, <2>1, CallApart
  <1> QED BY <1>0, <1>1, <1>6, <1>8, <1>9 DEF IInv, CallsInv

\* What the bridge writes was in outgoingChan.
LEMMA BridgeStep ==
    ASSUME IInv, Bridge
    PROVE  IInv'
  <1>1. /\ UNCHANGED vars
        /\ UNCHANGED <<load, stream, sseClients, done, notice, todo>>
    BY DEF Bridge, BridgeTakes, BridgeWrites, BridgeExits, noticeVars
  <1>t. /\ EventsTypeOK /\ StreamsInv /\ MessageBuffer \in Nat
        /\ outgoing \in Seq(Messages) /\ sseClients \subseteq Streams
        /\ bridge \in [at : {"loop", "exited"}, message : Messages \cup {NoMessage},
                       todo : SUBSET Streams]
    BY ConstantsAssumption DEF IInv, EventsTypeOK
  <1>2. /\ outgoing' \in Seq(Messages) /\ Len(outgoing') <= MessageBuffer
        /\ bridge' \in [at : {"loop", "exited"}, message : Messages \cup {NoMessage},
                        todo : SUBSET Streams]
        /\ \A c : Broadcast(c)' => Broadcast(c)
    <2>1. CASE BridgeTakes
      <3>1. /\ outgoing # <<>> /\ outgoing' = Tail(outgoing)
            /\ bridge' = [bridge EXCEPT !.message = Head(outgoing), !.todo = sseClients]
        BY <2>1 DEF BridgeTakes
      <3>2. /\ outgoing' \in Seq(Messages) /\ Len(outgoing') = Len(outgoing) - 1
            /\ Len(outgoing) \in Nat \ {0} /\ DOMAIN outgoing = 1 .. Len(outgoing)
            /\ DOMAIN outgoing' = 1 .. (Len(outgoing) - 1)
            /\ \A k \in DOMAIN outgoing' : outgoing'[k] = outgoing[k + 1]
            /\ Head(outgoing) \in Messages /\ Head(outgoing) = outgoing[1]
        BY <1>t, <3>1
      <3>3. Len(outgoing') <= MessageBuffer
        BY <1>t, <3>2 DEF EventsTypeOK
      <3>4. /\ bridge' \in [at : {"loop", "exited"},
                            message : Messages \cup {NoMessage}, todo : SUBSET Streams]
            /\ bridge'.message = outgoing[1]
        BY <1>t, <3>1, <3>2
      <3>5. \A c : Broadcast(c)' => Broadcast(c)
        BY <3>2, <3>4 DEF Broadcast
      <3> QED BY <3>2, <3>3, <3>4, <3>5
    <2>2. CASE BridgeExits \/ \E s \in Streams : BridgeWrites(s)
      <3>1. UNCHANGED outgoing
        BY <2>2 DEF BridgeExits, BridgeWrites
      <3>2. /\ bridge' \in [at : {"loop", "exited"},
                            message : Messages \cup {NoMessage}, todo : SUBSET Streams]
            /\ bridge'.message = bridge.message
        BY <1>t, <2>2 DEF BridgeExits, BridgeWrites
      <3> QED BY <1>t, <3>1, <3>2 DEF Broadcast, EventsTypeOK
    <2> QED BY <2>1, <2>2 DEF Bridge
  <1>3. TypeOK' /\ CallsInv'
    BY <1>1, <1>2, CallsKept
  <1>4. EventsTypeOK'
    BY <1>t, <1>1, <1>2, <1>3 DEF EventsTypeOK
  <1>5. StreamsInv'
    BY <1>t, <1>1 DEF StreamsInv, ServedIsListed, vars
  <1> QED BY <1>3, <1>4, <1>5 DEF IInv

\* Close closes the Done of every stream that is listed.
LEMMA CloseEndsStreamsStep ==
    ASSUME IInv, CloseEndsStreams
    PROVE  IInv'
  <1>1. /\ closer = "open" /\ closer' = "streams" /\ done' = done \cup sseClients
        /\ UNCHANGED <<call, outcome, timer, buf, closed, pending, queue, work, found,
                       ctxDone, panicked>>
        /\ UNCHANGED <<load, stream, sseClients, notice, todo, outgoing, bridge>>
    BY DEF CloseEndsStreams, CloseStreams, callVars, chanVars, workVars, noticeVars
  <1>2. TypeOK'
    BY <1>1 DEF IInv, EventsTypeOK, TypeOK
  <1>3. EventsTypeOK'
    BY <1>1, <1>2 DEF IInv, EventsTypeOK
  <1>4. StreamsInv'
    BY <1>1 DEF IInv, StreamsInv, ServedIsListed
  <1>5. \A c \in Calls : CallOK(c)'
    <2> SUFFICES ASSUME NEW c \in Calls PROVE CallOK(c)'
      OBVIOUS
    <2>1. CallOK(c) /\ (Queued(c)' => Queued(c)) /\ (Broadcast(c)' => Broadcast(c))
      BY <1>1 DEF IInv, CallsInv, Queued, Broadcast
    <2> QED BY <1>1, <2>1, CallApart
  <1> QED BY <1>1, <1>3, <1>4, <1>5 DEF IInv, CallsInv

(***************************************************************************)
(* The theorem                                                             *)
(***************************************************************************)
LEMMA InitHolds == EventsInit => IInv
  <1> SUFFICES ASSUME EventsInit PROVE IInv
    OBVIOUS
  <1>0. MessageBuffer \in Nat
    BY ConstantsAssumption
  <1>1. TypeOK
    <2>1. [kind |-> "none", for |-> NoCall] \in Outcomes
      BY DEF Outcomes
    <2>2. outcome \in [Calls -> Outcomes]
      BY <2>1 DEF EventsInit, Init
    <2>3. /\ buf \in [Calls -> Calls \cup {NoCall}]
          /\ found \in [Calls -> Calls \cup {NoCall}]
          /\ pending \in [Ids -> Calls \cup {NoCall}]
      BY DEF EventsInit, Init
    <2>4. queue \in Seq(Calls) /\ Len(queue) = 0
      BY DEF EventsInit, Init
    <2>5. /\ call \in [Calls -> {"none", "store", "enqueue", "wait", "ended"}]
          /\ timer \in [Calls -> {"none", "armed", "stopped", "fired", "removed",
                                  "expired"}]
          /\ closed \in [Calls -> BOOLEAN]
          /\ work \in [Calls -> {"none", "handling", "delegated", "enqueue", "send",
                                 "remove", "done"}]
          /\ ctxDone \in BOOLEAN /\ closer = "open" /\ panicked \in BOOLEAN
      BY DEF EventsInit, Init
    <2> QED BY <1>0, <2>2, <2>3, <2>4, <2>5 DEF TypeOK
  <1>2. EventsTypeOK
    BY <1>0, <1>1 DEF EventsInit, EventsTypeOK
  <1>3. \A c \in Calls : CallOK(c)
    <2> SUFFICES ASSUME NEW c \in Calls PROVE CallOK(c)
      OBVIOUS
    <2>1. Id[c] \in Ids /\ c # NoCall
      BY DEF Ids, Calls, NoCall
    <2>2. /\ call[c] = "none" /\ timer[c] = "none" /\ work[c] = "none"
          /\ found[c] = NoCall /\ buf[c] = NoCall /\ pending[Id[c]] = NoCall
          /\ outcome[c].kind = "none" /\ queue = <<>> /\ outgoing = <<>>
          /\ bridge.message.kind = "none"
      BY <2>1 DEF EventsInit, Init, NoMessage
    <2>3. ~Answered(c) /\ ~Broadcast(c) /\ ~Queued(c)
      BY <2>1, <2>2 DEF Answered, Broadcast, Queued, Answer, Response
    <2> QED BY <2>2, <2>3 DEF CallOK
  <1>4. StreamsInv
    BY DEF EventsInit, StreamsInv, ServedIsListed
  <1> QED BY <1>2, <1>3, <1>4 DEF IInv, CallsInv, EventsInit, Init

LEMMA StepHolds ==
    ASSUME DistinctIds
    PROVE  IInv /\ [EventsNext]_allVars => IInv'
  <1> SUFFICES ASSUME IInv, [EventsNext]_allVars PROVE IInv'
    OBVIOUS
  <1>1. CASE EventsNext
    BY <1>1, RequestsStep, StreamStep, NoticeStep, ResponseStep, BridgeStep,
       CloseEndsStreamsStep DEF EventsNext
  <1>2. CASE UNCHANGED allVars
    <2>1. UNCHANGED eventVars /\ UNCHANGED vars
      BY <1>2 DEF allVars
    <2>2. TypeOK' /\ CallsInv'
      BY <2>1, CallsKept DEF Broadcast, eventVars
    <2>3. EventsTypeOK' /\ StreamsInv'
      BY <2>1, <2>2, EventsKept DEF vars
    <2> QED BY <2>2, <2>3 DEF IInv
  <1> QED BY <1>1, <1>2

\* transport/streamable_http_server.go, for clients that use no id twice: a POST
\* gets its own response and no other; its response is not broadcast besides; it
\* never waits for something that nobody will do, although each of worker, timer
\* and handler may remove its entry; and Close closes no Done twice.
THEOREM CallsAndStreamsSound ==
    ASSUME DistinctIds
    PROVE  EventsSpec => []EventsInv
  BY InitHolds, StepHolds, IInvImpliesInv, PTL DEF EventsSpec

=============================================================================
