-------------------------- MODULE ProgressHandler --------------------------
(***************************************************************************)
(* internal/progress_handler.go: a MessageHandler that can also send       *)
(* requests with progress.  They take their id from the same counter, but  *)
(* are kept in a map of their own, progressRequests, that the correlation  *)
(* of responses does not know: only a timeout ends them.  Progress starts  *)
(* the timer of such a request anew.                                       *)
(*                                                                         *)
(* progressTokens has a token for each request in progressRequests and     *)
(* changes together with it, so that one set, tracked, stands for both.    *)
(* A token is an int64 there and a float64 when it comes over the wire:    *)
(* progress from the peer is never matched with a request, only what       *)
(* InjectProgressNotification is given, by one caller at a time.           *)
(***************************************************************************)
EXTENDS HandlerBase

CONSTANT MaxProgress   \* bound on the notifications that are injected

ASSUME ProgressAssumption == MaxProgress \in Nat

VARIABLES
    outgoingLength, \* the length of outgoingChan
    notifications,  \* the length of notificationChan
    progress,       \* progress[i]: how far the caller of request i has come
    tracked,        \* the keys of progressRequests
    clock,          \* clock[i]: Timer and TotalTimer of request i
    expiring,       \* expiring[i]: callbacks of these that wait for progressMu
    ending,         \* ending[i]: the callback that has taken i from the map, or
                    \* has missed it because it came before i was stored
    ended,          \* ended[i]: how often the response channel has been closed
    notifier,       \* handleProgressNotification and the request it is about
    injected,       \* notifications injected so far
    consumer,       \* processProgressNotifications
    cleanup,        \* Close: requestsToCleanup
    shutdown,       \* Close: how far it is
    forsaken        \* requests Close has taken from the map, their channels open

baseVars == <<ctxDone, requestID, outgoingLength, notifications, arrivals>>
requestVars == <<progress, tracked, clock, expiring, ending, ended>>
progressCloseVars == <<cleanup, shutdown, forsaken>>
progressVars ==
    <<baseVars, requestVars, notifier, injected, consumer, progressCloseVars>>

NoClock == [timer |-> "none", total |-> "none"]

StoppedClock(c) == [timer |-> Stopped(c.timer), total |-> Stopped(c.total)]

(***************************************************************************)
(* SendRequestWithProgress                                                 *)
(***************************************************************************)

\* The check of ctx, the id and the timers, with a limit on the total time or
\* without.
SendWithProgress ==
    /\ ~ctxDone
    /\ requestID < MaxRequests
    /\ LET i == requestID + 1 IN
       /\ requestID' = i
       /\ progress' = [progress EXCEPT ![i] = "created"]
       /\ \E total \in {"armed", "none"} :
              clock' = [clock EXCEPT ![i] = [timer |-> "armed", total |-> total]]
    /\ UNCHANGED <<ctxDone, outgoingLength, notifications, arrivals, tracked,
                   expiring, ending, ended, notifier, injected, consumer,
                   progressCloseVars>>

StoreProgress(i) ==
    /\ progress[i] = "created"
    /\ progress' = [progress EXCEPT ![i] = "stored"]
    /\ tracked' = tracked \cup {i}
    /\ UNCHANGED <<baseVars, clock, expiring, ending, ended, notifier, injected,
                   consumer, progressCloseVars>>

EnqueueProgress(i) ==
    /\ progress[i] = "stored"
    /\ outgoingLength < BufferSize
    /\ outgoingLength' = outgoingLength + 1
    /\ progress' = [progress EXCEPT ![i] = "waiting"]
    /\ UNCHANGED <<ctxDone, requestID, notifications, arrivals, tracked, clock,
                   expiring, ending, ended, notifier, injected, consumer,
                   progressCloseVars>>

\* Params that json.Marshal rejects, or a context that is done: the request is
\* removed and its timers are stopped, in one critical section.
FailProgress(i) ==
    /\ progress[i] = "stored"
    /\ progress' = [progress EXCEPT ![i] = "failed"]
    /\ tracked' = tracked \ {i}
    /\ clock' = [clock EXCEPT ![i] = IF i \in tracked THEN StoppedClock(@)
                                                      ELSE @]
    /\ UNCHANGED <<baseVars, expiring, ending, ended, notifier, injected, consumer,
                   progressCloseVars>>

\* The caller: its channel is closed, or its own context is done.  Nothing is
\* ever sent on the channel.
ProgressReturns(i) ==
    /\ progress[i] = "waiting"
    /\ ended[i] > 0
    /\ progress' = [progress EXCEPT ![i] = "noResponse"]
    /\ UNCHANGED <<baseVars, tracked, clock, expiring, ending, ended, notifier,
                   injected, consumer, progressCloseVars>>

AbandonProgress(i) ==
    /\ progress[i] = "waiting"
    /\ progress' = [progress EXCEPT ![i] = "abandoned"]
    /\ UNCHANGED <<baseVars, tracked, clock, expiring, ending, ended, notifier,
                   injected, consumer, progressCloseVars>>

(***************************************************************************)
(* handleRequestTimeout                                                    *)
(***************************************************************************)
ClockFires(i, t) ==
    /\ clock[i][t] = "armed"
    /\ clock' = [clock EXCEPT ![i][t] = "fired"]
    /\ expiring' = [expiring EXCEPT ![i] = @ + 1]
    /\ UNCHANGED <<baseVars, progress, tracked, ending, ended, notifier, injected,
                   consumer, progressCloseVars>>

\* The critical section: the first callback takes the request, later ones
\* return, and so does one that comes before the request is stored.
ExpiryTakes(i) ==
    /\ expiring[i] > 0
    /\ expiring' = [expiring EXCEPT ![i] = @ - 1]
    /\ tracked' = tracked \ {i}
    /\ ending' = [ending EXCEPT ![i] = IF i \in tracked THEN "stop"
                                       ELSE IF progress[i] = "created"
                                            THEN "missed" ELSE @]
    /\ UNCHANGED <<baseVars, progress, clock, ended, notifier, injected, consumer,
                   progressCloseVars>>

ExpiryStopsClock(i) ==
    /\ ending[i] = "stop"
    /\ clock' = [clock EXCEPT ![i] = StoppedClock(@)]
    /\ ending' = [ending EXCEPT ![i] = "close"]
    /\ UNCHANGED <<baseVars, progress, tracked, expiring, ended, notifier,
                   injected, consumer, progressCloseVars>>

\* close(Response): a second close would panic.
ExpiryCloses(i) ==
    /\ ending[i] = "close"
    /\ ending' = [ending EXCEPT ![i] = "done"]
    /\ ended' = [ended EXCEPT ![i] = @ + 1]
    /\ UNCHANGED <<baseVars, progress, tracked, clock, expiring, notifier,
                   injected, consumer, progressCloseVars>>

(***************************************************************************)
(* Progress                                                                *)
(***************************************************************************)
NoNotification == [at |-> "idle", id |-> 0]

\* InjectProgressNotification for request i, whose entry is looked up under the
\* lock and used after it.
ProgressInjected(i) ==
    /\ injected < MaxProgress
    /\ notifier.at = "idle"
    /\ i \in tracked
    /\ injected' = injected + 1
    /\ notifier' = [at |-> "callback", id |-> i]
    /\ UNCHANGED <<baseVars, requestVars, consumer, progressCloseVars>>

\* The callback has returned.  With ResetTimeoutOnProgress the timer is stopped
\* and, in the next step, replaced.
CallbackReturns ==
    /\ notifier.at = "callback"
    /\ \/ /\ notifier' = NoNotification
          /\ clock' = clock
       \/ /\ notifier' = [notifier EXCEPT !.at = "rearm"]
          /\ clock' = [clock EXCEPT ![notifier.id].timer = Stopped(@)]
    /\ UNCHANGED <<baseVars, progress, tracked, expiring, ending, ended, injected,
                   consumer, progressCloseVars>>

\* Mutated form: only a timer that had fired is replaced, one that was stopped before
\* it fired stays stopped.
RearmsUnlessStopped ==
    /\ notifier.at = "rearm"
    /\ clock' = [clock EXCEPT ![notifier.id].timer =
                     IF @ = "stopped" THEN @ ELSE "armed"]
    /\ notifier' = NoNotification
    /\ UNCHANGED <<baseVars, progress, tracked, expiring, ending, ended, injected,
                   consumer, progressCloseVars>>

\* time.AfterFunc, whatever has become of the request.
Rearms ==
    /\ notifier.at = "rearm"
    /\ clock' = [clock EXCEPT ![notifier.id].timer = "armed"]
    /\ notifier' = NoNotification
    /\ UNCHANGED <<baseVars, progress, tracked, expiring, ending, ended, injected,
                   consumer, progressCloseVars>>

\* processProgressNotifications takes every notification that comes over the
\* wire, of whatever kind.  None has an effect.
ConsumerTakes ==
    /\ consumer = "idle"
    /\ notifications > 0
    /\ notifications' = notifications - 1
    /\ UNCHANGED <<ctxDone, requestID, outgoingLength, arrivals, requestVars,
                   notifier, injected, consumer, progressCloseVars>>

ConsumerExits ==
    /\ ctxDone
    /\ consumer = "idle"
    /\ consumer' = "exited"
    /\ UNCHANGED <<baseVars, requestVars, notifier, injected, progressCloseVars>>

(***************************************************************************)
(* Close                                                                   *)
(***************************************************************************)
CloseTakesRequests ==
    /\ shutdown = "open"
    /\ shutdown' = "cleaning"
    /\ cleanup' = tracked
    /\ forsaken' = forsaken \cup tracked
    /\ tracked' = {}
    /\ UNCHANGED <<baseVars, progress, clock, expiring, ending, ended, notifier,
                   injected, consumer>>

\* Mutated form: the timers of requests that came later are stopped as well.
CloseStopsEveryClock ==
    /\ shutdown = "cleaning"
    /\ shutdown' = "base"
    /\ clock' = [i \in Ids |-> StoppedClock(clock[i])]
    /\ cleanup' = {}
    /\ UNCHANGED <<baseVars, progress, tracked, expiring, ending, ended, notifier,
                   injected, consumer, forsaken>>

\* The timers are stopped, the lock is free again; the channels stay open.
CloseStopsClocks ==
    /\ shutdown = "cleaning"
    /\ shutdown' = "base"
    /\ clock' = [i \in Ids |-> IF i \in cleanup THEN StoppedClock(clock[i])
                                                ELSE clock[i]]
    /\ cleanup' = {}
    /\ UNCHANGED <<baseVars, progress, tracked, expiring, ending, ended, notifier,
                   injected, consumer, forsaken>>

\* MessageHandler.Close, whose own map has none of these requests.
CloseBase ==
    /\ shutdown = "base"
    /\ shutdown' = "closed"
    /\ ctxDone' = TRUE
    /\ UNCHANGED <<requestID, outgoingLength, notifications, arrivals, requestVars,
                   notifier, injected, consumer, cleanup, forsaken>>

(***************************************************************************)
(* The MessageHandler and its transport                                    *)
(***************************************************************************)
ContextCancelled ==
    /\ ~ctxDone
    /\ ctxDone' = TRUE
    /\ UNCHANGED <<requestID, outgoingLength, notifications, arrivals, requestVars,
                   notifier, injected, consumer, progressCloseVars>>

OutgoingTaken ==
    /\ outgoingLength > 0
    /\ outgoingLength' = outgoingLength - 1
    /\ UNCHANGED <<ctxDone, requestID, notifications, arrivals, requestVars,
                   notifier, injected, consumer, progressCloseVars>>

NotificationArrives ==
    /\ arrivals < MaxIncoming
    /\ notifications < BufferSize
    /\ arrivals' = arrivals + 1
    /\ notifications' = notifications + 1
    /\ UNCHANGED <<ctxDone, requestID, outgoingLength, requestVars, notifier,
                   injected, consumer, progressCloseVars>>

(***************************************************************************)
(* The specification                                                       *)
(***************************************************************************)
ProgressInit ==
    /\ ctxDone = FALSE
    /\ requestID = 0
    /\ outgoingLength = 0
    /\ notifications = 0
    /\ arrivals = 0
    /\ progress = [i \in Ids |-> "none"]
    /\ tracked = {}
    /\ clock = [i \in Ids |-> NoClock]
    /\ expiring = [i \in Ids |-> 0]
    /\ ending = [i \in Ids |-> "no"]
    /\ ended = [i \in Ids |-> 0]
    /\ notifier = NoNotification
    /\ injected = 0
    /\ consumer = "idle"
    /\ cleanup = {}
    /\ shutdown = "open"
    /\ forsaken = {}

ProgressCaller(i) == \/ StoreProgress(i)
                     \/ EnqueueProgress(i)
                     \/ FailProgress(i)
                     \/ ProgressReturns(i)
                     \/ AbandonProgress(i)

Clock(i) == \E t \in {"timer", "total"} : ClockFires(i, t)

Expiry(i) == ExpiryTakes(i) \/ ExpiryStopsClock(i) \/ ExpiryCloses(i)

Notifier == CallbackReturns \/ Rearms

Consumer == ConsumerTakes \/ ConsumerExits

Close == CloseTakesRequests \/ CloseStopsClocks \/ CloseBase

ProgressNext ==
    \/ SendWithProgress
    \/ \E i \in Ids : ProgressCaller(i) \/ Clock(i) \/ Expiry(i)
    \/ \E i \in Ids : ProgressInjected(i)
    \/ Notifier
    \/ Consumer
    \/ Close
    \/ ContextCancelled
    \/ OutgoingTaken
    \/ NotificationArrives

ProgressSpec == ProgressInit /\ [][ProgressNext]_progressVars

\* The goroutines run, timers fire, and a callback for progress returns.
ProgressFairness ==
    /\ \A i \in Ids : /\ WF_progressVars(StoreProgress(i))
                      /\ WF_progressVars(ProgressReturns(i))
                      /\ WF_progressVars(Clock(i))
                      /\ WF_progressVars(Expiry(i))
    /\ WF_progressVars(Notifier)
    /\ WF_progressVars(CloseStopsClocks)

ProgressFairSpec == ProgressSpec /\ ProgressFairness

(***************************************************************************)
(* Properties                                                              *)
(***************************************************************************)

\* Type invariant of the progress handler.
ProgressTypeOK ==
    /\ ctxDone \in BOOLEAN
    /\ requestID \in 0 .. MaxRequests
    /\ outgoingLength \in 0 .. BufferSize
    /\ notifications \in 0 .. BufferSize
    /\ arrivals \in 0 .. MaxIncoming
    /\ progress \in [Ids -> {"none", "created", "stored", "waiting",
                             "noResponse", "abandoned", "failed"}]
    /\ tracked \subseteq Ids
    /\ clock \in [Ids -> [timer : {"none", "armed", "stopped", "fired"},
                          total : {"none", "armed", "stopped", "fired"}]]
    /\ expiring \in [Ids -> Nat]
    /\ ending \in [Ids -> {"no", "missed", "stop", "close", "done"}]
    /\ ended \in [Ids -> Nat]
    /\ notifier \in [at : {"idle", "callback", "rearm"}, id : Ids \cup {0}]
    /\ injected \in 0 .. MaxProgress
    /\ consumer \in {"idle", "exited"}
    /\ cleanup \subseteq Ids
    /\ shutdown \in {"open", "cleaning", "base", "closed"}
    /\ forsaken \subseteq Ids

\* However many timers a request gets and however they race each other, progress
\* and Close: its channel is closed only by the one callback that took it from
\* the map, and nobody can close it any more once that is done.
OneExpiryCloses ==
    \A i \in Ids : /\ ended[i] <= 1
                   /\ ended[i] = 1 => ending[i] = "done" /\ i \notin tracked

\* Progress never leaves a request without a timer: one that is in the map has
\* a timer that runs, a callback on its way or a notification that is about to
\* arm a new one, unless a timer had fired before the request was in the map.
TrackedHasTimer ==
    \A i \in tracked :
        \/ clock[i].timer = "armed" \/ clock[i].total = "armed"
        \/ expiring[i] > 0
        \/ notifier = [at |-> "rearm", id |-> i]
        \/ ending[i] = "missed"

\* A request is taken from the map by Close or by a callback, never by both: of
\* those that Close has taken no timer, however late, closes the channel, and
\* their callers come back by their own contexts alone.
ForsakenStayOpen == \A i \in forsaken : ended[i] = 0 /\ progress[i] # "noResponse"

\* What the timers of requests with progress keep, as one invariant.
ProgressInv ==
    ProgressTypeOK /\ OneExpiryCloses /\ TrackedHasTimer /\ ForsakenStayOpen

\* Every call with progress returns, except those that Close takes from the map
\* and those whose timer fired before they were in it.
ProgressCallReturns ==
    \A i \in Ids :
        progress[i] = "waiting"
            ~> \/ progress[i] # "waiting"
               \/ i \in forsaken
               \/ ending[i] = "missed"

\* Every call with progress returns, as EveryCallReturns of MessageHandler
\* says of the others.
EveryProgressCallReturns ==
    \A i \in Ids : progress[i] = "waiting" ~> progress[i] # "waiting"

=============================================================================
