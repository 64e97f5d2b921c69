-------------------------- MODULE ResourceRegistry --------------------------
(***************************************************************************)
(* server/registry.go, ResourceRegistry: resources that are registered,    *)
(* unregistered and read by concurrent goroutines.  Read is a sequence of  *)
(* critical sections under mu with the handler called in between, and it   *)
(* keeps what the handler returns in a cache on the entry.  Each change    *)
(* starts a goroutine that tells the subscribers, without waiting for them,*)
(* under subscribersMu.                                                    *)
(*                                                                         *)
(* One URI is enough: resources share only the tokens of the pool.  The    *)
(* entries that Register makes for it are numbered in order, and content   *)
(* is known by the entry whose handler produced it.                        *)
(***************************************************************************)
EXTENDS Naturals, Sequences, FiniteSets

CONSTANTS
    Readers,             \* goroutines that call Read
    Subscribers,         \* subscriber ids
    MaxConcurrentReads,  \* the capacity of workerPool
    ChannelSize,         \* the capacity of a subscriber's channel (10)
    MaxEntries,          \* bound on the number of registrations
    Workloads            \* bounds: the reads of one reader and the calls of
                         \* Subscribe that may happen beside each other

ASSUME ConstantsAssumption ==
    /\ MaxConcurrentReads \in Nat \ {0}
    /\ ChannelSize \in Nat \ {0}
    /\ MaxEntries \in Nat
    /\ Workloads \subseteq [reads : Nat, subscriptions : Nat]
    /\ IsFiniteSet(Readers)

Entries == 1 .. MaxEntries
None == 0

VARIABLES
    registered,     \* the entry resources holds for the URI, or None
    entries,        \* how many entries there have been
    cache,          \* cache[e]: whose content entry e holds and would serve
    accesses,       \* accesses[e]: AccessCount of entry e
    tokens,         \* the length of workerPool
    reader,         \* reader[r]: where Read is, with what in its hands
    reads,          \* reads[r]: how many more times r may read
    notifier,       \* the goroutines notifySubscribers, in the order of go
    subscriber,     \* subscriber[s]: its channel and what went through it
    subscriptions   \* how many more calls of Subscribe there may be

registryVars == <<registered, entries, cache, accesses>>
readerVars == <<tokens, reader, reads>>
eventVars == <<subscriber, subscriptions>>
vars == <<registryVars, readerVars, notifier, eventVars>>

Reading == [at |-> "idle", entry |-> None, content |-> None]
NoChannel == [open |-> FALSE, buffer |-> <<>>, got |-> {}, missed |-> {},
              since |-> 0]

\* go rr.notifySubscribers(event)
Notify(event) == notifier' = Append(notifier, [event |-> event, at |-> "started",
                                               left |-> {}])

(***************************************************************************)
(* Register and Unregister                                                 *)
(***************************************************************************)

\* A new entry, without a cache, replaces the one there may be.
Register ==
    /\ entries < MaxEntries
    /\ entries' = entries + 1
    /\ registered' = entries + 1
    /\ Notify("added")
    /\ UNCHANGED <<cache, accesses, readerVars, eventVars>>

\* An unknown resource is an error and changes nothing.
Unregister ==
    /\ registered # None
    /\ registered' = None
    /\ Notify("removed")
    /\ UNCHANGED <<entries, cache, accesses, readerVars, eventVars>>

(***************************************************************************)
(* Read                                                                    *)
(***************************************************************************)

\* The first critical section finds the entry, or the read fails.
ReadLooksUp(r) ==
    /\ reader[r].at \in {"idle", "done"}
    /\ reads[r] > 0
    /\ reads' = [reads EXCEPT ![r] = @ - 1]
    /\ reader' = [reader EXCEPT ![r] =
                    IF registered = None
                    THEN Reading
                    ELSE [Reading EXCEPT !.at = "check", !.entry = registered]]
    /\ UNCHANGED <<registryVars, tokens, notifier, eventVars>>

\* The second critical section: the entry found before may have content.
ReadHitsCache(r) ==
    /\ reader[r].at = "check"
    /\ cache[reader[r].entry] # None
    /\ reader' = [reader EXCEPT ![r].at = "account",
                                ![r].content = cache[reader[r].entry]]
    /\ UNCHANGED <<registryVars, tokens, reads, notifier, eventVars>>

ReadMissesCache(r) ==
    /\ reader[r].at = "check"
    /\ cache[reader[r].entry] = None
    /\ reader' = [reader EXCEPT ![r].at = "acquire"]
    /\ UNCHANGED <<registryVars, tokens, reads, notifier, eventVars>>

ReadAcquires(r) ==
    /\ reader[r].at = "acquire"
    /\ tokens > 0
    /\ tokens' = tokens - 1
    /\ reader' = [reader EXCEPT ![r].at = "handler"]
    /\ UNCHANGED <<registryVars, reads, notifier, eventVars>>

\* The context is done before there is a token.
ReadGivesUp(r) ==
    /\ reader[r].at = "acquire"
    /\ reader' = [reader EXCEPT ![r] = Reading]
    /\ UNCHANGED <<registryVars, tokens, reads, notifier, eventVars>>

\* The handler of the entry found at the start returns its content.
HandlerReturns(r) ==
    /\ reader[r].at = "handler"
    /\ reader' = [reader EXCEPT ![r].at = "store",
                                ![r].content = reader[r].entry]
    /\ UNCHANGED <<registryVars, tokens, reads, notifier, eventVars>>

\* The handler fails: subscribers are told and the token is given back.
HandlerFails(r) ==
    /\ reader[r].at = "handler"
    /\ tokens' = tokens + 1
    /\ reader' = [reader EXCEPT ![r] = Reading]
    /\ Notify("error")
    /\ UNCHANGED <<registryVars, reads, eventVars>>

\* Mutated form: the content goes to the entry found at the start.
ReadStoresInOldEntry(r) ==
    /\ reader[r].at = "store"
    /\ cache' = [cache EXCEPT ![reader[r].entry] = reader[r].content]
    /\ reader' = [reader EXCEPT ![r].at = "accountAndRelease"]
    /\ UNCHANGED <<registered, entries, accesses, tokens, reads, notifier,
                   eventVars>>

\* The third critical section stores the content in the entry that is now
\* registered, if there is one.
ReadStores(r) ==
    /\ reader[r].at = "store"
    /\ cache' = IF registered = None
                THEN cache
                ELSE [cache EXCEPT ![registered] = reader[r].content]
    /\ reader' = [reader EXCEPT ![r].at = "accountAndRelease"]
    /\ UNCHANGED <<registered, entries, accesses, tokens, reads, notifier,
                   eventVars>>

\* updateAccessStats, and the deferred release of the token if one was taken.
ReadReturns(r) ==
    /\ reader[r].at \in {"account", "accountAndRelease"}
    /\ accesses' = IF registered = None
                   THEN accesses
                   ELSE [accesses EXCEPT ![registered] = @ + 1]
    /\ tokens' = IF reader[r].at = "account" THEN tokens ELSE tokens + 1
    /\ reader' = [reader EXCEPT ![r].at = "done"]
    /\ UNCHANGED <<registered, entries, cache, reads, notifier, eventVars>>

\* The time to live of cached content runs out.
CacheExpires(e) ==
    /\ cache[e] # None
    /\ cache' = [cache EXCEPT ![e] = None]
    /\ UNCHANGED <<registered, entries, accesses, readerVars, notifier,
                   eventVars>>

(***************************************************************************)
(* Subscriptions                                                           *)
(***************************************************************************)

\* subscribersMu is held for reading by the goroutines that are sending.
SubscribersLocked ==
    \E k \in DOMAIN notifier : notifier[k].at = "sending"

\* A second call for the same id replaces the channel and leaves the first one
\* open and without a sender.
Subscribe(s) ==
    /\ subscriptions > 0
    /\ ~SubscribersLocked
    /\ subscriptions' = subscriptions - 1
    /\ subscriber' = [subscriber EXCEPT ![s] =
                        [NoChannel EXCEPT !.open = TRUE,
                                          !.since = Len(notifier)]]
    /\ UNCHANGED <<registryVars, readerVars, notifier>>

\* Mutated form: the channel is closed without the lock.
UnsubscribeUnlocked(s) ==
    /\ subscriber[s].open
    /\ subscriber' = [subscriber EXCEPT ![s] = NoChannel]
    /\ UNCHANGED <<registryVars, readerVars, notifier, subscriptions>>

\* The channel is closed and forgotten in one critical section.
Unsubscribe(s) ==
    /\ subscriber[s].open
    /\ ~SubscribersLocked
    /\ subscriber' = [subscriber EXCEPT ![s] = NoChannel]
    /\ UNCHANGED <<registryVars, readerVars, notifier, subscriptions>>

\* notifySubscribers: subscribersMu.RLock() and the start of the loop.
NotifierStarts(k) ==
    /\ notifier[k].at = "started"
    /\ notifier' = [notifier EXCEPT ![k].at = "sending",
                      ![k].left = {s \in Subscribers : subscriber[s].open}]
    /\ UNCHANGED <<registryVars, readerVars, eventVars>>

\* Mutated form: the first full channel ends the loop.
NotifierStopsWhenFull(k, s) ==
    /\ notifier[k].at = "sending"
    /\ s \in notifier[k].left
    /\ IF Len(subscriber[s].buffer) < ChannelSize
       THEN /\ subscriber' = [subscriber EXCEPT ![s].buffer = Append(@, k)]
            /\ notifier' = [notifier EXCEPT ![k].left = @ \ {s}]
       ELSE /\ subscriber' = [subscriber EXCEPT ![s].missed = @ \cup {k}]
            /\ notifier' = [notifier EXCEPT ![k].left = {}]
    /\ UNCHANGED <<registryVars, readerVars, subscriptions>>

\* One turn of the loop: the event is put in the channel of s, or skipped when
\* the channel is full.
NotifierSends(k, s) ==
    /\ notifier[k].at = "sending"
    /\ s \in notifier[k].left
    /\ subscriber' = IF Len(subscriber[s].buffer) < ChannelSize
                     THEN [subscriber EXCEPT ![s].buffer = Append(@, k)]
                     ELSE [subscriber EXCEPT ![s].missed = @ \cup {k}]
    /\ notifier' = [notifier EXCEPT ![k].left = @ \ {s}]
    /\ UNCHANGED <<registryVars, readerVars, subscriptions>>

NotifierEnds(k) ==
    /\ notifier[k].at = "sending"
    /\ notifier[k].left = {}
    /\ notifier' = [notifier EXCEPT ![k].at = "ended"]
    /\ UNCHANGED <<registryVars, readerVars, eventVars>>

\* The subscriber takes the next event from its channel.
Receives(s) ==
    /\ subscriber[s].buffer # <<>>
    /\ subscriber' = [subscriber EXCEPT
                        ![s].buffer = Tail(@),
                        ![s].got = @ \cup {Head(subscriber[s].buffer)}]
    /\ UNCHANGED <<registryVars, readerVars, notifier, subscriptions>>

(***************************************************************************)
(* The specification                                                       *)
(***************************************************************************)
Init ==
    /\ registered = None
    /\ entries = 0
    /\ cache = [e \in Entries |-> None]
    /\ accesses = [e \in Entries |-> 0]
    /\ tokens = MaxConcurrentReads
    /\ reader = [r \in Readers |-> Reading]
    /\ \E w \in Workloads : /\ reads = [r \in Readers |-> w.reads]
                            /\ subscriptions = w.subscriptions
    /\ notifier = <<>>
    /\ subscriber = [s \in Subscribers |-> NoChannel]

Read(r) == \/ ReadHitsCache(r)
           \/ ReadMissesCache(r)
           \/ ReadAcquires(r)
           \/ HandlerReturns(r)
           \/ HandlerFails(r)
           \/ ReadStores(r)
           \/ ReadReturns(r)

Notifier(k) == \/ NotifierStarts(k)
               \/ \E s \in Subscribers : NotifierSends(k, s)
               \/ NotifierEnds(k)

Next == \/ Register
        \/ Unregister
        \/ \E r \in Readers : ReadLooksUp(r) \/ Read(r) \/ ReadGivesUp(r)
        \/ \E e \in Entries : CacheExpires(e)
        \/ \E k \in DOMAIN notifier : Notifier(k)
        \/ \E s \in Subscribers : Subscribe(s) \/ Unsubscribe(s) \/ Receives(s)

Spec == Init /\ [][Next]_vars

(***************************************************************************)
(* Properties                                                              *)
(***************************************************************************)
ReaderPlaces == {"idle", "check", "acquire", "handler", "store", "account",
                 "accountAndRelease", "done"}

Events == DOMAIN notifier

\* Type invariant of the registry, its readers and its subscribers.
TypeOK ==
    /\ registered \in 0 .. MaxEntries
    /\ entries \in 0 .. MaxEntries
    /\ cache \in [Entries -> 0 .. MaxEntries]
    /\ accesses \in [Entries -> Nat]
    /\ tokens \in 0 .. MaxConcurrentReads
    /\ reader \in [Readers -> [at : ReaderPlaces, entry : 0 .. MaxEntries,
                               content : 0 .. MaxEntries]]
    /\ reads \in [Readers -> Nat]
    /\ notifier \in Seq([event : {"added", "removed", "error"},
                         at : {"started", "sending", "ended"},
                         left : SUBSET Subscribers])
    /\ subscriber \in [Subscribers -> [open : BOOLEAN, buffer : Seq(Events),
                                       got : SUBSET Events,
                                       missed : SUBSET Events,
                                       since : 0 .. Len(notifier)]]
    /\ subscriptions \in Nat

Holding == {r \in Readers :
               reader[r].at \in {"handler", "store", "accountAndRelease"}}

\* Tokens are neither lost nor made by reads that hit the cache, give up or
\* fail.
TokensConserved == tokens + Cardinality(Holding) = MaxConcurrentReads

\* The entries of resources that were unregistered or replaced stay as they
\* were, whatever reads of them are still under way.
RemovedEntriesFrozen ==
    [][\A e \in Entries : accesses'[e] # accesses[e]
                          \/ cache'[e] \notin {cache[e], None} => e = registered]_vars

\* A goroutine that tells the subscribers never finds a channel that has been
\* closed: a send on it would panic.
NoSendOnClosedChannel ==
    \A k \in Events : \A s \in notifier[k].left : subscriber[s].open

\* The registry's own invariants, as one.
Inv == TypeOK /\ TokensConserved /\ NoSendOnClosedChannel

\* An event that was announced has been offered to everyone who was subscribed
\* when the change was made: it was received, is waiting, or found the channel
\* full.
EventsOffered ==
    \A k \in Events, s \in Subscribers :
        notifier[k].at = "ended" /\ subscriber[s].open /\ subscriber[s].since < k
        => \/ k \in subscriber[s].got \cup subscriber[s].missed
           \/ \E i \in DOMAIN subscriber[s].buffer : subscriber[s].buffer[i] = k

\* A read returns the content of the handler that was registered when it began,
\* or of a later one.
ReadsCurrentHandler ==
    \A r \in Readers : reader[r].at = "done" => reader[r].content >= reader[r].entry

=============================================================================
