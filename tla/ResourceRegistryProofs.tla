------------------------ MODULE ResourceRegistryProofs ------------------------
(***************************************************************************)
(* Theorems about ResourceRegistry, for any readers and subscribers, any   *)
(* number of entries and any size of the pool and of the channels.         *)
(*                                                                         *)
(* The readers and the subscribers share nothing but the list of events,   *)
(* so that the inductive invariant has two parts that are proved apart.    *)
(* EventsOffered speaks of the notifiers that have ended; while one is     *)
(* sending, whoever it has not offered its event yet is still on its list. *)
(***************************************************************************)
EXTENDS ResourceRegistry, TLAPS, FiniteSetTheorems

(***************************************************************************)
(* The inductive invariant                                                 *)
(***************************************************************************)
RegistryTypeOK ==
    /\ registered \in 0 .. MaxEntries
    /\ entries \in 0 .. MaxEntries
    /\ cache \in [Entries -> 0 .. MaxEntries]
    /\ accesses \in [Entries -> Nat]
    /\ tokens \in 0 .. MaxConcurrentReads
    /\ reader \in [Readers -> [at : ReaderPlaces, entry : 0 .. MaxEntries,
                               content : 0 .. MaxEntries]]
    /\ reads \in [Readers -> Nat]

\* A read under way has found an entry.
EntryFound ==
    \A r \in Readers :
        reader[r].at \notin {"idle", "done"} => reader[r].entry \in Entries

\* The registry and its readers.
ReadersInv == RegistryTypeOK /\ TokensConserved /\ EntryFound

Notifiers == [event : {"added", "removed", "error"},
              at : {"started", "sending", "ended"},
              left : SUBSET Subscribers]

\* The channels of subscribers when there have been n events.
Channels(n) == [open : BOOLEAN, buffer : Seq(1 .. n), got : SUBSET (1 .. n),
                missed : SUBSET (1 .. n), since : 0 .. n]

EventsTypeOK ==
    /\ notifier \in Seq(Notifiers)
    /\ subscriber \in [Subscribers -> Channels(Len(notifier))]
    /\ subscriptions \in Nat

LeftWhileSending ==
    \A k \in Events : notifier[k].at # "sending" => notifier[k].left = {}

\* Event k has been received, is waiting in the channel or was skipped.
OfferedIn(channel, k) ==
    \/ k \in channel.got \cup channel.missed
    \/ \E i \in DOMAIN channel.buffer : channel.buffer[i] = k

\* Event k has been offered to s, or will be before its notifier ends.
OfferedSoFar ==
    \A k \in Events, s \in Subscribers :
        notifier[k].at # "started" /\ subscriber[s].open /\ subscriber[s].since < k
        => s \in notifier[k].left \/ OfferedIn(subscriber[s], k)

\* The events and their subscribers.
SubscribersInv ==
    EventsTypeOK /\ NoSendOnClosedChannel /\ LeftWhileSending /\ OfferedSoFar

\* The inductive invariant.
IInv == ReadersInv /\ SubscribersInv

LEMMA TypesTogether == TypeOK <=> RegistryTypeOK /\ EventsTypeOK
  <1>1. ASSUME notifier \in Seq(Notifiers)
        PROVE  Events = 1 .. Len(notifier)
    BY <1>1 DEF Events
  <1> QED BY <1>1 DEF TypeOK, RegistryTypeOK, EventsTypeOK, Notifiers, Channels

LEMMA HoldingFinite == IsFiniteSet(Holding) /\ Cardinality(Holding) \in Nat
  <1>1. Holding \in SUBSET Readers
    BY DEF Holding
  <1> QED BY <1>1, FS_Subset, FS_CardinalityType, ConstantsAssumption

(***************************************************************************)
(* The readers                                                             *)
(***************************************************************************)
HoldingPlaces == {"handler", "store", "accountAndRelease"}

\* A reader moves on and keeps what it holds of the pool.
LEMMA ReaderMoves ==
    ASSUME ReadersInv, NEW r \in Readers, UNCHANGED tokens,
           \A q \in Readers : q # r => reader'[q] = reader[q],
           reader'[r].at \in HoldingPlaces <=> reader[r].at \in HoldingPlaces
    PROVE  TokensConserved'
  <1>1. Holding' = Holding
    BY DEF Holding, HoldingPlaces
  <1> QED BY <1>1 DEF ReadersInv, TokensConserved

\* A reader takes a token.
LEMMA ReaderAcquires ==
    ASSUME ReadersInv, NEW r \in Readers, tokens > 0, tokens' = tokens - 1,
           \A q \in Readers : q # r => reader'[q] = reader[q],
           reader[r].at \notin HoldingPlaces, reader'[r].at \in HoldingPlaces
    PROVE  TokensConserved' /\ tokens' \in 0 .. MaxConcurrentReads
  <1>1. Holding' = Holding \cup {r} /\ r \notin Holding
    BY DEF Holding, HoldingPlaces
  <1>2. Cardinality(Holding') = Cardinality(Holding) + 1
    BY <1>1, HoldingFinite, FS_AddElement
  <1>3. tokens \in Nat /\ MaxConcurrentReads \in Nat
        /\ tokens + Cardinality(Holding) = MaxConcurrentReads
    BY ConstantsAssumption DEF ReadersInv, RegistryTypeOK, TokensConserved
  <1> QED BY <1>2, <1>3, HoldingFinite DEF TokensConserved

\* A reader gives its token back.
LEMMA ReaderReleases ==
    ASSUME ReadersInv, NEW r \in Readers, tokens' = tokens + 1,
           \A q \in Readers : q # r => reader'[q] = reader[q],
           reader[r].at \in HoldingPlaces, reader'[r].at \notin HoldingPlaces
    PROVE  TokensConserved' /\ tokens' \in 0 .. MaxConcurrentReads
  <1>1. Holding' = Holding \ {r} /\ r \in Holding
    BY DEF Holding, HoldingPlaces
  <1>2. /\ Cardinality(Holding') = Cardinality(Holding) - 1
        /\ Cardinality(Holding') \in Nat
    <2>1. IsFiniteSet(Holding')
      BY <1>1, HoldingFinite, FS_RemoveElement
    <2> QED BY <1>1, <2>1, HoldingFinite, FS_RemoveElement, FS_CardinalityType
  <1>3. tokens \in Nat /\ MaxConcurrentReads \in Nat
        /\ tokens + Cardinality(Holding) = MaxConcurrentReads
    BY ConstantsAssumption DEF ReadersInv, RegistryTypeOK, TokensConserved
  <1> QED BY <1>2, <1>3, HoldingFinite DEF TokensConserved

ReaderStates == [at : ReaderPlaces, entry : 0 .. MaxEntries,
                 content : 0 .. MaxEntries]

\* What is left to show of a step of Read.
LEMMA ReadKeeps ==
    ASSUME ReadersInv, NEW r \in Readers, UNCHANGED <<registered, entries>>,
           cache' \in [Entries -> 0 .. MaxEntries],
           accesses' \in [Entries -> Nat],
           reads' \in [Readers -> Nat],
           reader' = [reader EXCEPT ![r] = reader'[r]],
           reader'[r] \in ReaderStates,
           reader'[r].at \notin {"idle", "done"} => reader'[r].entry \in Entries,
           tokens' \in 0 .. MaxConcurrentReads, TokensConserved'
    PROVE  ReadersInv'
  <1>1. /\ reader' \in [Readers -> ReaderStates]
        /\ \A q \in Readers : q # r => reader'[q] = reader[q]
    BY DEF ReadersInv, RegistryTypeOK, ReaderStates
  <1>2. RegistryTypeOK'
    BY <1>1 DEF ReadersInv, RegistryTypeOK, ReaderStates
  <1>3. EntryFound'
    BY <1>1 DEF ReadersInv, EntryFound
  <1> QED BY <1>2, <1>3 DEF ReadersInv

\* What a reader has in its hands, field by field.
LEMMA ReaderFields ==
    ASSUME ReadersInv, NEW r \in Readers
    PROVE  /\ reader[r] \in ReaderStates
           /\ reader[r].at \in ReaderPlaces /\ reader[r].entry \in 0 .. MaxEntries
           /\ reader[r].content \in 0 .. MaxEntries
           /\ reader[r].at \notin {"idle", "done"} => reader[r].entry \in Entries
           /\ reads[r] \in Nat /\ tokens \in 0 .. MaxConcurrentReads
           /\ TokensConserved
  BY DEF ReadersInv, RegistryTypeOK, EntryFound, ReaderStates

LEMMA ReadLooksUpStep ==
    ASSUME ReadersInv, NEW r \in Readers, ReadLooksUp(r)
    PROVE  ReadersInv'
  <1>1. /\ reader[r].at \in {"idle", "done"} /\ reads[r] > 0
        /\ reads' = [reads EXCEPT ![r] = @ - 1]
        /\ UNCHANGED <<registered, entries, cache, accesses, tokens>>
    BY DEF ReadLooksUp, registryVars
  <1>2. /\ cache \in [Entries -> 0 .. MaxEntries] /\ accesses \in [Entries -> Nat]
        /\ registered \in 0 .. MaxEntries /\ MaxEntries \in Nat
        /\ reads \in [Readers -> Nat] /\ DOMAIN reader = Readers
        /\ \A v : [reader EXCEPT ![r] = v][r] = v
    BY ConstantsAssumption DEF ReadersInv, RegistryTypeOK
  <1>3. reads' \in [Readers -> Nat]
    BY <1>1, <1>2
  <1>4. /\ reader'[r].at \in {"idle", "check"} /\ reader'[r] \in ReaderStates
        /\ reader'[r].at \notin {"idle", "done"} => reader'[r].entry \in Entries
        /\ reader' = [reader EXCEPT ![r] = reader'[r]]
    <2>1. CASE registered = None
      <3>1. reader' = [reader EXCEPT ![r] = Reading] /\ Reading.at = "idle"
        BY <2>1 DEF ReadLooksUp, Reading
      <3>2. Reading \in ReaderStates
        BY <1>2 DEF Reading, ReaderStates, ReaderPlaces, None
      <3>3. reader'[r] = Reading
        BY <1>2, <3>1
      <3> QED BY <3>1, <3>2, <3>3
    <2>2. CASE registered # None
      <3> DEFINE found == [Reading EXCEPT !.at = "check", !.entry = registered]
      <3>1. reader' = [reader EXCEPT ![r] = found]
        BY <2>2 DEF ReadLooksUp
      <3>2. Reading \in ReaderStates
        BY <1>2 DEF Reading, ReaderStates, ReaderPlaces, None
      <3>3. found.at = "check" /\ found.entry = registered /\ found \in ReaderStates
        BY <1>2, <3>2 DEF ReaderStates, ReaderPlaces
      <3>4. registered \in Entries
        BY <1>2, <2>2 DEF Entries, None
      <3> HIDE DEF found
      <3>5. reader'[r] = found
        BY <1>2, <3>1
      <3> QED BY <3>1, <3>3, <3>4, <3>5
    <2> QED BY <2>1, <2>2
  <1>5. TokensConserved'
    <2>1. \A q \in Readers : q # r => reader'[q] = reader[q]
      BY <1>1, <1>2, <1>4
    <2> QED BY <1>1, <1>4, <2>1, ReaderMoves DEF HoldingPlaces
  <1> QED BY <1>1, <1>2, <1>3, <1>4, <1>5, ReaderFields, ReadKeeps

LEMMA ReadHitsCacheStep ==
    ASSUME ReadersInv, NEW r \in Readers, ReadHitsCache(r)
    PROVE  ReadersInv'
  <1>1. /\ reader[r].at = "check"
        /\ reader' = [reader EXCEPT ![r].at = "account",
                                    ![r].content = cache[reader[r].entry]]
        /\ UNCHANGED <<registered, entries, cache, accesses, tokens, reads>>
    BY DEF ReadHitsCache, registryVars
  <1>2. /\ cache \in [Entries -> 0 .. MaxEntries] /\ accesses \in [Entries -> Nat]
        /\ reads \in [Readers -> Nat] /\ reader \in [Readers -> ReaderStates]
    BY DEF ReadersInv, RegistryTypeOK, ReaderStates
  <1>3. reader[r].entry \in Entries /\ cache[reader[r].entry] \in 0 .. MaxEntries
    BY <1>1, <1>2, ReaderFields
  <1>4. /\ reader'[r] \in ReaderStates
        /\ reader'[r].at = "account" /\ reader'[r].entry = reader[r].entry
        /\ reader' = [reader EXCEPT ![r] = reader'[r]]
    BY <1>1, <1>2, <1>3 DEF ReaderStates, ReaderPlaces
  <1>5. TokensConserved'
    <2>1. \A q \in Readers : q # r => reader'[q] = reader[q]
      BY <1>1, <1>2, <1>4
    <2> QED BY <1>1, <1>4, <2>1, ReaderMoves DEF HoldingPlaces
  <1> QED BY <1>1, <1>2, <1>3, <1>4, <1>5, ReaderFields, ReadKeeps

LEMMA ReadMissesCacheStep ==
    ASSUME ReadersInv, NEW r \in Readers, ReadMissesCache(r)
    PROVE  ReadersInv'
  <1>1. /\ reader[r].at = "check"
        /\ reader' = [reader EXCEPT ![r].at = "acquire"]
        /\ UNCHANGED <<registered, entries, cache, accesses, tokens, reads>>
    BY DEF ReadMissesCache, registryVars
  <1>2. /\ cache \in [Entries -> 0 .. MaxEntries] /\ accesses \in [Entries -> Nat]
        /\ reads \in [Readers -> Nat] /\ reader \in [Readers -> ReaderStates]
    BY DEF ReadersInv, RegistryTypeOK, ReaderStates
  <1>3. /\ reader'[r] \in ReaderStates
        /\ reader'[r].at = "acquire" /\ reader'[r].entry = reader[r].entry
        /\ reader' = [reader EXCEPT ![r] = reader'[r]]
    BY <1>1, <1>2 DEF ReaderStates, ReaderPlaces
  <1>4. TokensConserved'
    BY <1>1, <1>3, ReaderMoves DEF HoldingPlaces
  <1> QED BY <1>1, <1>2, <1>3, <1>4, ReaderFields, ReadKeeps

LEMMA ReadAcquiresStep ==
    ASSUME ReadersInv, NEW r \in Readers, ReadAcquires(r)
    PROVE  ReadersInv'
  <1>1. /\ reader[r].at = "acquire" /\ tokens > 0 /\ tokens' = tokens - 1
        /\ reader' = [reader EXCEPT ![r].at = "handler"]
        /\ UNCHANGED <<registered, entries, cache, accesses, reads>>
    BY DEF ReadAcquires, registryVars
  <1>2. /\ cache \in [Entries -> 0 .. MaxEntries] /\ accesses \in [Entries -> Nat]
        /\ reads \in [Readers -> Nat] /\ reader \in [Readers -> ReaderStates]
    BY DEF ReadersInv, RegistryTypeOK, ReaderStates
  <1>3. /\ reader'[r] \in ReaderStates
        /\ reader'[r].at = "handler" /\ reader'[r].entry = reader[r].entry
        /\ reader' = [reader EXCEPT ![r] = reader'[r]]
    BY <1>1, <1>2 DEF ReaderStates, ReaderPlaces
  <1>4. TokensConserved' /\ tokens' \in 0 .. MaxConcurrentReads
    BY <1>1, <1>3, ReaderAcquires DEF HoldingPlaces
  <1> QED BY <1>1, <1>2, <1>3, <1>4, ReaderFields, ReadKeeps

\* A read that gives up has no token; one whose handler fails gives it back.
LEMMA ReadFailsStep ==
    ASSUME ReadersInv, NEW r \in Readers, ReadGivesUp(r) \/ HandlerFails(r)
    PROVE  ReadersInv'
  <1>1. /\ reader' = [reader EXCEPT ![r] = Reading]
        /\ UNCHANGED <<registered, entries, cache, accesses, reads>>
    BY DEF ReadGivesUp, HandlerFails, registryVars
  <1>2. /\ cache \in [Entries -> 0 .. MaxEntries] /\ accesses \in [Entries -> Nat]
        /\ reads \in [Readers -> Nat] /\ reader \in [Readers -> ReaderStates]
        /\ MaxEntries \in Nat
    BY ConstantsAssumption DEF ReadersInv, RegistryTypeOK, ReaderStates
  <1>3. reader'[r].at = "idle" /\ reader'[r] \in ReaderStates
        /\ reader' = [reader EXCEPT ![r] = reader'[r]]
    BY <1>1, <1>2 DEF Reading, ReaderStates, ReaderPlaces, None
  <1>4. TokensConserved' /\ tokens' \in 0 .. MaxConcurrentReads
    <2>1. CASE ReadGivesUp(r)
      BY <1>1, <1>3, <2>1, ReaderMoves, ReaderFields DEF ReadGivesUp, HoldingPlaces
    <2>2. CASE HandlerFails(r)
      BY <1>1, <1>3, <2>2, ReaderReleases DEF HandlerFails, HoldingPlaces
    <2> QED BY <2>1, <2>2
  <1> QED BY <1>1, <1>2, <1>3, <1>4, ReadKeeps

LEMMA HandlerReturnsStep ==
    ASSUME ReadersInv, NEW r \in Readers, HandlerReturns(r)
    PROVE  ReadersInv'
  <1>1. /\ reader[r].at = "handler"
        /\ reader' = [reader EXCEPT ![r].at = "store",
                                    ![r].content = reader[r].entry]
        /\ UNCHANGED <<registered, entries, cache, accesses, tokens, reads>>
    BY DEF HandlerReturns, registryVars
  <1>2. /\ cache \in [Entries -> 0 .. MaxEntries] /\ accesses \in [Entries -> Nat]
        /\ reads \in [Readers -> Nat] /\ reader \in [Readers -> ReaderStates]
    BY DEF ReadersInv, RegistryTypeOK, ReaderStates
  <1>3. reader[r].entry \in 0 .. MaxEntries
    BY ReaderFields
  <1>4. /\ reader'[r] \in ReaderStates
        /\ reader'[r].at = "store" /\ reader'[r].entry = reader[r].entry
        /\ reader' = [reader EXCEPT ![r] = reader'[r]]
    BY <1>1, <1>2, <1>3 DEF ReaderStates, ReaderPlaces
  <1>5. TokensConserved'
    <2>1. \A q \in Readers : q # r => reader'[q] = reader[q]
      BY <1>1, <1>2, <1>4
    <2> QED BY <1>1, <1>4, <2>1, ReaderMoves DEF HoldingPlaces
  <1> QED BY <1>1, <1>2, <1>4, <1>5, ReaderFields, ReadKeeps

LEMMA ReadStoresStep ==
    ASSUME ReadersInv, NEW r \in Readers, ReadStores(r)
    PROVE  ReadersInv'
  <1>1. /\ reader[r].at = "store"
        /\ cache' = IF registered = None
                    THEN cache
                    ELSE [cache EXCEPT ![registered] = reader[r].content]
        /\ reader' = [reader EXCEPT ![r].at = "accountAndRelease"]
        /\ UNCHANGED <<registered, entries, accesses, tokens, reads>>
    BY DEF ReadStores
  <1>2. /\ cache \in [Entries -> 0 .. MaxEntries] /\ accesses \in [Entries -> Nat]
        /\ reads \in [Readers -> Nat] /\ reader \in [Readers -> ReaderStates]
    BY DEF ReadersInv, RegistryTypeOK, ReaderStates
  <1>3. cache' \in [Entries -> 0 .. MaxEntries]
    BY <1>1, <1>2, ReaderFields
  <1>4. /\ reader'[r] \in ReaderStates
        /\ reader'[r].at = "accountAndRelease" /\ reader'[r].entry = reader[r].entry
        /\ reader' = [reader EXCEPT ![r] = reader'[r]]
    BY <1>1, <1>2 DEF ReaderStates, ReaderPlaces
  <1>5. TokensConserved'
    <2>1. \A q \in Readers : q # r => reader'[q] = reader[q]
      BY <1>1, <1>2, <1>4
    <2> QED BY <1>1, <1>4, <2>1, ReaderMoves DEF HoldingPlaces
  <1> QED BY <1>1, <1>2, <1>3, <1>4, <1>5, ReaderFields, ReadKeeps

LEMMA ReadReturnsStep ==
    ASSUME ReadersInv, NEW r \in Readers, ReadReturns(r)
    PROVE  ReadersInv'
  <1>1. /\ reader[r].at \in {"account", "accountAndRelease"}
        /\ accesses' = IF registered = None
                       THEN accesses
                       ELSE [accesses EXCEPT ![registered] = @ + 1]
        /\ tokens' = IF reader[r].at = "account" THEN tokens ELSE tokens + 1
        /\ reader' = [reader EXCEPT ![r].at = "done"]
        /\ UNCHANGED <<registered, entries, cache, reads>>
    BY DEF ReadReturns
  <1>2. /\ cache \in [Entries -> 0 .. MaxEntries] /\ accesses \in [Entries -> Nat]
        /\ reads \in [Readers -> Nat] /\ reader \in [Readers -> ReaderStates]
        /\ registered \in 0 .. MaxEntries /\ MaxEntries \in Nat
    BY ConstantsAssumption DEF ReadersInv, RegistryTypeOK, ReaderStates
  <1>3. accesses' \in [Entries -> Nat]
    BY <1>1, <1>2 DEF Entries, None
  <1>4. /\ reader'[r] \in ReaderStates /\ reader'[r].at = "done"
        /\ reader' = [reader EXCEPT ![r] = reader'[r]]
    BY <1>1, <1>2 DEF ReaderStates, ReaderPlaces
  <1>5. TokensConserved' /\ tokens' \in 0 .. MaxConcurrentReads
    <2>1. CASE reader[r].at = "account"
      BY <1>1, <1>4, <2>1, ReaderMoves, ReaderFields DEF HoldingPlaces
    <2>2. CASE reader[r].at = "accountAndRelease"
      BY <1>1, <1>4, <2>2, ReaderReleases DEF HoldingPlaces
    <2> QED BY <1>1, <2>1, <2>2
  <1> QED BY <1>1, <1>2, <1>3, <1>4, <1>5, ReadKeeps

\* Register, Unregister and the expiry of a cache leave the readers alone.
LEMMA RegistryChangesStep ==
    ASSUME ReadersInv, \/ Register
                       \/ Unregister
                       \/ \E e \in Entries : CacheExpires(e)
    PROVE  ReadersInv'
  <1>1. UNCHANGED <<tokens, reader, reads, accesses>>
    BY DEF Register, Unregister, CacheExpires, readerVars
  <1>2. /\ registered' \in 0 .. MaxEntries /\ entries' \in 0 .. MaxEntries
        /\ cache' \in [Entries -> 0 .. MaxEntries]
    <2>1. /\ registered \in 0 .. MaxEntries /\ entries \in 0 .. MaxEntries
          /\ cache \in [Entries -> 0 .. MaxEntries]
          /\ MaxEntries \in Nat /\ None \in 0 .. MaxEntries
      BY ConstantsAssumption DEF ReadersInv, RegistryTypeOK, None
    <2>2. CASE Register
      BY <2>1, <2>2 DEF Register
    <2>3. CASE Unregister
      BY <2>1, <2>3 DEF Unregister
    <2>4. CASE \E e \in Entries : CacheExpires(e)
      BY <2>1, <2>4 DEF CacheExpires
    <2> QED BY <2>2, <2>3, <2>4
  <1>3. RegistryTypeOK'
    BY <1>1, <1>2 DEF ReadersInv, RegistryTypeOK
  <1>4. TokensConserved' /\ EntryFound'
    BY <1>1 DEF ReadersInv, TokensConserved, Holding, EntryFound
  <1> QED BY <1>3, <1>4 DEF ReadersInv

LEMMA ReadersApart ==
    ASSUME ReadersInv, UNCHANGED <<registryVars, readerVars>>
    PROVE  ReadersInv'
  BY DEF ReadersInv, RegistryTypeOK, TokensConserved, Holding, EntryFound,
     registryVars, readerVars

(***************************************************************************)
(* The subscribers                                                         *)
(***************************************************************************)
LEMMA SubscribersApart ==
    ASSUME SubscribersInv, UNCHANGED <<notifier, eventVars>>
    PROVE  SubscribersInv'
  BY DEF SubscribersInv, EventsTypeOK, NoSendOnClosedChannel, LeftWhileSending,
     OfferedSoFar, Events, eventVars

\* The events so far, and what a notifier and a channel consist of.
LEMMA EventFields ==
    ASSUME SubscribersInv
    PROVE  /\ Len(notifier) \in Nat /\ Events = 1 .. Len(notifier)
           /\ \A k \in Events : notifier[k] \in Notifiers
           /\ \A s \in Subscribers :
                 /\ subscriber[s] \in Channels(Len(notifier))
                 /\ subscriber[s].buffer \in Seq(Events)
                 /\ subscriber[s].got \in SUBSET Events
                 /\ subscriber[s].missed \in SUBSET Events
                 /\ subscriber[s].since \in 0 .. Len(notifier)
                 /\ subscriber[s].open \in BOOLEAN
           /\ SubscribersLocked <=> \E k \in Events : notifier[k].at = "sending"
  <1>1. notifier \in Seq(Notifiers)
    BY DEF SubscribersInv, EventsTypeOK
  <1>2. Len(notifier) \in Nat /\ Events = 1 .. Len(notifier)
        /\ \A k \in Events : notifier[k] \in Notifiers
    BY <1>1 DEF Events
  <1>3. \A s \in Subscribers : subscriber[s] \in Channels(Len(notifier))
    BY DEF SubscribersInv, EventsTypeOK
  <1>4. ASSUME NEW s \in Subscribers
        PROVE  /\ subscriber[s].buffer \in Seq(Events)
               /\ subscriber[s].got \in SUBSET Events
               /\ subscriber[s].missed \in SUBSET Events
               /\ subscriber[s].since \in 0 .. Len(notifier)
               /\ subscriber[s].open \in BOOLEAN
    BY <1>2, <1>3 DEF Channels
  <1> QED BY <1>2, <1>3, <1>4 DEF SubscribersLocked, Events

\* What one notifier does leaves the others as they are.
LEMMA NotifierMoves ==
    ASSUME SubscribersInv, NEW k \in Events, NEW v \in Notifiers,
           notifier' = [notifier EXCEPT ![k] = v]
    PROVE  /\ notifier' \in Seq(Notifiers) /\ Len(notifier') = Len(notifier)
           /\ \A j \in Events : j # k => notifier'[j] = notifier[j]
           /\ notifier'[k] = v
           /\ Events' = Events
  <1>1. notifier \in Seq(Notifiers) /\ k \in 1 .. Len(notifier)
    BY EventFields DEF SubscribersInv, EventsTypeOK
  <1> QED BY <1>1 DEF Events

\* A change is announced: the new event is not on anyone's list yet.
LEMMA NotifyStep ==
    ASSUME SubscribersInv, NEW event \in {"added", "removed", "error"},
           Notify(event), UNCHANGED eventVars
    PROVE  SubscribersInv'
  <1> DEFINE n == Len(notifier)
             new == [event |-> event, at |-> "started", left |-> {}]
  <1>1. /\ notifier \in Seq(Notifiers) /\ n \in Nat
        /\ notifier' = Append(notifier, new)
        /\ UNCHANGED <<subscriber, subscriptions>>
        /\ new \in Notifiers /\ new.at = "started" /\ new.left = {}
    BY DEF SubscribersInv, EventsTypeOK, Notify, eventVars, Notifiers
  <1> HIDE DEF new
  <1>2. /\ notifier' \in Seq(Notifiers) /\ Len(notifier') = n + 1
        /\ \A k \in 1 .. n : notifier'[k] = notifier[k]
        /\ notifier'[n + 1] = new
    BY <1>1
  <1>3. /\ Events = 1 .. n /\ Events' = 1 .. n + 1
        /\ \A k \in Events' : k \in Events \/ k = n + 1
    BY <1>1, <1>2 DEF Events
  <1>4. EventsTypeOK'
    <2>1. Channels(n) \subseteq Channels(n + 1)
      <3>1. 1 .. n \subseteq 1 .. n + 1 /\ 0 .. n \subseteq 0 .. n + 1
        BY <1>1
      <3>2. \A b \in Seq(1 .. n) : b \in Seq(1 .. n + 1)
        BY <3>1
      <3> QED BY <3>1, <3>2 DEF Channels
    <2> QED BY <1>1, <1>2, <2>1 DEF SubscribersInv, EventsTypeOK
  <1>5. NoSendOnClosedChannel' /\ LeftWhileSending'
    BY <1>1, <1>2, <1>3 DEF SubscribersInv, NoSendOnClosedChannel, LeftWhileSending
  <1>6. OfferedSoFar'
    BY <1>1, <1>2, <1>3 DEF SubscribersInv, OfferedSoFar
  <1> QED BY <1>4, <1>5, <1>6 DEF SubscribersInv

\* Subscribe gives s an empty channel, to which no event is due yet.
LEMMA SubscribeStep ==
    ASSUME SubscribersInv, NEW s \in Subscribers, Subscribe(s)
    PROVE  SubscribersInv'
  <1> DEFINE channel == [NoChannel EXCEPT !.open = TRUE, !.since = Len(notifier)]
  <1>1. /\ subscriptions \in Nat /\ subscriptions > 0 /\ ~SubscribersLocked
        /\ subscriptions' = subscriptions - 1
        /\ subscriber' = [subscriber EXCEPT ![s] = channel]
        /\ UNCHANGED notifier
    BY DEF SubscribersInv, EventsTypeOK, Subscribe
  <1>2. /\ NoChannel \in Channels(Len(notifier))
    BY EventFields DEF NoChannel, Channels
  <1>3. /\ channel.open = TRUE /\ channel.since = Len(notifier)
        /\ channel \in Channels(Len(notifier))
    <2>1. Len(notifier) \in 0 .. Len(notifier)
      BY EventFields
    <2> QED BY <1>2, <2>1 DEF Channels
  <1> HIDE DEF channel
  <1>4. /\ subscriber \in [Subscribers -> Channels(Len(notifier))]
        /\ notifier \in Seq(Notifiers)
    BY DEF SubscribersInv, EventsTypeOK
  <1>5. EventsTypeOK'
    BY <1>1, <1>3, <1>4 DEF EventsTypeOK
  <1>6. \A k \in Events : notifier[k].left = {}
    BY <1>1, EventFields DEF SubscribersInv, LeftWhileSending
  <1>7. NoSendOnClosedChannel' /\ LeftWhileSending'
    BY <1>1, <1>6 DEF NoSendOnClosedChannel, LeftWhileSending, Events
  <1>8. OfferedSoFar'
    <2> SUFFICES ASSUME NEW k \in Events, NEW t \in Subscribers,
                        notifier[k].at # "started", subscriber'[t].open,
                        subscriber'[t].since < k
                 PROVE  t \in notifier[k].left \/ OfferedIn(subscriber'[t], k)
      BY <1>1 DEF OfferedSoFar, Events
    <2>1. t # s
      BY <1>1, <1>3, <1>4, EventFields
    <2> QED BY <1>1, <1>4, <2>1 DEF SubscribersInv, OfferedSoFar
  <1> QED BY <1>5, <1>7, <1>8 DEF SubscribersInv

LEMMA UnsubscribeStep ==
    ASSUME SubscribersInv, NEW s \in Subscribers, Unsubscribe(s)
    PROVE  SubscribersInv'
  <1>1. /\ ~SubscribersLocked /\ UNCHANGED <<notifier, subscriptions>>
        /\ subscriber' = [subscriber EXCEPT ![s] = NoChannel]
    BY DEF Unsubscribe
  <1>2. NoChannel \in Channels(Len(notifier)) /\ ~NoChannel.open
    BY EventFields DEF NoChannel, Channels
  <1>3. /\ subscriber \in [Subscribers -> Channels(Len(notifier))]
        /\ notifier \in Seq(Notifiers) /\ subscriptions \in Nat
    BY DEF SubscribersInv, EventsTypeOK
  <1>4. EventsTypeOK'
    BY <1>1, <1>2, <1>3 DEF EventsTypeOK
  <1>5. \A k \in Events : notifier[k].left = {}
    BY <1>1, EventFields DEF SubscribersInv, LeftWhileSending
  <1>6. NoSendOnClosedChannel' /\ LeftWhileSending'
    BY <1>1, <1>5 DEF NoSendOnClosedChannel, LeftWhileSending, Events
  <1>7. OfferedSoFar'
    BY <1>1, <1>2, <1>3 DEF SubscribersInv, OfferedSoFar, Events
  <1> QED BY <1>4, <1>6, <1>7 DEF SubscribersInv

\* A notifier begins with everyone who is subscribed on its list.
LEMMA NotifierStartsStep ==
    ASSUME SubscribersInv, NEW k \in Events, NotifierStarts(k)
    PROVE  SubscribersInv'
  <1> DEFINE all == {s \in Subscribers : subscriber[s].open}
  <1>1. /\ notifier[k].at = "started" /\ UNCHANGED <<subscriber, subscriptions>>
        /\ notifier' = [notifier EXCEPT ![k].at = "sending", ![k].left = all]
    BY DEF NotifierStarts, eventVars
  <1>2. notifier \in Seq(Notifiers) /\ k \in 1 .. Len(notifier)
    BY EventFields DEF SubscribersInv, EventsTypeOK
  <1>3. /\ notifier' \in Seq(Notifiers) /\ Len(notifier') = Len(notifier)
        /\ \A j \in Events : j # k => notifier'[j] = notifier[j]
        /\ notifier'[k].at = "sending" /\ notifier'[k].left = all
        /\ Events' = Events
    <2> DEFINE v == [notifier[k] EXCEPT !.at = "sending", !.left = all]
    <2>1. v \in Notifiers /\ v.at = "sending" /\ v.left = all
      BY EventFields DEF Notifiers
    <2>2. notifier' = [notifier EXCEPT ![k] = v]
      BY <1>1
    <2> HIDE DEF v
    <2> QED BY <2>1, <2>2, NotifierMoves
  <1>4. EventsTypeOK'
    BY <1>1, <1>3 DEF SubscribersInv, EventsTypeOK
  <1>5. NoSendOnClosedChannel' /\ LeftWhileSending'
    BY <1>1, <1>3 DEF SubscribersInv, NoSendOnClosedChannel, LeftWhileSending
  <1>6. OfferedSoFar'
    BY <1>1, <1>3 DEF SubscribersInv, OfferedSoFar
  <1> QED BY <1>4, <1>5, <1>6 DEF SubscribersInv

\* It offers its event to one of them.
LEMMA NotifierSendsStep ==
    ASSUME SubscribersInv, NEW k \in Events, NEW s \in Subscribers,
           NotifierSends(k, s)
    PROVE  SubscribersInv'
  <1> DEFINE channel == subscriber[s]
  <1>1. /\ notifier[k].at = "sending" /\ s \in notifier[k].left
        /\ notifier' = [notifier EXCEPT ![k].left = @ \ {s}]
        /\ UNCHANGED subscriptions
    BY DEF NotifierSends
  <1>2. /\ notifier \in Seq(Notifiers) /\ k \in 1 .. Len(notifier)
        /\ subscriber \in [Subscribers -> Channels(Len(notifier))]
        /\ Events = 1 .. Len(notifier)
    BY EventFields DEF SubscribersInv, EventsTypeOK
  <1>3. /\ notifier' \in Seq(Notifiers) /\ Len(notifier') = Len(notifier)
        /\ \A j \in Events : j # k => notifier'[j] = notifier[j]
        /\ notifier'[k].at = "sending" /\ notifier'[k].left = notifier[k].left \ {s}
        /\ Events' = Events
    <2> DEFINE v == [notifier[k] EXCEPT !.left = @ \ {s}]
    <2>1. /\ v \in Notifiers /\ v.at = "sending"
          /\ v.left = notifier[k].left \ {s}
      BY <1>1, EventFields DEF Notifiers
    <2>2. notifier' = [notifier EXCEPT ![k] = v]
      BY <1>1
    <2> HIDE DEF v
    <2> QED BY <2>1, <2>2, NotifierMoves
  <1>4. /\ subscriber' \in [Subscribers -> Channels(Len(notifier))]
        /\ \A t \in Subscribers : t # s => subscriber'[t] = subscriber[t]
        /\ subscriber'[s].open = channel.open
        /\ subscriber'[s].since = channel.since
        /\ OfferedIn(subscriber'[s], k)
        /\ \A j \in Events : OfferedIn(channel, j) => OfferedIn(subscriber'[s], j)
    <2>1. CASE Len(channel.buffer) < ChannelSize
      <3>1. subscriber' = [subscriber EXCEPT ![s].buffer = Append(@, k)]
        BY <2>1 DEF NotifierSends
      <3>2. /\ channel.buffer \in Seq(Events) /\ Append(channel.buffer, k) \in Seq(Events)
            /\ Len(Append(channel.buffer, k)) = Len(channel.buffer) + 1
            /\ Len(channel.buffer) \in Nat
            /\ \A i \in 1 .. Len(channel.buffer) :
                   Append(channel.buffer, k)[i] = channel.buffer[i]
            /\ Append(channel.buffer, k)[Len(channel.buffer) + 1] = k
        BY EventFields
      <3>3. /\ subscriber'[s].buffer = Append(channel.buffer, k)
            /\ subscriber'[s].open = channel.open
            /\ subscriber'[s].since = channel.since
            /\ subscriber'[s].got = channel.got
            /\ subscriber'[s].missed = channel.missed
            /\ \A t \in Subscribers : t # s => subscriber'[t] = subscriber[t]
        BY <1>2, <3>1 DEF Channels
      <3>4. subscriber' \in [Subscribers -> Channels(Len(notifier))]
        BY <1>2, <3>1, <3>2 DEF Channels
      <3>5. /\ OfferedIn(subscriber'[s], k)
            /\ \A j \in Events : OfferedIn(channel, j) => OfferedIn(subscriber'[s], j)
        <4> DEFINE b == channel.buffer
        <4>1. /\ DOMAIN b = 1 .. Len(b)
              /\ DOMAIN Append(b, k) = 1 .. Len(b) + 1
          BY <3>2
        <4>2. \A j : (\E i \in DOMAIN b : b[i] = j)
                        => \E i \in DOMAIN Append(b, k) : Append(b, k)[i] = j
          BY <3>2, <4>1
        <4>3. \E i \in DOMAIN Append(b, k) : Append(b, k)[i] = k
          BY <3>2, <4>1
        <4> HIDE DEF b
        <4> QED BY <3>3, <4>2, <4>3 DEF OfferedIn, b
      <3> QED BY <3>3, <3>4, <3>5
    <2>2. CASE ~(Len(channel.buffer) < ChannelSize)
      <3>1. subscriber' = [subscriber EXCEPT ![s].missed = @ \cup {k}]
        BY <2>2 DEF NotifierSends
      <3>2. /\ subscriber'[s].buffer = channel.buffer
            /\ subscriber'[s].open = channel.open
            /\ subscriber'[s].since = channel.since
            /\ subscriber'[s].got = channel.got
            /\ subscriber'[s].missed = channel.missed \cup {k}
            /\ \A t \in Subscribers : t # s => subscriber'[t] = subscriber[t]
        BY <1>2, <3>1 DEF Channels
      <3>3. subscriber' \in [Subscribers -> Channels(Len(notifier))]
        BY <1>2, <3>1 DEF Channels
      <3> QED BY <3>2, <3>3 DEF OfferedIn
    <2> QED BY <2>1, <2>2
  <1>5. EventsTypeOK'
    BY <1>1, <1>3, <1>4 DEF SubscribersInv, EventsTypeOK
  <1>6. NoSendOnClosedChannel' /\ LeftWhileSending'
    <2>1. \A j \in Events : notifier'[j].left \subseteq notifier[j].left
      BY <1>3
    <2>2. \A j \in Events : notifier'[j].left \subseteq Subscribers
      BY <1>3, EventFields DEF Notifiers
    <2>3. \A j \in Events : \A t \in notifier[j].left : subscriber[t].open
      BY DEF SubscribersInv, NoSendOnClosedChannel
    <2>4. \A t \in Subscribers : subscriber'[t].open = subscriber[t].open
      BY <1>4
    <2>5. NoSendOnClosedChannel'
      BY <1>3, <2>1, <2>2, <2>3, <2>4 DEF NoSendOnClosedChannel
    <2> QED BY <1>3, <2>5 DEF SubscribersInv, LeftWhileSending
  <1>7. OfferedSoFar'
    <2> SUFFICES ASSUME NEW j \in Events, NEW t \in Subscribers,
                        notifier'[j].at # "started", subscriber'[t].open,
                        subscriber'[t].since < j
                 PROVE  t \in notifier'[j].left \/ OfferedIn(subscriber'[t], j)
      BY <1>3 DEF OfferedSoFar
    <2>1. notifier[j].at # "started" /\ subscriber[t].open /\ subscriber[t].since < j
      BY <1>1, <1>3, <1>4
    <2>2. t \in notifier[j].left \/ OfferedIn(subscriber[t], j)
      BY <2>1 DEF SubscribersInv, OfferedSoFar
    <2> QED BY <1>3, <1>4, <2>2
  <1> QED BY <1>5, <1>6, <1>7 DEF SubscribersInv

\* It ends with an empty list.
LEMMA NotifierEndsStep ==
    ASSUME SubscribersInv, NEW k \in Events, NotifierEnds(k)
    PROVE  SubscribersInv'
  <1>1. /\ notifier[k].at = "sending" /\ notifier[k].left = {}
        /\ notifier' = [notifier EXCEPT ![k].at = "ended"]
        /\ UNCHANGED <<subscriber, subscriptions>>
    BY DEF NotifierEnds, eventVars
  <1>2. notifier \in Seq(Notifiers) /\ k \in 1 .. Len(notifier)
    BY EventFields DEF SubscribersInv, EventsTypeOK
  <1>3. /\ notifier' \in Seq(Notifiers) /\ Len(notifier') = Len(notifier)
        /\ \A j \in Events : /\ notifier'[j].left = notifier[j].left
                             /\ notifier'[j].at = "sending" => notifier[j].at = "sending"
                             /\ notifier'[j].at # "started" <=> notifier[j].at # "started"
                             /\ j # k => notifier'[j] = notifier[j]
        /\ Events' = Events
    <2> DEFINE v == [notifier[k] EXCEPT !.at = "ended"]
    <2>1. v \in Notifiers /\ v.at = "ended" /\ v.left = notifier[k].left
      BY <1>1, EventFields DEF Notifiers
    <2>2. notifier' = [notifier EXCEPT ![k] = v]
      BY <1>1
    <2> HIDE DEF v
    <2>3. /\ notifier' \in Seq(Notifiers) /\ Len(notifier') = Len(notifier)
          /\ \A j \in Events : j # k => notifier'[j] = notifier[j]
          /\ notifier'[k] = v
          /\ Events' = Events
      BY <2>1, <2>2, NotifierMoves
    <2>4. /\ notifier'[k].left = notifier[k].left
          /\ notifier'[k].at = "ended"
      BY <2>1, <2>3
    <2> QED BY <1>1, <2>3, <2>4
  <1>4. EventsTypeOK'
    BY <1>1, <1>3 DEF SubscribersInv, EventsTypeOK
  <1>5. NoSendOnClosedChannel' /\ LeftWhileSending'
    BY <1>1, <1>3 DEF SubscribersInv, NoSendOnClosedChannel, LeftWhileSending
  <1>6. OfferedSoFar'
    BY <1>1, <1>3 DEF SubscribersInv, OfferedSoFar
  <1> QED BY <1>4, <1>5, <1>6 DEF SubscribersInv

\* The rest of a queue.
LEMMA QueueTail ==
    ASSUME NEW T, NEW q \in Seq(T), q # <<>>
    PROVE  /\ Tail(q) \in Seq(T) /\ Head(q) \in T /\ Len(q) \in Nat
           /\ Head(q) = q[1] /\ Len(Tail(q)) = Len(q) - 1
           /\ \A i \in 1 .. Len(q) : i # 1 => /\ i - 1 \in 1 .. Len(Tail(q))
                                             /\ Tail(q)[i - 1] = q[i]
  <1>1. /\ Len(q) \in Nat /\ Len(q) >= 1 /\ Head(q) = q[1] /\ Tail(q) \in Seq(T)
        /\ Len(Tail(q)) = Len(q) - 1 /\ Head(q) \in T
    OBVIOUS
  <1>2. \A j \in 1 .. Len(q) - 1 : Tail(q)[j] = q[j + 1]
    BY <1>1
  <1>3. ASSUME NEW i \in 1 .. Len(q), i # 1
        PROVE  i - 1 \in 1 .. Len(q) - 1 /\ (i - 1) + 1 = i
    BY <1>1, <1>3
  <1> QED BY <1>1, <1>2, <1>3

\* A subscriber takes what has been offered to it.
LEMMA ReceivesStep ==
    ASSUME SubscribersInv, NEW s \in Subscribers, Receives(s)
    PROVE  SubscribersInv'
  <1> DEFINE channel == subscriber[s]
             B == channel.buffer
  <1>1. /\ B # <<>> /\ UNCHANGED <<notifier, subscriptions>>
        /\ subscriber' = [subscriber EXCEPT ![s].buffer = Tail(@),
                                            ![s].got = @ \cup {Head(B)}]
    BY DEF Receives
  <1>2. /\ subscriber \in [Subscribers -> Channels(Len(notifier))]
        /\ Events = 1 .. Len(notifier)
        /\ B \in Seq(Events)
    BY EventFields DEF SubscribersInv, EventsTypeOK
  <1>3. /\ Tail(B) \in Seq(Events) /\ Head(B) \in Events /\ Len(B) \in Nat
        /\ Head(B) = B[1] /\ Len(Tail(B)) = Len(B) - 1
        /\ \A i \in 1 .. Len(B) : i # 1 => i - 1 \in 1 .. Len(Tail(B))
                                           /\ Tail(B)[i - 1] = B[i]
    BY <1>1, <1>2, QueueTail
  <1>4. /\ subscriber'[s].buffer = Tail(B)
        /\ subscriber'[s].got = channel.got \cup {Head(B)}
        /\ subscriber'[s].missed = channel.missed
        /\ subscriber'[s].open = channel.open
        /\ subscriber'[s].since = channel.since
        /\ \A t \in Subscribers : t # s => subscriber'[t] = subscriber[t]
    BY <1>1, <1>2 DEF Channels
  <1>5. subscriber' \in [Subscribers -> Channels(Len(notifier))]
    <2>1. /\ Tail(B) \in Seq(1 .. Len(notifier))
          /\ channel.got \cup {Head(B)} \in SUBSET (1 .. Len(notifier))
      BY <1>2, <1>3, EventFields
    <2> DEFINE v == [channel EXCEPT !.buffer = Tail(B), !.got = @ \cup {Head(B)}]
    <2>2. v \in Channels(Len(notifier))
      BY <1>2, <2>1 DEF Channels
    <2>3. subscriber' = [subscriber EXCEPT ![s] = v]
      BY <1>1
    <2> HIDE DEF v
    <2> QED BY <1>2, <2>2, <2>3
  <1>6. EventsTypeOK'
    BY <1>1, <1>5 DEF SubscribersInv, EventsTypeOK
  <1>7. NoSendOnClosedChannel' /\ LeftWhileSending'
    <2>1. \A t \in Subscribers : subscriber'[t].open = subscriber[t].open
      BY <1>4
    <2>2. \A j \in Events : notifier[j].left \subseteq Subscribers
      BY EventFields DEF Notifiers
    <2> QED BY <1>1, <2>1, <2>2 DEF SubscribersInv, NoSendOnClosedChannel,
               LeftWhileSending, Events
  <1>8. ASSUME NEW j \in Events, OfferedIn(channel, j)
        PROVE  OfferedIn(subscriber'[s], j)
    <2>1. CASE \E i \in DOMAIN B : B[i] = j
      <3>1. PICK i \in 1 .. Len(B) : B[i] = j
        BY <1>2, <2>1
      <3>2. CASE i = 1
        BY <1>3, <1>4, <3>1, <3>2 DEF OfferedIn
      <3>3. CASE i # 1
        <4>1. i - 1 \in DOMAIN Tail(B) /\ Tail(B)[i - 1] = j
          BY <1>3, <3>1, <3>3
        <4> QED BY <1>4, <4>1 DEF OfferedIn
      <3> QED BY <3>2, <3>3
    <2>2. CASE j \in channel.got \cup channel.missed
      BY <1>4, <2>2 DEF OfferedIn
    <2> QED BY <1>8, <2>1, <2>2 DEF OfferedIn
  <1>9. OfferedSoFar'
    <2> SUFFICES ASSUME NEW j \in Events, NEW t \in Subscribers,
                        notifier[j].at # "started", subscriber'[t].open,
                        subscriber'[t].since < j
                 PROVE  t \in notifier[j].left \/ OfferedIn(subscriber'[t], j)
      BY <1>1 DEF OfferedSoFar, Events
    <2>1. subscriber[t].open /\ subscriber[t].since < j
      BY <1>4
    <2>2. t \in notifier[j].left \/ OfferedIn(subscriber[t], j)
      BY <2>1 DEF SubscribersInv, OfferedSoFar
    <2> QED BY <1>4, <1>8, <2>2
  <1> QED BY <1>6, <1>7, <1>9 DEF SubscribersInv

(***************************************************************************)
(* The theorems                                                            *)
(***************************************************************************)
LEMMA InitHolds == Init => IInv
  <1> SUFFICES ASSUME Init PROVE IInv
    OBVIOUS
  <1>1. PICK w \in Workloads : /\ reads = [r \in Readers |-> w.reads]
                               /\ subscriptions = w.subscriptions
    BY DEF Init
  <1>2. w.reads \in Nat /\ w.subscriptions \in Nat
    BY ConstantsAssumption
  <1>3. MaxEntries \in Nat /\ MaxConcurrentReads \in Nat
    BY ConstantsAssumption
  <1>4. /\ Reading \in ReaderStates /\ Reading.at = "idle"
        /\ NoChannel \in Channels(0) /\ ~NoChannel.open
    BY <1>3 DEF Reading, ReaderStates, ReaderPlaces, None, NoChannel, Channels
  <1>5. /\ reader \in [Readers -> ReaderStates]
        /\ \A r \in Readers : reader[r] = Reading
    BY <1>4 DEF Init
  <1>6. RegistryTypeOK
    BY <1>1, <1>2, <1>3, <1>5 DEF Init, RegistryTypeOK, ReaderStates, None
  <1>7. TokensConserved
    <2>1. Holding = {}
      BY <1>4, <1>5 DEF Holding
    <2>2. Cardinality(Holding) = 0
      BY <2>1, FS_EmptySet
    <2> QED BY <1>3, <2>2 DEF Init, TokensConserved
  <1>8. EntryFound
    BY <1>4, <1>5 DEF EntryFound
  <1>9. /\ notifier = <<>> /\ Len(notifier) = 0 /\ Events = {}
        /\ notifier \in Seq(Notifiers)
    BY DEF Init, Events
  <1>10. EventsTypeOK
    BY <1>1, <1>2, <1>4, <1>9 DEF Init, EventsTypeOK
  <1>11. NoSendOnClosedChannel /\ LeftWhileSending /\ OfferedSoFar
    BY <1>9 DEF NoSendOnClosedChannel, LeftWhileSending, OfferedSoFar
  <1> QED BY <1>6, <1>7, <1>8, <1>10, <1>11 DEF IInv, ReadersInv, SubscribersInv

\* Every step keeps both parts of the invariant.
LEMMA NextHolds ==
    ASSUME IInv, [Next]_vars
    PROVE  IInv'
  <1>0. ReadersInv /\ SubscribersInv
    BY DEF IInv
  <1>1. CASE Register \/ Unregister
    <2>1. SubscribersInv'
      BY <1>0, <1>1, NotifyStep DEF Register, Unregister
    <2> QED BY <1>0, <1>1, <2>1, RegistryChangesStep DEF IInv
  <1>2. ASSUME NEW r \in Readers, ReadLooksUp(r) \/ Read(r) \/ ReadGivesUp(r)
        PROVE  IInv'
    <2>1. ReadersInv'
      BY <1>0, <1>2, ReadLooksUpStep, ReadHitsCacheStep, ReadMissesCacheStep,
         ReadAcquiresStep, ReadFailsStep, HandlerReturnsStep, ReadStoresStep,
         ReadReturnsStep DEF Read
    <2>2. CASE HandlerFails(r)
      <3>1. Notify("error") /\ UNCHANGED eventVars
        BY <2>2 DEF HandlerFails
      <3> QED BY <1>0, <2>1, <3>1, NotifyStep DEF IInv
    <2>3. CASE ~HandlerFails(r)
      <3>1. UNCHANGED <<notifier, eventVars>>
        BY <1>2, <2>3 DEF Read, ReadLooksUp, ReadHitsCache, ReadMissesCache,
           ReadAcquires, ReadGivesUp, HandlerReturns, ReadStores, ReadReturns
      <3> QED BY <1>0, <2>1, <3>1, SubscribersApart DEF IInv
    <2> QED BY <2>2, <2>3
  <1>3. CASE \E e \in Entries : CacheExpires(e)
    <2>1. UNCHANGED <<notifier, eventVars>>
      BY <1>3 DEF CacheExpires
    <2> QED BY <1>0, <1>3, <2>1, RegistryChangesStep, SubscribersApart DEF IInv
  <1>4. ASSUME NEW k \in DOMAIN notifier, Notifier(k)
        PROVE  IInv'
    <2>1. UNCHANGED <<registryVars, readerVars>>
      BY <1>4 DEF Notifier, NotifierStarts, NotifierSends, NotifierEnds
    <2>2. SubscribersInv'
      BY <1>0, <1>4, NotifierStartsStep, NotifierSendsStep, NotifierEndsStep
         DEF Notifier, Events
    <2> QED BY <1>0, <2>1, <2>2, ReadersApart DEF IInv
  <1>5. ASSUME NEW s \in Subscribers, Subscribe(s) \/ Unsubscribe(s) \/ Receives(s)
        PROVE  IInv'
    <2>1. UNCHANGED <<registryVars, readerVars>>
      BY <1>5 DEF Subscribe, Unsubscribe, Receives
    <2>2. SubscribersInv'
      BY <1>0, <1>5, SubscribeStep, UnsubscribeStep, ReceivesStep
    <2> QED BY <1>0, <2>1, <2>2, ReadersApart DEF IInv
  <1>6. CASE UNCHANGED vars
    BY <1>0, <1>6, ReadersApart, SubscribersApart DEF IInv, vars
  <1> QED BY <1>1, <1>2, <1>3, <1>4, <1>5, <1>6 DEF Next

LEMMA Invariance == Spec => []IInv
  <1>1. IInv /\ [Next]_vars => IInv'
    BY NextHolds
  <1> QED BY <1>1, InitHolds, PTL DEF Spec

\* Reads (registry.go) neither lose nor make tokens of workerPool, however they
\* end, and notifySubscribers finds no channel that Unsubscribe has closed.
THEOREM PoolAndChannelsSound == Spec => []Inv
  <1>1. IInv => Inv
    BY TypesTogether DEF IInv, ReadersInv, SubscribersInv, Inv
  <1> QED BY <1>1, Invariance, PTL

\* An event that has been announced was offered to all who were subscribed before
\* the change: notifySubscribers (registry.go) may skip a full channel, and no
\* other.
THEOREM EveryEventOffered == Spec => []EventsOffered
  <1>1. IInv => EventsOffered
    <2> SUFFICES ASSUME IInv, NEW k \in Events, NEW s \in Subscribers,
                        notifier[k].at = "ended", subscriber[s].open,
                        subscriber[s].since < k
                 PROVE  OfferedIn(subscriber[s], k)
      BY DEF EventsOffered, OfferedIn
    <2>1. notifier[k].left = {}
      BY DEF IInv, SubscribersInv, LeftWhileSending
    <2> QED BY <2>1 DEF IInv, SubscribersInv, OfferedSoFar
  <1> QED BY <1>1, Invariance, PTL

\* Read (registry.go) stores and counts only in the entry that is registered at
\* that moment, whichever entry it has found before.
THEOREM RemovedEntriesStayFrozen == Spec => RemovedEntriesFrozen
  <1>1. ASSUME IInv, [Next]_vars, NEW e \in Entries,
               \/ accesses'[e] # accesses[e]
               \/ cache'[e] \notin {cache[e], None}
        PROVE  e = registered
    <2>1. /\ accesses \in [Entries -> Nat]
          /\ cache \in [Entries -> 0 .. MaxEntries]
      BY <1>1 DEF IInv, ReadersInv, RegistryTypeOK
    <2>2. CASE \E r \in Readers : ReadStores(r)
      BY <1>1, <2>1, <2>2 DEF ReadStores
    <2>3. CASE \E r \in Readers : ReadReturns(r)
      BY <1>1, <2>1, <2>3 DEF ReadReturns
    <2>4. CASE \E f \in Entries : CacheExpires(f)
      BY <1>1, <2>1, <2>4 DEF CacheExpires
    <2>5. CASE UNCHANGED <<cache, accesses>>
      BY <1>1, <2>5
    <2>6. CASE UNCHANGED vars
      BY <1>1, <2>6 DEF vars, registryVars
    <2>7. \/ UNCHANGED <<cache, accesses>>
          \/ \E r \in Readers : ReadStores(r) \/ ReadReturns(r)
          \/ \E f \in Entries : CacheExpires(f)
          \/ UNCHANGED vars
      BY <1>1 DEF Next, Register, Unregister, Read, ReadLooksUp, ReadHitsCache,
         ReadMissesCache, ReadAcquires, ReadGivesUp, HandlerReturns, HandlerFails,
         Notifier, NotifierStarts, NotifierSends, NotifierEnds, Subscribe,
         Unsubscribe, Receives, registryVars
    <2> QED BY <2>2, <2>3, <2>4, <2>5, <2>6, <2>7
  <1>2. IInv /\ [Next]_vars =>
            [\A e \in Entries : accesses'[e] # accesses[e]
                                \/ cache'[e] \notin {cache[e], None}
                                => e = registered]_vars
    BY <1>1
  <1> QED BY <1>2, Invariance, PTL DEF Spec, RemovedEntriesFrozen

====
