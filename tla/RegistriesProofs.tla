-------------------------- MODULE RegistriesProofs --------------------------
(***************************************************************************)
(* Theorems about Registries, for any tools, callers and registrars, any   *)
(* users of prompts and templates and any size of the worker pools.        *)
(*                                                                         *)
(* Tools: StatsAgree speaks of the moments when nobody holds a lock.       *)
(* Behind it is who may make the two counts of a tool differ: a registrar  *)
(* with mu, which has reset the entry and not yet the statistics, and a    *)
(* caller with statsMu, which has counted in the statistics and not yet in *)
(* the entry.                                                              *)
(*                                                                         *)
(* Prompts: PromptsInv is inductive, but for an execution knowing its      *)
(* entry.                                                                  *)
(*                                                                         *)
(* Templates: that only callbacks lock goroutines out follows from what    *)
(* each lock is at any moment: what the goroutines, by the places they are *)
(* at, hold of it and wait for.                                            *)
(***************************************************************************)
EXTENDS Registries, TLAPS, FiniteSetTheorems

(***************************************************************************)
(* Tools                                                                   *)
(***************************************************************************)

\* The locks are held exactly by those who wait for the second one.
LocksHeld ==
    /\ \A g \in Registrars : registrar[g].at = "statsLock" <=> mu = g
    /\ \A c \in Callers : caller[c].at = "entryLock" <=> statsMu = c

\* n is the tool of the registrar that holds mu, of the caller with statsMu.
BeingRegistered(n) == \E g \in Registrars : mu = g /\ registrar[g].tool = n
BeingCounted(n) == \E c \in Callers : statsMu = c /\ caller[c].tool = n

\* Whose entry and statistics may differ, and that the registrar in between has
\* left an entry without executions.
Agreement ==
    /\ measured \subseteq tools
    /\ \A n \in tools : n \in measured \/ BeingRegistered(n)
    /\ \A n \in Names : \/ entryCount[n] = stats[n].runs
                        \/ BeingRegistered(n)
                        \/ BeingCounted(n)
    /\ \A n \in Names : BeingRegistered(n) => n \in tools /\ entryCount[n] = 0

\* The inductive invariant.
ToolsIInv == TypeOK /\ TokensConserved /\ LocksHeld /\ Agreement

(***************************************************************************)
(* The pool                                                                *)
(***************************************************************************)

\* The executions that hold a token can be counted.
LEMMA HoldingFinite == IsFiniteSet(Holding) /\ Cardinality(Holding) \in Nat
  <1>1. Holding \in SUBSET Callers
    BY DEF Holding
  <1> QED BY <1>1, FS_Subset, FS_CardinalityType, ConstantsAssumption

\* A caller moves on within an execution.
LEMMA CallerMoves ==
    ASSUME ToolsIInv, NEW c \in Callers, UNCHANGED tokens,
           \A d \in Callers : d # c => caller'[d] = caller[d],
           caller'[c].at \in {"handling", "statsLock", "entryLock", "release"}
               <=> caller[c].at \in {"handling", "statsLock", "entryLock", "release"}
    PROVE  TokensConserved'
  <1>1. Holding' = Holding
    BY DEF Holding
  <1> QED BY <1>1 DEF ToolsIInv, TokensConserved

(***************************************************************************)
(* Register                                                                *)
(***************************************************************************)

\* A call that waits for mu holds nothing yet.
LEMMA RegisterCalledStep ==
    ASSUME ToolsIInv, NEW g \in Registrars, NEW n \in Names, RegisterCalled(g, n)
    PROVE  ToolsIInv'
  <1>1. /\ UNCHANGED <<tools, entryCount, measured, stats, mu, statsMu, tokens,
                       caller, executions>>
        /\ registrar[g].at = "idle"
        /\ registrar' = [registrar EXCEPT ![g] = [at |-> "lock", tool |-> n]]
        /\ registrations' = [registrations EXCEPT ![g] = @ + 1]
        /\ registrations[g] + 1 \in 0 .. MaxRegistrations
    BY ConstantsAssumption DEF ToolsIInv, TypeOK, RegisterCalled
  <1>2. TypeOK'
    BY <1>1 DEF ToolsIInv, TypeOK
  <1>3. mu # g
    BY <1>1 DEF ToolsIInv, LocksHeld
  <1>4. LocksHeld' /\ \A m : (BeingRegistered(m)' <=> BeingRegistered(m))
                             /\ (BeingCounted(m)' <=> BeingCounted(m))
    BY <1>1, <1>3 DEF ToolsIInv, TypeOK, LocksHeld, BeingRegistered, BeingCounted
  <1>5. Agreement'
    BY <1>1, <1>4 DEF ToolsIInv, Agreement
  <1>6. TokensConserved'
    BY <1>1 DEF ToolsIInv, TokensConserved, Holding
  <1> QED BY <1>2, <1>4, <1>5, <1>6 DEF ToolsIInv

\* The entry is new; its statistics follow while mu is held.
LEMMA RegisterStoresStep ==
    ASSUME ToolsIInv, NEW g \in Registrars, RegisterStores(g)
    PROVE  ToolsIInv'
  <1> DEFINE n == registrar[g].tool
  <1>1. /\ mu = Nobody /\ mu' = g /\ n \in Names
        /\ tools' = tools \cup {n}
        /\ entryCount' = [entryCount EXCEPT ![n] = 0]
        /\ registrar' = [registrar EXCEPT ![g].at = "statsLock"]
        /\ UNCHANGED <<measured, stats, statsMu, tokens, caller, executions,
                       registrations>>
    BY DEF ToolsIInv, TypeOK, RegisterStores
  <1>2. /\ registrar'[g] = [registrar[g] EXCEPT !.at = "statsLock"]
        /\ \A h \in Registrars : h # g => registrar'[h] = registrar[h]
        /\ registrar' \in [Registrars -> [at : {"idle", "lock", "statsLock"}, tool : Names]]
    BY <1>1 DEF ToolsIInv, TypeOK
  <1>3. TypeOK'
    BY <1>1, <1>2 DEF ToolsIInv, TypeOK
  <1>4. registrar'[g].at = "statsLock" /\ registrar'[g].tool = n
    BY <1>2 DEF ToolsIInv, TypeOK
  <1>5. LocksHeld'
    BY <1>1, <1>2, <1>4, ConstantsAssumption DEF ToolsIInv, LocksHeld
  <1>6. \A m : /\ ~BeingRegistered(m)
               /\ BeingRegistered(m)' <=> m = n
               /\ BeingCounted(m)' <=> BeingCounted(m)
    BY <1>1, <1>4, ConstantsAssumption DEF BeingRegistered, BeingCounted
  <1>7. Agreement'
    BY <1>1, <1>6 DEF ToolsIInv, TypeOK, Agreement
  <1>8. TokensConserved'
    BY <1>1 DEF ToolsIInv, TokensConserved, Holding
  <1> QED BY <1>3, <1>5, <1>7, <1>8 DEF ToolsIInv

\* Entry and statistics of the tool are both at zero when mu is released, and
\* nobody is counting.
LEMMA RegisterResetsStatsStep ==
    ASSUME ToolsIInv, NEW g \in Registrars, RegisterResetsStats(g)
    PROVE  ToolsIInv'
  <1> DEFINE n == registrar[g].tool
  <1>1. /\ mu = g /\ mu' = Nobody /\ statsMu = Nobody /\ n \in Names
        /\ measured' = measured \cup {n}
        /\ stats' = [stats EXCEPT ![n] = NoCounts]
        /\ registrar' = [registrar EXCEPT ![g].at = "idle"]
        /\ UNCHANGED <<tools, entryCount, statsMu, tokens, caller, executions,
                       registrations>>
    BY DEF ToolsIInv, TypeOK, LocksHeld, RegisterResetsStats
  <1>2. /\ registrar'[g] = [registrar[g] EXCEPT !.at = "idle"]
        /\ \A h \in Registrars : h # g => registrar'[h] = registrar[h]
        /\ registrar' \in [Registrars -> [at : {"idle", "lock", "statsLock"}, tool : Names]]
    BY <1>1 DEF ToolsIInv, TypeOK
  <1>3. stats' \in [Names -> [runs : Nat, errors : Nat]]
    BY <1>1 DEF ToolsIInv, TypeOK, NoCounts
  <1>4. TypeOK'
    BY <1>1, <1>2, <1>3 DEF ToolsIInv, TypeOK
  <1>5. registrar'[g].at = "idle"
    BY <1>2 DEF ToolsIInv, TypeOK
  <1>6. LocksHeld'
    BY <1>1, <1>2, <1>5, ConstantsAssumption DEF ToolsIInv, LocksHeld
  <1>7. \A m : /\ BeingRegistered(m) <=> m = n
               /\ ~BeingRegistered(m)' /\ ~BeingCounted(m) /\ ~BeingCounted(m)'
    BY <1>1, ConstantsAssumption DEF BeingRegistered, BeingCounted
  <1>8. n \in tools /\ entryCount[n] = 0 /\ stats'[n].runs = 0
    <2>1. n \in tools
      BY <1>7, <1>1 DEF ToolsIInv, Agreement, TypeOK
    <2> QED BY <1>1, <1>7, <2>1 DEF ToolsIInv, Agreement, TypeOK, NoCounts
  <1>9. Agreement'
    BY <1>1, <1>7, <1>8 DEF ToolsIInv, TypeOK, Agreement
  <1>10. TokensConserved'
    BY <1>1 DEF ToolsIInv, TokensConserved, Holding
  <1> QED BY <1>4, <1>6, <1>9, <1>10 DEF ToolsIInv

(***************************************************************************)
(* Execute                                                                 *)
(***************************************************************************)

\* A step of a caller outside of updateExecutionStats changes neither the locks
\* nor the counts.
LEMMA CountsUntouched ==
    ASSUME ToolsIInv, NEW c \in Callers,
           UNCHANGED <<tools, entryCount, measured, stats, mu, statsMu, registrar>>,
           \A d \in Callers : d # c => caller'[d] = caller[d],
           caller[c].at # "entryLock", caller'[c].at # "entryLock"
    PROVE  LocksHeld' /\ Agreement'
  <1>1. statsMu # c
    BY DEF ToolsIInv, LocksHeld
  <1>2. LocksHeld'
    BY <1>1 DEF ToolsIInv, LocksHeld
  <1>3. \A m : /\ BeingRegistered(m)' <=> BeingRegistered(m)
               /\ BeingCounted(m)' <=> BeingCounted(m)
    BY <1>1 DEF BeingRegistered, BeingCounted
  <1> QED BY <1>2, <1>3 DEF ToolsIInv, Agreement

\* What caller[c] may be.
CallerType == [at : CallerPlaces, tool : Names, failed : BOOLEAN]

LEMMA CallerTyped ==
    ASSUME ToolsIInv, NEW c \in Callers
    PROVE  caller[c] \in CallerType
  BY DEF ToolsIInv, TypeOK, CallerType

\* Caller c is assigned something else.
LEMMA CallerAssigned ==
    ASSUME ToolsIInv, NEW c \in Callers, NEW v \in CallerType,
           caller' = [caller EXCEPT ![c] = v]
    PROVE  /\ caller'[c] = v
           /\ \A d \in Callers : d # c => caller'[d] = caller[d]
           /\ caller' \in [Callers -> CallerType]
  <1>1. caller \in [Callers -> CallerType]
    BY DEF ToolsIInv, TypeOK, CallerType
  <1> QED BY <1>1

\* A caller that waits for a token holds none.
LEMMA ExecuteLooksUpStep ==
    ASSUME ToolsIInv, NEW c \in Callers, NEW n \in Names, ExecuteLooksUp(c, n)
    PROVE  ToolsIInv'
  <1>1. /\ UNCHANGED <<tools, entryCount, measured, stats, mu, statsMu, tokens,
                       registrar, registrations>>
        /\ caller[c].at = "idle"
        /\ executions' = [executions EXCEPT ![c] = @ + 1]
        /\ executions[c] + 1 \in 0 .. MaxExecutions
    BY ConstantsAssumption DEF ToolsIInv, TypeOK, ExecuteLooksUp
  <1>2. executions' \in [Callers -> 0 .. MaxExecutions]
    BY <1>1 DEF ToolsIInv, TypeOK
  <1>3. CASE n \in tools
    <2> DEFINE v == [caller[c] EXCEPT !.at = "acquire", !.tool = n]
    <2>1. v \in CallerType /\ v.at = "acquire"
      BY CallerTyped DEF CallerType, CallerPlaces
    <2>2. caller' = [caller EXCEPT ![c] = v]
      BY <1>3 DEF ExecuteLooksUp
    <2> HIDE DEF v
    <2>3. /\ caller'[c].at = "acquire"
          /\ \A d \in Callers : d # c => caller'[d] = caller[d]
          /\ caller' \in [Callers -> CallerType]
      BY <2>1, <2>2, CallerAssigned
    <2>4. TypeOK'
      BY <1>1, <1>2, <2>3 DEF ToolsIInv, TypeOK, CallerType
    <2>5. LocksHeld' /\ Agreement'
      BY <1>1, <2>3, CountsUntouched
    <2>6. TokensConserved'
      BY <1>1, <2>3, CallerMoves
    <2> QED BY <2>4, <2>5, <2>6 DEF ToolsIInv
  <1>4. CASE n \notin tools
    <2>1. UNCHANGED caller
      BY <1>4 DEF ExecuteLooksUp
    <2>2. TypeOK'
      BY <1>1, <1>2, <2>1 DEF ToolsIInv, TypeOK
    <2>3. LocksHeld' /\ Agreement'
      BY <1>1, <2>1, CountsUntouched
    <2>4. TokensConserved'
      BY <1>1, <2>1, CallerMoves
    <2> QED BY <2>2, <2>3, <2>4 DEF ToolsIInv
  <1> QED BY <1>3, <1>4

\* What an assignment to the place of a caller does.
LEMMA PlaceAssigned ==
    ASSUME ToolsIInv, NEW c \in Callers, NEW place \in CallerPlaces,
           caller' = [caller EXCEPT ![c].at = place]
    PROVE  /\ caller'[c].at = place
           /\ caller'[c].tool = caller[c].tool
           /\ \A d \in Callers : d # c => caller'[d] = caller[d]
           /\ caller' \in [Callers ->
                  [at : CallerPlaces, tool : Names, failed : BOOLEAN]]
  <1> DEFINE v == [caller[c] EXCEPT !.at = place]
  <1>1. v \in CallerType /\ v.at = place /\ v.tool = caller[c].tool
    BY CallerTyped DEF CallerType
  <1>2. caller' = [caller EXCEPT ![c] = v]
    OBVIOUS
  <1> HIDE DEF v
  <1> QED BY <1>1, <1>2, CallerAssigned DEF CallerType

\* A token goes from the pool to the caller.
LEMMA ExecuteAcquiresStep ==
    ASSUME ToolsIInv, NEW c \in Callers, ExecuteAcquires(c)
    PROVE  ToolsIInv'
  <1>1. /\ UNCHANGED <<tools, entryCount, measured, stats, mu, statsMu,
                       executions, registrar, registrations>>
        /\ caller[c].at = "acquire"
        /\ caller' = [caller EXCEPT ![c].at = "handling"]
        /\ tokens' = tokens - 1
        /\ tokens \in 0 .. MaxConcurrentExecutions
        /\ tokens > 0
    BY DEF ToolsIInv, TypeOK, ExecuteAcquires
  <1>2. /\ caller'[c].at = "handling"
        /\ \A d \in Callers : d # c => caller'[d] = caller[d]
        /\ caller' \in [Callers ->
               [at : CallerPlaces, tool : Names, failed : BOOLEAN]]
    BY <1>1, PlaceAssigned DEF CallerPlaces
  <1>3. tokens' \in 0 .. MaxConcurrentExecutions
    BY <1>1, ConstantsAssumption
  <1>4. TypeOK'
    BY <1>1, <1>2, <1>3 DEF ToolsIInv, TypeOK
  <1>5. LocksHeld' /\ Agreement'
    BY <1>1, <1>2, CountsUntouched
  <1>6. Holding' = Holding \cup {c} /\ c \notin Holding
    BY <1>1, <1>2 DEF Holding
  <1>7. Cardinality(Holding') = Cardinality(Holding) + 1
    BY <1>6, HoldingFinite, FS_AddElement
  <1>8. TokensConserved'
    BY <1>1, <1>7, HoldingFinite, ConstantsAssumption DEF ToolsIInv, TokensConserved
  <1> QED BY <1>4, <1>5, <1>8 DEF ToolsIInv

\* Giving up before there is a token costs none.
LEMMA ExecuteGivesUpStep ==
    ASSUME ToolsIInv, NEW c \in Callers, ExecuteGivesUp(c)
    PROVE  ToolsIInv'
  <1>1. /\ UNCHANGED <<tools, entryCount, measured, stats, mu, statsMu, tokens,
                       executions, registrar, registrations>>
        /\ caller[c].at = "acquire"
        /\ caller' = [caller EXCEPT ![c].at = "idle"]
    BY DEF ExecuteGivesUp
  <1>2. /\ caller'[c].at = "idle"
        /\ \A d \in Callers : d # c => caller'[d] = caller[d]
        /\ caller' \in [Callers ->
               [at : CallerPlaces, tool : Names, failed : BOOLEAN]]
    BY <1>1, PlaceAssigned DEF CallerPlaces
  <1>3. TypeOK'
    BY <1>1, <1>2 DEF ToolsIInv, TypeOK
  <1>4. LocksHeld' /\ Agreement'
    BY <1>1, <1>2, CountsUntouched
  <1>5. TokensConserved'
    BY <1>1, <1>2, CallerMoves
  <1> QED BY <1>3, <1>4, <1>5 DEF ToolsIInv

\* The result is known; the token is still held.
LEMMA HandlerReturnsStep ==
    ASSUME ToolsIInv, NEW c \in Callers, NEW failed \in BOOLEAN,
           HandlerReturns(c, failed)
    PROVE  ToolsIInv'
  <1>1. /\ UNCHANGED <<tools, entryCount, measured, stats, mu, statsMu, tokens,
                       executions, registrar, registrations>>
        /\ caller[c].at = "handling"
        /\ caller' = [caller EXCEPT ![c].at = "statsLock", ![c].failed = failed]
    BY DEF HandlerReturns
  <1>2. /\ \A d \in Callers : d # c => caller'[d] = caller[d]
        /\ caller' \in [Callers -> CallerType]
        /\ caller'[c].at = "statsLock"
    <2> DEFINE v == [caller[c] EXCEPT !.at = "statsLock", !.failed = failed]
    <2>1. v \in CallerType /\ v.at = "statsLock"
      BY CallerTyped DEF CallerType, CallerPlaces
    <2>2. caller' = [caller EXCEPT ![c] = v]
      BY <1>1
    <2> HIDE DEF v
    <2> QED BY <2>1, <2>2, CallerAssigned
  <1>3. TypeOK'
    BY <1>1, <1>2 DEF ToolsIInv, TypeOK, CallerType
  <1>4. LocksHeld' /\ Agreement'
    BY <1>1, <1>2, CountsUntouched
  <1>5. TokensConserved'
    BY <1>1, <1>2, CallerMoves
  <1> QED BY <1>3, <1>4, <1>5 DEF ToolsIInv

\* The execution is counted in the statistics; until it is in the entry, too,
\* its caller has statsMu.
LEMMA UpdateCountsStep ==
    ASSUME ToolsIInv, NEW c \in Callers, UpdateCounts(c)
    PROVE  ToolsIInv'
  <1> DEFINE n == caller[c].tool
  <1>1. /\ UNCHANGED <<tools, entryCount, measured, mu, tokens, executions,
                       registrar, registrations>>
        /\ caller[c].at = "statsLock" /\ n \in Names
        /\ statsMu = Nobody /\ statsMu' = c
        /\ caller' = [caller EXCEPT ![c].at = "entryLock"]
    BY DEF ToolsIInv, TypeOK, UpdateCounts
  <1>2. /\ \A m \in Names : m # n => stats'[m] = stats[m]
        /\ stats' \in [Names -> [runs : Nat, errors : Nat]]
    <2>1. stats[n].runs + 1 \in Nat
      BY <1>1 DEF ToolsIInv, TypeOK
    <2>2. stats[n].errors + (IF caller[c].failed THEN 1 ELSE 0) \in Nat
      BY <1>1 DEF ToolsIInv, TypeOK
    <2>3. [runs |-> stats[n].runs + 1,
           errors |-> stats[n].errors + IF caller[c].failed THEN 1 ELSE 0]
              \in [runs : Nat, errors : Nat]
      BY <2>1, <2>2
    <2>4. stats' = [stats EXCEPT ![n] =
              [runs |-> stats[n].runs + 1,
               errors |-> stats[n].errors + IF caller[c].failed THEN 1 ELSE 0]]
      BY <1>1 DEF ToolsIInv, TypeOK, UpdateCounts
    <2>5. stats \in [Names -> [runs : Nat, errors : Nat]]
      BY DEF ToolsIInv, TypeOK
    <2> QED BY <1>1, <2>3, <2>4, <2>5
  <1>3. /\ caller'[c].at = "entryLock" /\ caller'[c].tool = n
        /\ \A d \in Callers : d # c => caller'[d] = caller[d]
        /\ caller' \in [Callers ->
               [at : CallerPlaces, tool : Names, failed : BOOLEAN]]
    BY <1>1, PlaceAssigned DEF CallerPlaces
  <1>4. TypeOK'
    BY <1>1, <1>2, <1>3 DEF ToolsIInv, TypeOK
  <1>5. LocksHeld'
    BY <1>1, <1>3, ConstantsAssumption DEF ToolsIInv, LocksHeld
  <1>6. \A m : /\ BeingRegistered(m)' <=> BeingRegistered(m)
               /\ ~BeingCounted(m)
               /\ BeingCounted(m)' <=> m = n
    BY <1>1, <1>3, ConstantsAssumption DEF BeingRegistered, BeingCounted
  <1>7. Agreement'
    BY <1>1, <1>2, <1>6 DEF ToolsIInv, Agreement
  <1>8. TokensConserved'
    BY <1>1, <1>3, CallerMoves
  <1> QED BY <1>4, <1>5, <1>7, <1>8 DEF ToolsIInv

\* The entry gets the count of the statistics.  No registrar is in between:
\* the caller has waited for mu.
LEMMA UpdateEntryStep ==
    ASSUME ToolsIInv, NEW c \in Callers, UpdateEntry(c)
    PROVE  ToolsIInv'
  <1> DEFINE n == caller[c].tool
  <1>1. /\ UNCHANGED <<tools, measured, stats, mu, tokens, executions,
                       registrar, registrations>>
        /\ caller[c].at = "entryLock" /\ n \in Names
        /\ mu = Nobody /\ statsMu = c /\ statsMu' = Nobody
        /\ entryCount' = [entryCount EXCEPT ![n] = stats[n].runs]
        /\ caller' = [caller EXCEPT ![c].at = "release"]
    BY DEF ToolsIInv, TypeOK, LocksHeld, UpdateEntry
  <1>2. stats[n].runs \in Nat
    BY <1>1 DEF ToolsIInv, TypeOK
  <1>3. /\ caller'[c].at = "release"
        /\ \A d \in Callers : d # c => caller'[d] = caller[d]
        /\ caller' \in [Callers ->
               [at : CallerPlaces, tool : Names, failed : BOOLEAN]]
    BY <1>1, PlaceAssigned DEF CallerPlaces
  <1>4. TypeOK'
    BY <1>1, <1>2, <1>3 DEF ToolsIInv, TypeOK
  <1>5. LocksHeld'
    BY <1>1, <1>3, ConstantsAssumption DEF ToolsIInv, LocksHeld
  <1>6. \A m : /\ ~BeingRegistered(m) /\ ~BeingRegistered(m)'
               /\ BeingCounted(m) <=> m = n
               /\ ~BeingCounted(m)'
    BY <1>1, ConstantsAssumption DEF BeingRegistered, BeingCounted
  <1>7. Agreement'
    BY <1>1, <1>6 DEF ToolsIInv, TypeOK, Agreement
  <1>8. TokensConserved'
    BY <1>1, <1>3, CallerMoves
  <1> QED BY <1>4, <1>5, <1>7, <1>8 DEF ToolsIInv

\* The token goes back to the pool.
LEMMA ExecuteReleasesStep ==
    ASSUME ToolsIInv, NEW c \in Callers, ExecuteReleases(c)
    PROVE  ToolsIInv'
  <1>1. /\ UNCHANGED <<tools, entryCount, measured, stats, mu, statsMu,
                       executions, registrar, registrations>>
        /\ caller[c].at = "release"
        /\ caller' = [caller EXCEPT ![c].at = "idle"]
        /\ tokens' = tokens + 1
        /\ tokens \in 0 .. MaxConcurrentExecutions
        /\ tokens < MaxConcurrentExecutions
    BY DEF ToolsIInv, TypeOK, ExecuteReleases
  <1>2. /\ caller'[c].at = "idle"
        /\ \A d \in Callers : d # c => caller'[d] = caller[d]
        /\ caller' \in [Callers ->
               [at : CallerPlaces, tool : Names, failed : BOOLEAN]]
    BY <1>1, PlaceAssigned DEF CallerPlaces
  <1>3. tokens' \in 0 .. MaxConcurrentExecutions
    BY <1>1, ConstantsAssumption
  <1>4. TypeOK'
    BY <1>1, <1>2, <1>3 DEF ToolsIInv, TypeOK
  <1>5. LocksHeld' /\ Agreement'
    BY <1>1, <1>2, CountsUntouched
  <1>6. Holding' = Holding \ {c} /\ c \in Holding
    BY <1>1, <1>2 DEF Holding
  <1>7. Cardinality(Holding') = Cardinality(Holding) - 1
    BY <1>6, HoldingFinite, FS_RemoveElement
  <1>8. TokensConserved'
    BY <1>1, <1>7, HoldingFinite, ConstantsAssumption DEF ToolsIInv, TokensConserved
  <1> QED BY <1>4, <1>5, <1>8 DEF ToolsIInv

(***************************************************************************)
(* The theorem                                                             *)
(***************************************************************************)

\* A new registry is empty and has all its tokens.
LEMMA ToolsInitHolds == Init => ToolsIInv
  <1> SUFFICES ASSUME Init PROVE ToolsIInv
    OBVIOUS
  <1> DEFINE none == CHOOSE n \in Names : TRUE
  <1>1. none \in Names
    BY ConstantsAssumption
  <1>2. /\ caller = [c \in Callers |->
                        [at |-> "idle", tool |-> none, failed |-> FALSE]]
        /\ registrar = [g \in Registrars |-> [at |-> "idle", tool |-> none]]
        /\ mu = Nobody /\ statsMu = Nobody /\ tokens = MaxConcurrentExecutions
    BY DEF Init
  <1> HIDE DEF none
  <1>3. TypeOK
    BY <1>1, <1>2, ConstantsAssumption DEF Init, TypeOK, NoCounts, CallerPlaces
  <1>4. LocksHeld
    BY <1>2, ConstantsAssumption DEF LocksHeld
  <1>5. Agreement
    BY <1>2, ConstantsAssumption
       DEF Init, Agreement, BeingRegistered, BeingCounted, NoCounts
  <1>6. Holding = {}
    BY <1>2 DEF Holding
  <1>7. TokensConserved
    BY <1>2, <1>6, FS_EmptySet, ConstantsAssumption DEF TokensConserved
  <1> QED BY <1>3, <1>4, <1>5, <1>7 DEF ToolsIInv

\* No step, and no stutter, leaves the invariant.
LEMMA ToolsStepHolds == ToolsIInv /\ [Next]_vars => ToolsIInv'
  <1> SUFFICES ASSUME ToolsIInv, [Next]_vars PROVE ToolsIInv'
    OBVIOUS
  <1>1. CASE UNCHANGED vars
    BY <1>1 DEF ToolsIInv, TypeOK, TokensConserved, Holding, LocksHeld, Agreement,
                BeingRegistered, BeingCounted, vars
  <1>2. CASE \E g \in Registrars : \/ \E n \in Names : RegisterCalled(g, n)
                                   \/ Register(g)
    BY <1>2, RegisterCalledStep, RegisterStoresStep, RegisterResetsStatsStep
       DEF Register
  <1>3. CASE \E c \in Callers : \/ \E n \in Names : ExecuteLooksUp(c, n)
                                \/ ExecuteGivesUp(c)
    BY <1>3, ExecuteLooksUpStep, ExecuteGivesUpStep
  <1>4. CASE \E c \in Callers : Execute(c)
    BY <1>4, ExecuteAcquiresStep, HandlerReturnsStep, UpdateCountsStep,
       UpdateEntryStep, ExecuteReleasesStep DEF Execute
  <1> QED BY <1>1, <1>2, <1>3, <1>4 DEF Next

\* A tool that has been found stays in the registry.
KnownTools == \A c \in Callers : caller[c].at # "idle" => caller[c].tool \in tools

LEMMA KnownToolsStep == ToolsIInv /\ KnownTools /\ [Next]_vars => KnownTools'
  <1> SUFFICES ASSUME ToolsIInv, KnownTools, [Next]_vars PROVE KnownTools'
    OBVIOUS
  <1>1. CASE UNCHANGED vars
    BY <1>1 DEF KnownTools, vars
  <1>2. ASSUME NEW g \in Registrars,
               (\E n \in Names : RegisterCalled(g, n)) \/ Register(g)
        PROVE  KnownTools'
    <2>1. caller' = caller /\ tools \subseteq tools'
      BY <1>2 DEF RegisterCalled, Register, RegisterStores, RegisterResetsStats
    <2> QED BY <2>1 DEF KnownTools
  <1>3. ASSUME NEW c \in Callers, NEW n \in Names, ExecuteLooksUp(c, n)
        PROVE  KnownTools'
    <2>1. CASE n \in tools
      <3> DEFINE v == [caller[c] EXCEPT !.at = "acquire", !.tool = n]
      <3>1. v \in CallerType /\ v.tool = n
        BY CallerTyped DEF CallerType, CallerPlaces
      <3>2. caller' = [caller EXCEPT ![c] = v] /\ tools' = tools
        BY <1>3, <2>1 DEF ExecuteLooksUp
      <3> HIDE DEF v
      <3>3. caller'[c].tool = n /\ \A d \in Callers : d # c => caller'[d] = caller[d]
        BY <3>1, <3>2, CallerAssigned
      <3> QED BY <2>1, <3>2, <3>3 DEF KnownTools
    <2>2. CASE n \notin tools
      BY <1>3, <2>2 DEF ExecuteLooksUp, KnownTools
    <2> QED BY <2>1, <2>2
  <1>4. ASSUME NEW c \in Callers, Execute(c) \/ ExecuteGivesUp(c)
        PROVE  KnownTools'
    <2>1. tools' = tools /\ caller[c].at # "idle"
      BY <1>4 DEF Execute, ExecuteAcquires, HandlerReturns, UpdateCounts, UpdateEntry,
                  ExecuteReleases, ExecuteGivesUp
    <2>2. /\ caller'[c].tool = caller[c].tool
          /\ \A d \in Callers : d # c => caller'[d] = caller[d]
      <3>1. ASSUME NEW place \in CallerPlaces,
                   caller' = [caller EXCEPT ![c].at = place]
            PROVE  /\ caller'[c].tool = caller[c].tool
                   /\ \A d \in Callers : d # c => caller'[d] = caller[d]
        BY <3>1, PlaceAssigned
      <3>2. ASSUME NEW failed \in BOOLEAN, HandlerReturns(c, failed)
            PROVE  /\ caller'[c].tool = caller[c].tool
                   /\ \A d \in Callers : d # c => caller'[d] = caller[d]
        <4> DEFINE v == [caller[c] EXCEPT !.at = "statsLock", !.failed = failed]
        <4>1. v \in CallerType /\ v.tool = caller[c].tool
          BY CallerTyped DEF CallerType, CallerPlaces
        <4>2. caller' = [caller EXCEPT ![c] = v]
          BY <3>2 DEF HandlerReturns
        <4> HIDE DEF v
        <4> QED BY <4>1, <4>2, CallerAssigned
      <3>3. CASE ExecuteAcquires(c)
        BY <3>1, <3>3 DEF ExecuteAcquires, CallerPlaces
      <3>4. CASE UpdateCounts(c)
        BY <3>1, <3>4 DEF UpdateCounts, CallerPlaces
      <3>5. CASE UpdateEntry(c)
        BY <3>1, <3>5 DEF UpdateEntry, CallerPlaces
      <3>6. CASE ExecuteReleases(c)
        BY <3>1, <3>6 DEF ExecuteReleases, CallerPlaces
      <3>7. CASE ExecuteGivesUp(c)
        BY <3>1, <3>7 DEF ExecuteGivesUp, CallerPlaces
      <3> QED BY <1>4, <3>2, <3>3, <3>4, <3>5, <3>6, <3>7 DEF Execute
    <2> QED BY <2>1, <2>2 DEF KnownTools
  <1> QED BY <1>1, <1>2, <1>3, <1>4 DEF Next

\* While nobody can go on, mu is held only by a registrar that waits for statsMu,
\* which is held by a caller that waits for mu.
LEMMA HeldMuIsCrossed ==
    ASSUME ToolsIInv, mu # Nobody,
           \A g \in Registrars : ~RegistrarMayGoOn(g)
    PROVE  LocksCrossed
  <1>1. PICK g \in Registrars : mu = g /\ registrar[g].at = "statsLock"
    BY DEF ToolsIInv, TypeOK, LocksHeld
  <1>2. statsMu # Nobody
    BY <1>1 DEF RegistrarMayGoOn
  <1>3. PICK c \in Callers : statsMu = c /\ caller[c].at = "entryLock"
    BY <1>2 DEF ToolsIInv, TypeOK, LocksHeld
  <1> QED BY <1>1, <1>3 DEF LocksCrossed

\* A caller with a token gives it back, unless a lock is held.
LEMMA HolderMayGoOn ==
    ASSUME ToolsIInv, KnownTools, mu = Nobody, NEW c \in Holding
    PROVE  \E d \in Callers : CallerMayGoOn(d)
  <1>1. c \in Callers
    BY DEF Holding
  <1>2. CASE caller[c].at \in {"handling", "entryLock"}
    BY <1>1, <1>2 DEF CallerMayGoOn
  <1>3. CASE caller[c].at = "release"
    <2>1. Cardinality(Holding) # 0
      BY HoldingFinite, FS_EmptySet
    <2>2. /\ tokens \in Nat /\ MaxConcurrentExecutions \in Nat
          /\ Cardinality(Holding) \in Nat
          /\ tokens + Cardinality(Holding) = MaxConcurrentExecutions
      BY HoldingFinite, ConstantsAssumption DEF ToolsIInv, TokensConserved, TypeOK
    <2>3. tokens < MaxConcurrentExecutions
      BY <2>1, <2>2
    <2> QED BY <1>1, <1>3, <2>3 DEF CallerMayGoOn
  <1>4. CASE caller[c].at = "statsLock"
    <2>1. CASE statsMu # Nobody
      <3>1. PICK d \in Callers : caller[d].at = "entryLock"
        BY <2>1 DEF ToolsIInv, TypeOK, LocksHeld
      <3> QED BY <3>1 DEF CallerMayGoOn
    <2>2. CASE statsMu = Nobody
      <3>1. caller[c].tool \in tools /\ ~BeingRegistered(caller[c].tool)
        BY <1>1, <1>4, ConstantsAssumption DEF KnownTools, BeingRegistered
      <3>2. caller[c].tool \in measured
        BY <3>1 DEF ToolsIInv, Agreement
      <3> QED BY <1>1, <1>4, <2>2, <3>2 DEF CallerMayGoOn
    <2> QED BY <2>1, <2>2
  <1> QED BY <1>2, <1>3, <1>4 DEF Holding

LEMMA OnlyCrossedLocksBlockHolds ==
    ASSUME ToolsIInv, KnownTools
    PROVE  OnlyCrossedLocksBlock
  <1> SUFFICES ASSUME UnderWay, \A g \in Registrars : ~RegistrarMayGoOn(g),
                      \A c \in Callers : ~CallerMayGoOn(c)
               PROVE  LocksCrossed
    BY DEF OnlyCrossedLocksBlock
  <1>1. CASE mu # Nobody
    BY <1>1, HeldMuIsCrossed
  <1>2. CASE mu = Nobody
    <2>1. Holding = {}
      BY <1>2, HolderMayGoOn
    <2>2. tokens > 0
      BY <2>1, FS_EmptySet, ConstantsAssumption DEF ToolsIInv, TokensConserved, TypeOK
    <2>3. \A c \in Callers : caller[c].at = "idle"
      BY <2>1, <2>2, CallerTyped DEF CallerMayGoOn, Holding, CallerType, CallerPlaces
    <2>4. \A g \in Registrars : registrar[g].at = "idle"
      <3> SUFFICES ASSUME NEW g \in Registrars PROVE registrar[g].at = "idle"
        OBVIOUS
      <3>1. registrar[g].at # "lock"
        BY <1>2 DEF RegistrarMayGoOn
      <3>2. registrar[g].at # "statsLock"
        BY <1>2, ConstantsAssumption DEF ToolsIInv, LocksHeld
      <3> QED BY <3>1, <3>2 DEF ToolsIInv, TypeOK
    <2> QED BY <2>3, <2>4 DEF UnderWay
  <1> QED BY <1>1, <1>2

\* When no lock is held the two counts of every tool agree.
LEMMA ToolsIInvImpliesInv == ToolsIInv /\ KnownTools => Inv
  <1> SUFFICES ASSUME ToolsIInv, KnownTools PROVE Inv
    OBVIOUS
  <1>1. ASSUME mu = Nobody, statsMu = Nobody
        PROVE  \A n : ~BeingRegistered(n) /\ ~BeingCounted(n)
    BY <1>1, ConstantsAssumption DEF BeingRegistered, BeingCounted
  <1>2. StatsAgree
    BY <1>1 DEF StatsAgree, ToolsIInv, TypeOK, Agreement
  <1> QED BY <1>2, OnlyCrossedLocksBlockHolds DEF Inv, ToolsIInv

\* The two who hold the locks crosswise wait for each other, and nobody else can
\* take a lock that is held, or give it back.
LEMMA CrossingStays == ToolsIInv /\ LocksCrossed /\ [Next]_vars => LocksCrossed'
  <1> SUFFICES ASSUME ToolsIInv, LocksCrossed, [Next]_vars PROVE LocksCrossed'
    OBVIOUS
  <1>1. PICK c \in Callers : statsMu = c /\ caller[c].at = "entryLock"
    BY DEF LocksCrossed
  <1>2. PICK g \in Registrars : mu = g /\ registrar[g].at = "statsLock"
    BY DEF LocksCrossed
  <1>3. mu # Nobody /\ statsMu # Nobody
    BY <1>1, <1>2, ConstantsAssumption
  <1>4. /\ caller \in [Callers -> CallerType]
        /\ registrar \in [Registrars -> [at : {"idle", "lock", "statsLock"}, tool : Names]]
    BY DEF ToolsIInv, TypeOK, CallerType
  <1>5. UNCHANGED <<mu, statsMu>> /\ caller'[c] = caller[c] /\ registrar'[g] = registrar[g]
    <2>1. CASE UNCHANGED vars
      BY <2>1 DEF vars
    <2>2. ASSUME NEW h \in Registrars, NEW n \in Names, RegisterCalled(h, n)
          PROVE  <1>5
      BY <1>2, <1>4, <2>2 DEF RegisterCalled
    <2>3. ASSUME NEW h \in Registrars, Register(h)
          PROVE  <1>5
      BY <1>3, <2>3 DEF Register, RegisterStores, RegisterResetsStats
    <2>4. ASSUME NEW d \in Callers, NEW n \in Names, ExecuteLooksUp(d, n)
          PROVE  <1>5
      BY <1>3, <2>4 DEF ExecuteLooksUp
    <2>5. ASSUME NEW d \in Callers, Execute(d) \/ ExecuteGivesUp(d)
          PROVE  <1>5
      <3>1. ~UpdateCounts(d) /\ ~UpdateEntry(d)
        BY <1>3 DEF UpdateCounts, UpdateEntry
      <3>2. /\ caller[d].at # "entryLock" /\ UNCHANGED <<mu, statsMu, registrar>>
            /\ \A e \in Callers : e # d => caller'[e] = caller[e]
        BY <1>4, <2>5, <3>1 DEF Execute, ExecuteAcquires, HandlerReturns,
                                ExecuteReleases, ExecuteGivesUp
      <3> QED BY <1>1, <3>2
    <2> QED BY <2>1, <2>2, <2>3, <2>4, <2>5 DEF Next
  <1> QED BY <1>1, <1>2, <1>5 DEF LocksCrossed

(***************************************************************************)
(* Prompts                                                                 *)
(***************************************************************************)

\* The executions whose handler has been called and whose use of e is not
\* counted.
Uncounted(e) == {p \in P!At({"handling"}) : prompter[p].entry = e}

PromptsIInv ==
    /\ P!PromptsInv
    /\ \A p \in Prompters : prompter[p].at # "idle" => prompter[p].entry # 0

\* The executions that hold a token.
PromptHolding == P!At({"handling", "release"})

\* What prompter[p] may be.
PrompterType == [at : {"idle", "acquire", "handling", "release"},
                 entry : 0 .. MaxPrompts]

\* The executions that hold a token, or that are in a handler, can be counted.
LEMMA PromptersFinite ==
    /\ IsFiniteSet(PromptHolding) /\ Cardinality(PromptHolding) \in Nat
    /\ \A e : IsFiniteSet(Uncounted(e)) /\ Cardinality(Uncounted(e)) \in Nat
  <1>1. PromptHolding \in SUBSET Prompters
        /\ \A e : Uncounted(e) \in SUBSET Prompters
    BY DEF PromptHolding, P!At, Uncounted
  <1> QED BY <1>1, FS_Subset, FS_CardinalityType, RegistriesAssumption

\* The tokens in use and the uses that are not counted, in both states of a step.
\* (What the instance calls cardinality is cardinality.)
TokensAddUp == promptTokens + Cardinality(PromptHolding) = PromptWorkers
UsesAddUp == \A e \in 1 .. MaxPrompts :
                 usage[e] + Cardinality(Uncounted(e)) = called[e]

LEMMA PromptsCounted ==
    /\ P!TokensConserved <=> TokensAddUp
    /\ P!UsageIsOwn <=> UsesAddUp
    /\ P!TokensConserved' <=> TokensAddUp'
    /\ P!UsageIsOwn' <=> UsesAddUp'
  <1>1. \A S : P!Cardinality(S) = Cardinality(S)
    BY DEF P!Cardinality, Cardinality
  <1> QED BY <1>1 DEF P!TokensConserved, P!UsageIsOwn, PromptHolding, Uncounted,
                  TokensAddUp, UsesAddUp

\* One execution goes on, from one place to another, with its entry.
LEMMA PrompterMoves ==
    ASSUME PromptsIInv, NEW p \in Prompters,
           NEW at \in {"idle", "acquire", "handling", "release"},
           NEW e \in 0 .. MaxPrompts, at # "idle" => e # 0,
           \/ prompter' = [prompter EXCEPT ![p] = [at |-> at, entry |-> e]]
           \/ prompter' = [prompter EXCEPT ![p].at = at] /\ e = prompter[p].entry
    PROVE  /\ prompter' \in [Prompters -> PrompterType]
           /\ prompter'[p].at = at /\ prompter'[p].entry = e
           /\ \A q \in Prompters \ {p} : prompter'[q] = prompter[q]
           /\ \A q \in Prompters : prompter'[q].at # "idle" => prompter'[q].entry # 0
  <1>1. prompter \in [Prompters -> PrompterType]
    BY DEF PromptsIInv, P!PromptsInv, P!TypeOK, PrompterType
  <1>2. prompter' = [prompter EXCEPT ![p] = [at |-> at, entry |-> e]]
    BY <1>1 DEF PrompterType
  <1> QED BY <1>1, <1>2 DEF PrompterType, PromptsIInv

\* Register and the look-up touch neither tokens nor counts.
LEMMA PromptLookUpStep ==
    ASSUME PromptsIInv,
           P!Register \/ \E p \in Prompters : P!LooksUp(p) \/ P!GivesUp(p)
    PROVE  PromptsIInv'
  <1>0. /\ P!TypeOK /\ P!TokensConserved /\ P!UsageIsOwn
        /\ MaxPrompts \in Nat /\ MaxUses \in Nat
    BY RegistriesAssumption DEF PromptsIInv, P!PromptsInv
  <1>1. UNCHANGED <<usage, promptTokens, called>>
    BY DEF P!Register, P!LooksUp, P!GivesUp
  <1>2. /\ prompt' \in 0 .. MaxPrompts
        /\ uses' \in [Prompters -> 0 .. MaxUses]
    BY <1>0 DEF P!TypeOK, P!Register, P!LooksUp, P!GivesUp
  <1>3. ASSUME prompter' \in [Prompters -> PrompterType],
               \A q \in Prompters : prompter'[q].at # "idle" => prompter'[q].entry # 0,
               \A q \in Prompters :
                   \/ prompter'[q] = prompter[q]
                   \/ {prompter'[q].at, prompter[q].at} \subseteq {"idle", "acquire"}
        PROVE  PromptsIInv'
    <2>1. P!TypeOK'
      BY <1>0, <1>1, <1>2, <1>3 DEF P!TypeOK, PrompterType
    <2>2. PromptHolding' = PromptHolding
          /\ \A e : Uncounted(e)' = Uncounted(e)
      BY <1>3 DEF PromptHolding, P!At, Uncounted
    <2>3. P!TokensConserved' /\ P!UsageIsOwn'
      BY <1>0, <1>1, <2>2, PromptsCounted DEF TokensAddUp, UsesAddUp
    <2> QED BY <1>3, <2>1, <2>3 DEF PromptsIInv, P!PromptsInv
  <1>4. CASE UNCHANGED prompter
    BY <1>0, <1>3, <1>4 DEF PromptsIInv, P!TypeOK, PrompterType
  <1>5. ASSUME NEW p \in Prompters, P!LooksUp(p), prompt # 0
        PROVE  PromptsIInv'
    <2>1. prompt \in 0 .. MaxPrompts /\ prompter[p].at = "idle"
          /\ prompter' = [prompter EXCEPT ![p] = [at |-> "acquire", entry |-> prompt]]
      BY <1>0, <1>5 DEF P!TypeOK, P!LooksUp
    <2>2. /\ prompter' \in [Prompters -> PrompterType]
          /\ prompter'[p].at = "acquire"
          /\ \A q \in Prompters \ {p} : prompter'[q] = prompter[q]
          /\ \A q \in Prompters : prompter'[q].at # "idle" => prompter'[q].entry # 0
      BY <1>5, <2>1, PrompterMoves
    <2> QED BY <1>3, <2>1, <2>2
  <1>6. ASSUME NEW p \in Prompters, P!GivesUp(p)
        PROVE  PromptsIInv'
    <2>1. prompter[p].entry \in 0 .. MaxPrompts /\ prompter[p].at = "acquire"
          /\ prompter' = [prompter EXCEPT ![p].at = "idle"]
      BY <1>0, <1>6 DEF P!TypeOK, P!GivesUp
    <2>2. /\ prompter' \in [Prompters -> PrompterType]
          /\ prompter'[p].at = "idle"
          /\ \A q \in Prompters \ {p} : prompter'[q] = prompter[q]
          /\ \A q \in Prompters : prompter'[q].at # "idle" => prompter'[q].entry # 0
      BY <2>1, PrompterMoves
    <2> QED BY <1>3, <2>1, <2>2
  <1> QED BY <1>4, <1>5, <1>6 DEF P!Register, P!LooksUp

\* A token for the call of a handler, counted as one of its entry.
LEMMA PromptAcquiresStep ==
    ASSUME PromptsIInv, NEW p \in Prompters, P!Acquires(p)
    PROVE  PromptsIInv'
  <1>e. PICK e : e = prompter[p].entry
    OBVIOUS
  <1>0. /\ P!TypeOK /\ TokensAddUp /\ UsesAddUp
        /\ MaxPrompts \in Nat /\ PromptWorkers \in Nat
    BY RegistriesAssumption, PromptsCounted DEF PromptsIInv, P!PromptsInv
  <1>1. /\ e = prompter[p].entry /\ prompter[p].at = "acquire" /\ promptTokens > 0
        /\ promptTokens' = promptTokens - 1
        /\ prompter' = [prompter EXCEPT ![p].at = "handling"]
        /\ called' = [called EXCEPT ![e] = @ + 1]
        /\ UNCHANGED <<prompt, usage, uses>>
    BY <1>e DEF P!Acquires
  <1>2. e \in 1 .. MaxPrompts /\ e \in 0 .. MaxPrompts /\ e # 0
    BY <1>0, <1>1 DEF PromptsIInv, P!TypeOK
  <1>3. /\ prompter' \in [Prompters -> PrompterType]
        /\ prompter'[p].at = "handling" /\ prompter'[p].entry = e
        /\ \A q \in Prompters \ {p} : prompter'[q] = prompter[q]
        /\ \A q \in Prompters : prompter'[q].at # "idle" => prompter'[q].entry # 0
    BY <1>1, <1>2, PrompterMoves
  <1>4. /\ PromptHolding' = PromptHolding \cup {p}
        /\ p \notin PromptHolding
        /\ Uncounted(e)' = Uncounted(e) \cup {p} /\ p \notin Uncounted(e)
        /\ \A f : f # e => Uncounted(f)' = Uncounted(f)
    BY <1>1, <1>3 DEF PromptHolding, P!At, Uncounted
  <1>5. P!TokensConserved'
    <2>1. Cardinality(PromptHolding')
              = Cardinality(PromptHolding) + 1
      BY <1>4, PromptersFinite, FS_AddElement
    <2> QED BY <1>0, <1>1, <2>1, PromptersFinite, PromptsCounted
           DEF P!TypeOK, TokensAddUp
  <1>6. P!UsageIsOwn'
    <2>1. Cardinality(Uncounted(e)') = Cardinality(Uncounted(e)) + 1
      BY <1>4, PromptersFinite, FS_AddElement
    <2>2. \A f \in 1 .. MaxPrompts :
              usage[f] + Cardinality(Uncounted(f)) = called[f]
      BY <1>0 DEF UsesAddUp
    <2>3. usage \in [1 .. MaxPrompts -> Nat] /\ called \in [1 .. MaxPrompts -> Nat]
      BY <1>0 DEF P!TypeOK
    <2>4. ASSUME NEW f \in 1 .. MaxPrompts
          PROVE  usage'[f] + Cardinality(Uncounted(f)') = called'[f]
      <3>1. CASE f = e
        BY <1>1, <1>2, <2>1, <2>2, <2>3, <3>1, PromptersFinite
      <3>2. CASE f # e
        BY <1>1, <1>2, <1>4, <2>2, <2>3, <3>2
      <3> QED BY <3>1, <3>2
    <2> QED BY <1>1, <2>4, PromptsCounted DEF UsesAddUp
  <1>7. P!TypeOK'
    <2>1. called' \in [1 .. MaxPrompts -> Nat]
      BY <1>0, <1>1, <1>2 DEF P!TypeOK
    <2>2. promptTokens' \in 0 .. PromptWorkers
      BY <1>0, <1>1 DEF P!TypeOK
    <2> QED BY <1>0, <1>1, <1>3, <2>1, <2>2 DEF P!TypeOK, PrompterType
  <1> QED BY <1>3, <1>5, <1>6, <1>7 DEF PromptsIInv, P!PromptsInv

\* The use is counted on the entry that was looked up.
LEMMA PromptCountsStep ==
    ASSUME PromptsIInv, NEW p \in Prompters, P!Counts(p)
    PROVE  PromptsIInv'
  <1>e. PICK e : e = prompter[p].entry
    OBVIOUS
  <1>0. /\ P!TypeOK /\ TokensAddUp /\ UsesAddUp /\ MaxPrompts \in Nat
    BY RegistriesAssumption, PromptsCounted DEF PromptsIInv, P!PromptsInv
  <1>1. /\ e = prompter[p].entry /\ prompter[p].at = "handling"
        /\ prompter' = [prompter EXCEPT ![p].at = "release"]
        /\ usage' = [usage EXCEPT ![e] = @ + 1]
        /\ UNCHANGED <<prompt, promptTokens, uses, called>>
    BY <1>e DEF P!Counts
  <1>2. e \in 1 .. MaxPrompts /\ e \in 0 .. MaxPrompts /\ e # 0
    BY <1>0, <1>1 DEF PromptsIInv, P!TypeOK
  <1>3. /\ prompter' \in [Prompters -> PrompterType]
        /\ prompter'[p].at = "release" /\ prompter'[p].entry = e
        /\ \A q \in Prompters \ {p} : prompter'[q] = prompter[q]
        /\ \A q \in Prompters : prompter'[q].at # "idle" => prompter'[q].entry # 0
    BY <1>1, <1>2, PrompterMoves
  <1>4. /\ PromptHolding' = PromptHolding
        /\ Uncounted(e)' = Uncounted(e) \ {p} /\ p \in Uncounted(e)
        /\ \A f : f # e => Uncounted(f)' = Uncounted(f)
    BY <1>1, <1>3 DEF PromptHolding, P!At, Uncounted
  <1>5. P!TokensConserved'
    BY <1>0, <1>1, <1>4, PromptsCounted DEF TokensAddUp
  <1>6. P!UsageIsOwn'
    <2>1. Cardinality(Uncounted(e)') = Cardinality(Uncounted(e)) - 1
      BY <1>4, PromptersFinite, FS_RemoveElement
    <2>2. \A f \in 1 .. MaxPrompts :
              usage[f] + Cardinality(Uncounted(f)) = called[f]
      BY <1>0 DEF UsesAddUp
    <2>3. usage \in [1 .. MaxPrompts -> Nat] /\ called \in [1 .. MaxPrompts -> Nat]
      BY <1>0 DEF P!TypeOK
    <2>4. ASSUME NEW f \in 1 .. MaxPrompts
          PROVE  usage'[f] + Cardinality(Uncounted(f)') = called'[f]
      <3>1. CASE f = e
        BY <1>1, <1>2, <2>1, <2>2, <2>3, <3>1, PromptersFinite
      <3>2. CASE f # e
        BY <1>1, <1>2, <1>4, <2>2, <2>3, <3>2
      <3> QED BY <3>1, <3>2
    <2> QED BY <1>1, <2>4, PromptsCounted DEF UsesAddUp
  <1>7. P!TypeOK'
    <2>1. usage' \in [1 .. MaxPrompts -> Nat]
      BY <1>0, <1>1, <1>2 DEF P!TypeOK
    <2> QED BY <1>0, <1>1, <1>3, <2>1 DEF P!TypeOK, PrompterType
  <1> QED BY <1>3, <1>5, <1>6, <1>7 DEF PromptsIInv, P!PromptsInv

\* The deferred release of the token.
LEMMA PromptReleasesStep ==
    ASSUME PromptsIInv, NEW p \in Prompters, P!Releases(p)
    PROVE  PromptsIInv'
  <1>0. /\ P!TypeOK /\ TokensAddUp /\ UsesAddUp
        /\ MaxPrompts \in Nat /\ PromptWorkers \in Nat
    BY RegistriesAssumption, PromptsCounted DEF PromptsIInv, P!PromptsInv
  <1>1. /\ prompter[p].at = "release" /\ promptTokens' = promptTokens + 1
        /\ prompter' = [prompter EXCEPT ![p].at = "idle"]
        /\ UNCHANGED <<prompt, usage, uses, called>>
        /\ prompter[p].entry \in 0 .. MaxPrompts
    BY <1>0 DEF P!Releases, P!TypeOK
  <1>2. /\ prompter' \in [Prompters -> PrompterType]
        /\ prompter'[p].at = "idle"
        /\ \A q \in Prompters \ {p} : prompter'[q] = prompter[q]
        /\ \A q \in Prompters : prompter'[q].at # "idle" => prompter'[q].entry # 0
    BY <1>1, PrompterMoves
  <1>3. /\ PromptHolding' = PromptHolding \ {p}
        /\ p \in PromptHolding
        /\ \A f : Uncounted(f)' = Uncounted(f)
    BY <1>1, <1>2 DEF PromptHolding, P!At, Uncounted
  <1>4. Cardinality(PromptHolding')
            = Cardinality(PromptHolding) - 1
        /\ Cardinality(PromptHolding') \in Nat
    <2>1. IsFiniteSet(PromptHolding')
      BY <1>3, PromptersFinite, FS_RemoveElement
    <2> QED BY <1>3, <2>1, PromptersFinite, FS_RemoveElement, FS_CardinalityType
  <1>5. P!TokensConserved' /\ promptTokens' \in 0 .. PromptWorkers
    BY <1>0, <1>1, <1>4, PromptersFinite, PromptsCounted
       DEF P!TypeOK, TokensAddUp
  <1>6. P!UsageIsOwn'
    BY <1>0, <1>1, <1>3, PromptsCounted DEF UsesAddUp
  <1>7. P!TypeOK'
    BY <1>0, <1>1, <1>2, <1>5 DEF P!TypeOK, PrompterType
  <1> QED BY <1>2, <1>5, <1>6, <1>7 DEF PromptsIInv, P!PromptsInv

LEMMA PromptsInitHolds == P!Init => PromptsIInv
  <1> SUFFICES ASSUME P!Init PROVE PromptsIInv
    OBVIOUS
  <1>1. P!TypeOK
    BY RegistriesAssumption DEF P!Init, P!TypeOK
  <1>2. PromptHolding = {} /\ \A e : Uncounted(e) = {}
    BY DEF P!Init, P!At, PromptHolding, Uncounted
  <1>3. P!TokensConserved
    BY <1>2, FS_EmptySet, RegistriesAssumption, PromptsCounted
       DEF P!Init, TokensAddUp
  <1>4. P!UsageIsOwn
    BY <1>2, FS_EmptySet, PromptsCounted, RegistriesAssumption
       DEF P!Init, UsesAddUp
  <1> QED BY <1>1, <1>3, <1>4 DEF P!Init, PromptsIInv, P!PromptsInv

LEMMA PromptsStepHolds == PromptsIInv /\ [P!Next]_promptVars => PromptsIInv'
  <1> SUFFICES ASSUME PromptsIInv, [P!Next]_promptVars PROVE PromptsIInv'
    OBVIOUS
  <1>1. CASE P!Next
    BY <1>1, PromptLookUpStep, PromptAcquiresStep, PromptCountsStep,
       PromptReleasesStep DEF P!Next, P!Execute
  <1>2. CASE UNCHANGED promptVars
    BY <1>2 DEF PromptsIInv, P!PromptsInv, P!TypeOK, P!TokensConserved,
       P!UsageIsOwn, P!At, promptVars
  <1> QED BY <1>1, <1>2

(***************************************************************************)
(* Resource templates                                                      *)
(***************************************************************************)
WriteOps == {"set", "register", "unregister", "enable", "disable"}
HandleOps == {"enable", "disable"}

\* What user[u] may be.
UserType == [op : WriteOps \cup {"none", "list", "complete"}, at : T!Places,
             entry : 0 .. MaxTemplates, reads : 0 .. MaxTemplates, inner : BOOLEAN]

\* Where an operation may be, when n entries have been made.
PlaceOK(o, n) ==
    /\ o.op = "none" <=> o.at = "idle"
    /\ o.op = "none" => o = T!Idle
    /\ o.op \in WriteOps /\ ~o.inner => o.at \in {"lock", "callback", "unlock"}
    /\ o.op \in WriteOps /\ o.inner => o.at \in {"rlock", "check", "runlock"}
    /\ o.op = "list" => ~o.inner /\ o.at \in {"rlock", "check", "runlock"}
    /\ o.op = "complete" /\ ~o.inner
           => o.at \in {"rlock", "check", "completing", "runlock"}
    /\ o.op = "complete" /\ o.inner => o.at \in {"again", "runlock"}
    /\ o.op \in HandleOps => o.entry \in 1 .. n
    /\ o.op \notin HandleOps => o.entry = 0
    /\ o.at \in {"check", "completing"} => o.reads \in 1 .. n

UsersInv ==
    /\ user \in [Users -> UserType]
    /\ \A u \in Users : PlaceOK(user[u], templateCount)

\* Who holds a lock, and as what.
Writes(o, l) == /\ o.entry = l
                /\ \/ o.at \in {"callback", "unlock"}
                   \/ o.inner /\ o.op # "complete"
Awaits(o, l) == o.at = "lock" /\ o.entry = l
Reads(o, l) == l = 0 /\ o.at \in {"check", "completing", "again", "runlock"}

LockType == [writer : Users \cup {NoUser}, readers : SUBSET Users,
             waiting : SUBSET Users]

\* A lock is what its goroutines hold of it.
LockOK(l) ==
    /\ \A u \in Users : /\ locks[l].writer = u <=> Writes(user[u], l)
                        /\ u \in locks[l].waiting <=> Awaits(user[u], l)
                        /\ u \in locks[l].readers <=> Reads(user[u], l)
    /\ locks[l].writer = NoUser \/ locks[l].readers = {}

LocksInv ==
    /\ locks \in [0 .. MaxTemplates -> LockType]
    /\ \A l \in 0 .. MaxTemplates : LockOK(l)

\* There is room for the entries of the registrations that wait.
RoomLeft == templateCount + Cardinality(T!Registering) <= MaxTemplates

EntriesInv ==
    /\ templates \in 0 .. MaxTemplates
    /\ templateCount \in 0 .. MaxTemplates
    /\ removed \subseteq T!Entries
    /\ enabled \in [T!Entries -> BOOLEAN]
    /\ announced \in BOOLEAN
    /\ told \in BOOLEAN
    /\ calls \in [Users -> 0 .. MaxCalls]
    /\ T!NoEntryLost

TemplatesIInv ==
    EntriesInv /\ UsersInv /\ LocksInv /\ T!UntoldChangeIsDue /\ RoomLeft

(***************************************************************************)
(* Nobody locks the others out without a callback                          *)
(***************************************************************************)

\* Without callbacks in callbacks only the holder of the lock that one waits for
\* can wait itself, and he for no other than the lock of an entry, whose holder
\* waits for nothing.
LEMMA NoDeadlockWithoutCallbacks ==
    ASSUME UsersInv, LocksInv, MaxTemplates \in Nat, NoUser \notin Users
    PROVE  T!OnlyCallbacksDeadlock
  <1> SUFFICES ASSUME NEW S \in SUBSET Users, T!Deadlocked(S),
                      \A u \in S : ~user[u].inner
               PROVE  FALSE
    BY DEF T!OnlyCallbacksDeadlock
  <1>1. \A u \in S : \E v \in S : T!WaitsFor(u, v)
    BY DEF T!Deadlocked
  <1>2. PICK u0 \in S : TRUE
    BY DEF T!Deadlocked
  <1>3. \A u \in S : user[u].at \in {"lock", "rlock", "check"}
    <2> SUFFICES ASSUME NEW u \in S PROVE user[u].at \in {"lock", "rlock", "check"}
      OBVIOUS
    <2>1. PICK v \in S : T!WaitsFor(u, v)
      BY <1>1
    <2>2. user[u].at \in {"lock", "rlock", "again", "check"}
      BY <2>1 DEF T!WaitsFor, T!WaitsToRead
    <2>3. user[u].at # "again"
      BY DEF UsersInv, PlaceOK, UserType, T!Places
    <2> QED BY <2>2, <2>3
  <1>4. \A u \in S : /\ user[u] \in UserType
                     /\ user[u].entry \in 0 .. MaxTemplates
                     /\ user[u].reads \in 0 .. MaxTemplates
                     /\ user[u].at = "check" => user[u].reads # 0
    BY DEF UsersInv, UserType, PlaceOK
  <1>5. \A u \in S, l \in 0 .. MaxTemplates :
            /\ locks[l].writer # u
            /\ u \in locks[l].waiting => user[u].at = "lock" /\ user[u].entry = l
            /\ u \in locks[l].readers => user[u].at = "check" /\ l = 0
    BY <1>3 DEF LocksInv, LockOK, Writes, Awaits, Reads
  <1>6. \A u \in S : user[u].at = "lock" =>
            user[u].entry = 0 /\ \E v \in S : user[v].at = "check"
    <2> SUFFICES ASSUME NEW u \in S, user[u].at = "lock"
                 PROVE  user[u].entry = 0 /\ \E v \in S : user[v].at = "check"
      OBVIOUS
    <2>1. PICK v \in S : T!WaitsFor(u, v)
      BY <1>1
    <2>2. v \in locks[user[u].entry].readers \/ v = locks[user[u].entry].writer
      BY <2>1 DEF T!WaitsFor, T!WaitsToRead
    <2> QED BY <1>4, <1>5, <2>2
  <1>7. \A u \in S : user[u].at = "check" =>
            \E v \in S : user[v].at = "lock" /\ user[v].entry # 0
    <2> SUFFICES ASSUME NEW u \in S, user[u].at = "check"
                 PROVE  \E v \in S : user[v].at = "lock" /\ user[v].entry # 0
      OBVIOUS
    <2>1. PICK v \in S : T!WaitsFor(u, v)
      BY <1>1
    <2>2. v \in locks[user[u].reads].waiting \/ v = locks[user[u].reads].writer
      BY <2>1 DEF T!WaitsFor, T!WaitsToRead
    <2> QED BY <1>4, <1>5, <2>2
  <1>8. \A u \in S : user[u].at = "rlock" => \E v \in S : user[v].at = "lock"
    <2> SUFFICES ASSUME NEW u \in S, user[u].at = "rlock"
                 PROVE  \E v \in S : user[v].at = "lock"
      OBVIOUS
    <2>1. PICK v \in S : T!WaitsFor(u, v)
      BY <1>1
    <2>2. v \in locks[0].waiting \/ v = locks[0].writer
      BY <2>1 DEF T!WaitsFor, T!WaitsToRead
    <2> QED BY <1>5, <2>2
  <1> QED BY <1>2, <1>3, <1>6, <1>7, <1>8

(***************************************************************************)
(* One operation goes on                                                   *)
(***************************************************************************)
LEMMA UserMoves ==
    ASSUME UsersInv, NEW u \in Users, NEW o \in UserType,
           templateCount \in Nat, templateCount' \in Nat,
           templateCount <= templateCount', PlaceOK(o, templateCount'),
           user' = [user EXCEPT ![u] = o]
    PROVE  /\ UsersInv' /\ user'[u] = o
           /\ \A v \in Users \ {u} : user'[v] = user[v]
  <1>1. /\ user' \in [Users -> UserType] /\ user'[u] = o
        /\ \A v \in Users \ {u} : user'[v] = user[v]
    BY DEF UsersInv
  <1>2. \A v \in Users \ {u} : PlaceOK(user[v], templateCount')
    BY DEF UsersInv, PlaceOK
  <1>3. \A v \in Users : PlaceOK(user'[v], templateCount')
    BY <1>1, <1>2
  <1> QED BY <1>1, <1>3 DEF UsersInv

\* The same where no entry is made.
LEMMA UserGoesOn ==
    ASSUME UsersInv, NEW u \in Users, NEW o \in UserType,
           templateCount \in Nat, UNCHANGED templateCount,
           PlaceOK(o, templateCount), user' = [user EXCEPT ![u] = o]
    PROVE  /\ UsersInv' /\ user'[u] = o
           /\ \A v \in Users \ {u} : user'[v] = user[v]
  <1>1. templateCount' \in Nat /\ templateCount <= templateCount'
    OBVIOUS
  <1>2. PlaceOK(o, templateCount')
    OBVIOUS
  <1> QED BY <1>1, <1>2, UserMoves

\* One lock changes.
LEMMA LockUpdated ==
    ASSUME locks \in [0 .. MaxTemplates -> LockType],
           NEW l \in 0 .. MaxTemplates, NEW r \in LockType,
           NEW f, f = [locks EXCEPT ![l] = r]
    PROVE  /\ f \in [0 .. MaxTemplates -> LockType] /\ f[l] = r
           /\ \A k \in 0 .. MaxTemplates \ {l} : f[k] = locks[k]
  OBVIOUS

\* What the operations of sync.RWMutex do to a lock.
LEMMA LockFields ==
    ASSUME locks \in [0 .. MaxTemplates -> LockType],
           NEW u \in Users, NEW l \in 0 .. MaxTemplates, NEW f
    PROVE  /\ f \in {T!Queued(u, l), T!ReadLocked(u, l), T!WriteLocked(u, l),
                     T!Released(u, l)}
                  => /\ f \in [0 .. MaxTemplates -> LockType]
                     /\ \A k \in 0 .. MaxTemplates \ {l} : f[k] = locks[k]
           /\ f = T!Queued(u, l)
                  => /\ f[l].writer = locks[l].writer
                     /\ f[l].readers = locks[l].readers
                     /\ f[l].waiting = locks[l].waiting \cup {u}
           /\ f = T!ReadLocked(u, l)
                  => /\ f[l].writer = locks[l].writer
                     /\ f[l].readers = locks[l].readers \cup {u}
                     /\ f[l].waiting = locks[l].waiting
           /\ f = T!WriteLocked(u, l)
                  => /\ f[l].writer = u
                     /\ f[l].readers = locks[l].readers
                     /\ f[l].waiting = locks[l].waiting \ {u}
           /\ f = T!Released(u, l)
                  => /\ f[l].writer = IF locks[l].writer = u THEN NoUser
                                                             ELSE locks[l].writer
                     /\ f[l].readers = locks[l].readers \ {u}
                     /\ f[l].waiting = locks[l].waiting
  <1> DEFINE old == locks[l]
  <1>0. old \in LockType
    OBVIOUS
  <1>f. /\ old.writer \in Users \cup {NoUser}
        /\ old.readers \subseteq Users /\ old.waiting \subseteq Users
    BY <1>0 DEF LockType
  <1>1. ASSUME f = T!Queued(u, l)
        PROVE  /\ f \in [0 .. MaxTemplates -> LockType]
               /\ \A k \in 0 .. MaxTemplates \ {l} : f[k] = locks[k]
               /\ f[l].writer = old.writer
               /\ f[l].readers = old.readers
               /\ f[l].waiting = old.waiting \cup {u}
    <2> DEFINE r == [old EXCEPT !.waiting = @ \cup {u}]
    <2>1. r \in LockType
      BY <1>0, <1>f DEF LockType
    <2>2. f = [locks EXCEPT ![l] = r]
      BY <1>1 DEF T!Queued
    <2>3. /\ r.writer = old.writer
          /\ r.readers = old.readers
          /\ r.waiting = old.waiting \cup {u}
      BY <1>0 DEF LockType
    <2> HIDE DEF r
    <2>4. /\ f \in [0 .. MaxTemplates -> LockType] /\ f[l] = r
          /\ \A k \in 0 .. MaxTemplates \ {l} : f[k] = locks[k]
      BY <2>1, <2>2, LockUpdated
    <2> QED BY <2>3, <2>4
  <1>2. ASSUME f = T!ReadLocked(u, l)
        PROVE  /\ f \in [0 .. MaxTemplates -> LockType]
               /\ \A k \in 0 .. MaxTemplates \ {l} : f[k] = locks[k]
               /\ f[l].writer = old.writer
               /\ f[l].readers = old.readers \cup {u}
               /\ f[l].waiting = old.waiting
    <2> DEFINE r == [old EXCEPT !.readers = @ \cup {u}]
    <2>1. r \in LockType
      BY <1>0, <1>f DEF LockType
    <2>2. f = [locks EXCEPT ![l] = r]
      BY <1>2 DEF T!ReadLocked
    <2>3. /\ r.writer = old.writer
          /\ r.readers = old.readers \cup {u}
          /\ r.waiting = old.waiting
      BY <1>0 DEF LockType
    <2> HIDE DEF r
    <2>4. /\ f \in [0 .. MaxTemplates -> LockType] /\ f[l] = r
          /\ \A k \in 0 .. MaxTemplates \ {l} : f[k] = locks[k]
      BY <2>1, <2>2, LockUpdated
    <2> QED BY <2>3, <2>4
  <1>3. ASSUME f = T!WriteLocked(u, l)
        PROVE  /\ f \in [0 .. MaxTemplates -> LockType]
               /\ \A k \in 0 .. MaxTemplates \ {l} : f[k] = locks[k]
               /\ f[l].writer = u
               /\ f[l].readers = old.readers
               /\ f[l].waiting = old.waiting \ {u}
    <2> DEFINE r == [old EXCEPT !.writer = u, !.waiting = @ \ {u}]
    <2>1. r \in LockType
      BY <1>0, <1>f DEF LockType
    <2>2. f = [locks EXCEPT ![l] = r]
      BY <1>3 DEF T!WriteLocked
    <2>3. /\ r.writer = u
          /\ r.readers = old.readers
          /\ r.waiting = old.waiting \ {u}
      BY <1>0 DEF LockType
    <2> HIDE DEF r
    <2>4. /\ f \in [0 .. MaxTemplates -> LockType] /\ f[l] = r
          /\ \A k \in 0 .. MaxTemplates \ {l} : f[k] = locks[k]
      BY <2>1, <2>2, LockUpdated
    <2> QED BY <2>3, <2>4
  <1>4. ASSUME f = T!Released(u, l)
        PROVE  /\ f \in [0 .. MaxTemplates -> LockType]
               /\ \A k \in 0 .. MaxTemplates \ {l} : f[k] = locks[k]
               /\ f[l].writer = (IF old.writer = u THEN NoUser ELSE old.writer)
               /\ f[l].readers = old.readers \ {u}
               /\ f[l].waiting = old.waiting
    <2> DEFINE r == [old EXCEPT !.writer = IF @ = u THEN NoUser ELSE @,
                             !.readers = @ \ {u}]
    <2>1. r \in LockType
      BY <1>0, <1>f DEF LockType
    <2>2. f = [locks EXCEPT ![l] = r]
      BY <1>4 DEF T!Released
    <2>3. /\ r.writer = (IF old.writer = u THEN NoUser ELSE old.writer)
          /\ r.readers = old.readers \ {u}
          /\ r.waiting = old.waiting
      BY <1>0 DEF LockType
    <2> HIDE DEF r
    <2>4. /\ f \in [0 .. MaxTemplates -> LockType] /\ f[l] = r
          /\ \A k \in 0 .. MaxTemplates \ {l} : f[k] = locks[k]
      BY <2>1, <2>2, LockUpdated
    <2> QED BY <2>3, <2>4
  <1> QED BY <1>1, <1>2, <1>3, <1>4

\* u's hold on the locks changes as its operation says, and nobody else's does.
LEMMA LocksFollow ==
    ASSUME LocksInv, NEW u \in Users,
           \A v \in Users \ {u} : user'[v] = user[v],
           locks' \in [0 .. MaxTemplates -> LockType],
           \A k \in 0 .. MaxTemplates :
               /\ \A v \in Users \ {u} :
                     /\ locks'[k].writer = v <=> locks[k].writer = v
                     /\ v \in locks'[k].waiting <=> v \in locks[k].waiting
                     /\ v \in locks'[k].readers <=> v \in locks[k].readers
               /\ locks'[k].writer = u <=> Writes(user'[u], k)
               /\ u \in locks'[k].waiting <=> Awaits(user'[u], k)
               /\ u \in locks'[k].readers <=> Reads(user'[u], k)
               /\ locks'[k].writer = NoUser \/ locks'[k].readers = {}
    PROVE  LocksInv'
  <1>1. \A k \in 0 .. MaxTemplates : \A v \in Users :
            /\ locks'[k].writer = v <=> Writes(user'[v], k)
            /\ v \in locks'[k].waiting <=> Awaits(user'[v], k)
            /\ v \in locks'[k].readers <=> Reads(user'[v], k)
    BY DEF LocksInv, LockOK
  <1> QED BY <1>1 DEF LocksInv, LockOK

\* The locks stay what they are, and u holds what it held.
LEMMA LocksKept ==
    ASSUME LocksInv, NEW u \in Users, UNCHANGED locks,
           \A v \in Users \ {u} : user'[v] = user[v],
           \A k \in 0 .. MaxTemplates :
               /\ Writes(user'[u], k) <=> Writes(user[u], k)
               /\ Awaits(user'[u], k) <=> Awaits(user[u], k)
               /\ Reads(user'[u], k) <=> Reads(user[u], k)
    PROVE  LocksInv'
  BY LocksFollow DEF LocksInv, LockOK

\* An operation that writes waits for its lock,
LEMMA LocksQueued ==
    ASSUME LocksInv, NEW u \in Users, NEW l \in 0 .. MaxTemplates,
           locks' = T!Queued(u, l), user[u] = T!Idle,
           user'[u].at = "lock", user'[u].entry = l, ~user'[u].inner,
           \A v \in Users \ {u} : user'[v] = user[v]
    PROVE  LocksInv'
  <1>1. /\ locks' \in [0 .. MaxTemplates -> LockType]
        /\ \A k \in 0 .. MaxTemplates \ {l} : locks'[k] = locks[k]
        /\ locks'[l].writer = locks[l].writer
        /\ locks'[l].readers = locks[l].readers
        /\ locks'[l].waiting = locks[l].waiting \cup {u}
    BY LockFields DEF LocksInv, LockType
  <1>2. \A k \in 0 .. MaxTemplates :
            /\ ~Writes(user[u], k) /\ ~Reads(user[u], k) /\ ~Awaits(user[u], k)
            /\ ~Writes(user'[u], k) /\ ~Reads(user'[u], k)
            /\ Awaits(user'[u], k) <=> k = l
    BY DEF Writes, Reads, Awaits, T!Idle
  <1> QED BY <1>1, <1>2, LocksFollow DEF LocksInv, LockOK

\* gets it when nobody else holds it,
LEMMA LocksWritten ==
    ASSUME LocksInv, NoUser \notin Users, NEW u \in Users,
           NEW l \in 0 .. MaxTemplates,
           T!MayWrite(u, l), locks' = T!WriteLocked(u, l),
           ~user[u].inner, user'[u].at \in {"callback", "unlock"},
           user'[u].entry = l, ~user'[u].inner,
           \A v \in Users \ {u} : user'[v] = user[v]
    PROVE  LocksInv'
  <1>1. /\ locks' \in [0 .. MaxTemplates -> LockType]
        /\ \A k \in 0 .. MaxTemplates \ {l} : locks'[k] = locks[k]
        /\ locks'[l].writer = u
        /\ locks'[l].readers = locks[l].readers
        /\ locks'[l].waiting = locks[l].waiting \ {u}
    BY LockFields DEF LocksInv, LockType
  <1>2. u \in locks[l].waiting /\ locks[l].writer = NoUser /\ locks[l].readers = {}
    BY DEF T!MayWrite
  <1>3. user[u].at = "lock" /\ user[u].entry = l
    BY <1>2 DEF LocksInv, LockOK, Awaits
  <1>4. \A k \in 0 .. MaxTemplates :
            /\ ~Writes(user[u], k) /\ ~Reads(user[u], k)
            /\ Awaits(user[u], k) <=> k = l
            /\ ~Reads(user'[u], k) /\ ~Awaits(user'[u], k)
            /\ Writes(user'[u], k) <=> k = l
    BY <1>3 DEF Writes, Reads, Awaits
  <1> QED BY <1>1, <1>2, <1>4, LocksFollow DEF LocksInv, LockOK

\* and gives it back.
LEMMA LocksReleased ==
    ASSUME LocksInv, NoUser \notin Users, NEW u \in Users,
           user[u].entry \in 0 .. MaxTemplates,
           user[u].at = "unlock", locks' = T!Released(u, user[u].entry),
           user'[u] = T!Idle,
           \A v \in Users \ {u} : user'[v] = user[v]
    PROVE  LocksInv'
  <1>l. PICK l \in 0 .. MaxTemplates : l = user[u].entry
    OBVIOUS
  <1>1. /\ locks' \in [0 .. MaxTemplates -> LockType]
        /\ \A k \in 0 .. MaxTemplates \ {l} : locks'[k] = locks[k]
        /\ locks'[l].writer = IF locks[l].writer = u THEN NoUser ELSE locks[l].writer
        /\ locks'[l].readers = locks[l].readers \ {u}
        /\ locks'[l].waiting = locks[l].waiting
    BY <1>l, LockFields DEF LocksInv, LockType
  <1>2. \A k \in 0 .. MaxTemplates :
            /\ k # l => ~Writes(user[u], k)
            /\ ~Awaits(user[u], k) /\ ~Reads(user[u], k)
            /\ ~Writes(user'[u], k) /\ ~Reads(user'[u], k) /\ ~Awaits(user'[u], k)
    <2>1. TAKE k \in 0 .. MaxTemplates
    <2>2. user'[u].at = "idle" /\ user'[u].inner = FALSE
      BY DEF T!Idle
    <2>3. /\ ~Writes(user'[u], k) /\ ~Reads(user'[u], k) /\ ~Awaits(user'[u], k)
      BY <2>2 DEF Writes, Reads, Awaits
    <2>4. ~Awaits(user[u], k) /\ ~Reads(user[u], k)
      BY DEF Reads, Awaits
    <2>5. k # l => ~Writes(user[u], k)
      BY <1>l DEF Writes
    <2> QED BY <2>3, <2>4, <2>5
  <1>3. ASSUME NEW k \in 0 .. MaxTemplates
        PROVE  /\ \A v \in Users \ {u} :
                      /\ locks'[k].writer = v <=> locks[k].writer = v
                      /\ v \in locks'[k].waiting <=> v \in locks[k].waiting
                      /\ v \in locks'[k].readers <=> v \in locks[k].readers
               /\ locks'[k].writer # u
               /\ u \notin locks'[k].waiting /\ u \notin locks'[k].readers
               /\ locks'[k].writer = NoUser \/ locks'[k].readers = {}
    <2>1. /\ locks[k].writer = u <=> Writes(user[u], k)
          /\ u \notin locks[k].waiting /\ u \notin locks[k].readers
          /\ locks[k].writer = NoUser \/ locks[k].readers = {}
      BY <1>2 DEF LocksInv, LockOK
    <2>2. CASE k = l
      BY <1>1, <2>1, <2>2
    <2>3. CASE k # l
      BY <1>1, <1>2, <2>1, <2>3
    <2> QED BY <2>2, <2>3
  <1>4. \A k \in 0 .. MaxTemplates :
            /\ locks'[k].writer = u <=> Writes(user'[u], k)
            /\ u \in locks'[k].waiting <=> Awaits(user'[u], k)
            /\ u \in locks'[k].readers <=> Reads(user'[u], k)
    BY <1>2, <1>3
  <1> QED BY <1>1, <1>3, <1>4, LocksFollow

\* A read lock is got while nobody writes or waits to write,
LEMMA LocksRead ==
    ASSUME LocksInv, MaxTemplates \in Nat, NEW u \in Users,
           T!MayRead(0), locks' = T!ReadLocked(u, 0),
           user[u].at = "rlock", user'[u].at \in {"check", "runlock"},
           user'[u].inner = user[u].inner, user'[u].op = user[u].op,
           user'[u].entry = user[u].entry,
           \A v \in Users \ {u} : user'[v] = user[v]
    PROVE  LocksInv'
  <1>1. /\ locks' \in [0 .. MaxTemplates -> LockType]
        /\ \A k \in 0 .. MaxTemplates \ {0} : locks'[k] = locks[k]
        /\ locks'[0].writer = locks[0].writer
        /\ locks'[0].readers = locks[0].readers \cup {u}
        /\ locks'[0].waiting = locks[0].waiting
    BY LockFields DEF LocksInv, LockType
  <1>2. \A k \in 0 .. MaxTemplates :
            /\ Writes(user'[u], k) <=> Writes(user[u], k)
            /\ ~Awaits(user[u], k) /\ ~Reads(user[u], k)
            /\ ~Awaits(user'[u], k) /\ (Reads(user'[u], k) <=> k = 0)
    BY DEF Writes, Reads, Awaits
  <1>3. locks[0].writer = NoUser
    BY DEF T!MayRead
  <1> QED BY <1>1, <1>2, <1>3, LocksFollow DEF LocksInv, LockOK

\* and given back by the one who has it, which may be a writer of another lock.
LEMMA LocksReadReleased ==
    ASSUME LocksInv, MaxTemplates \in Nat, NoUser \notin Users, NEW u \in Users,
           user[u].at = "runlock", locks' = T!Released(u, 0),
           \/ user'[u] = T!Idle /\ ~(user[u].inner /\ user[u].op # "complete")
           \/ /\ user[u].inner /\ user[u].op # "complete"
              /\ user'[u].at = "unlock" /\ user'[u].entry = user[u].entry
              /\ ~user'[u].inner,
           \A v \in Users \ {u} : user'[v] = user[v]
    PROVE  LocksInv'
  <1>1. /\ locks' \in [0 .. MaxTemplates -> LockType]
        /\ \A k \in 0 .. MaxTemplates \ {0} : locks'[k] = locks[k]
        /\ locks'[0].writer = IF locks[0].writer = u THEN NoUser ELSE locks[0].writer
        /\ locks'[0].readers = locks[0].readers \ {u}
        /\ locks'[0].waiting = locks[0].waiting
    BY LockFields DEF LocksInv, LockType
  <1>2. Reads(user[u], 0)
    BY DEF Reads
  <1>3. u \in locks[0].readers /\ locks[0].writer = NoUser
    BY <1>2 DEF LocksInv, LockOK
  <1>4. \A k \in 0 .. MaxTemplates :
            /\ Writes(user'[u], k) <=> Writes(user[u], k)
            /\ ~Awaits(user[u], k) /\ (Reads(user[u], k) <=> k = 0)
            /\ ~Awaits(user'[u], k) /\ ~Reads(user'[u], k)
    BY DEF Writes, Reads, Awaits, T!Idle
  <1> QED BY <1>1, <1>3, <1>4, LocksFollow DEF LocksInv, LockOK

(***************************************************************************)
(* The steps of an operation                                               *)
(***************************************************************************)

\* The registrations that wait can be counted, as the instance does.
LEMMA RegisteringFinite ==
    /\ IsFiniteSet(T!Registering) /\ Cardinality(T!Registering) \in Nat
    /\ T!Cardinality(T!Registering) = Cardinality(T!Registering)
  <1>1. T!Registering \in SUBSET Users
    BY DEF T!Registering
  <1>2. \A S : T!Cardinality(S) = Cardinality(S)
    BY DEF T!Cardinality, Cardinality
  <1> QED BY <1>1, <1>2, FS_Subset, FS_CardinalityType, RegistriesAssumption

\* Where the entries stay what they are, and nobody begins or ends waiting to
\* register.
LEMMA EntriesKept ==
    ASSUME TemplatesIInv, NEW u \in Users,
           UNCHANGED <<templates, templateCount, removed, enabled, announced>>,
           calls' \in [Users -> 0 .. MaxCalls],
           \A v \in Users \ {u} : user'[v] = user[v],
           \/ user[u].at # "lock" /\ user'[u].at # "lock"
           \/ user[u].at # "lock" /\ user'[u].op # "register",
           \/ told' = TRUE
           \/ told' = told /\ user[u].at # "callback"
    PROVE  EntriesInv' /\ RoomLeft' /\ T!UntoldChangeIsDue'
  <1>1. EntriesInv'
    BY DEF TemplatesIInv, EntriesInv, T!NoEntryLost
  <1>2. T!Registering' = T!Registering
    BY DEF T!Registering
  <1>3. RoomLeft'
    BY <1>2 DEF TemplatesIInv, RoomLeft
  <1>4. T!UntoldChangeIsDue'
    BY DEF TemplatesIInv, EntriesInv, T!UntoldChangeIsDue
  <1> QED BY <1>1, <1>3, <1>4

\* An operation that writes is begun.
LEMMA BeginWriteStep ==
    ASSUME TemplatesIInv, NEW u \in Users, T!BeginWrite(u)
    PROVE  TemplatesIInv'
  <1>0. EntriesInv /\ UsersInv /\ LocksInv /\ RoomLeft /\ T!UntoldChangeIsDue
        /\ MaxTemplates \in Nat /\ MaxCalls \in Nat /\ templateCount \in Nat
    BY RegistriesAssumption DEF TemplatesIInv, EntriesInv
  <1>1. PICK op \in WriteOps :
        \E e \in IF op \in HandleOps THEN 1 .. templateCount ELSE {0} :
            /\ op = "register"
                   => templateCount + T!Cardinality(T!Registering) < MaxTemplates
            /\ T!Begin(u, op, "lock", e) /\ locks' = T!Queued(u, e)
    BY DEF T!BeginWrite, WriteOps, HandleOps
  <1>2. PICK e \in IF op \in HandleOps THEN 1 .. templateCount ELSE {0} :
            /\ op = "register"
                   => templateCount + T!Cardinality(T!Registering) < MaxTemplates
            /\ T!Begin(u, op, "lock", e) /\ locks' = T!Queued(u, e)
    BY <1>1
  <1> DEFINE o == [T!Idle EXCEPT !.op = op, !.at = "lock", !.entry = e]
  <1>3. /\ user[u] = T!Idle /\ user' = [user EXCEPT ![u] = o]
        /\ UNCHANGED <<templates, templateCount, removed, enabled, announced, told>>
        /\ calls' \in [Users -> 0 .. MaxCalls]
    BY <1>0, <1>2 DEF T!Begin, EntriesInv
  <1>4. e \in 0 .. MaxTemplates
    BY <1>0 DEF EntriesInv
  <1>5. /\ o.op = op /\ o.at = "lock" /\ o.entry = e /\ o.reads = 0 /\ ~o.inner
        /\ o \in UserType
    <2>1. /\ o.op = op /\ o.at = "lock" /\ o.entry = e /\ o.reads = 0 /\ ~o.inner
      BY DEF T!Idle
    <2>2. T!Idle \in UserType /\ 0 \in 0 .. MaxTemplates
      BY <1>0 DEF T!Idle, UserType, T!Places
    <2>3. o \in UserType
      BY <1>4, <2>2 DEF UserType, WriteOps, T!Places
    <2> QED BY <2>1, <2>3
  <1> HIDE DEF o
  <1>6. PlaceOK(o, templateCount)
    BY <1>5 DEF PlaceOK, WriteOps, HandleOps
  <1>7. /\ UsersInv' /\ user'[u] = o
        /\ \A v \in Users \ {u} : user'[v] = user[v]
    BY <1>0, <1>3, <1>5, <1>6, UserGoesOn
  <1>8. LocksInv'
    BY <1>0, <1>2, <1>3, <1>4, <1>5, <1>7, LocksQueued
  <1>9. user[u].at = "idle"
    BY <1>3 DEF T!Idle
  <1>10. CASE op # "register"
    <2>1. EntriesInv' /\ RoomLeft' /\ T!UntoldChangeIsDue'
      BY <1>3, <1>5, <1>7, <1>9, <1>10, EntriesKept
    <2> QED BY <1>7, <1>8, <2>1 DEF TemplatesIInv
  <1>11. CASE op = "register"
    <2>1. EntriesInv'
      BY <1>0, <1>3 DEF EntriesInv, T!NoEntryLost
    <2>2. T!UntoldChangeIsDue'
      BY <1>0, <1>3, <1>7, <1>9 DEF T!UntoldChangeIsDue, EntriesInv
    <2>3. T!Registering' = T!Registering \cup {u} /\ u \notin T!Registering
      BY <1>5, <1>7, <1>9, <1>11 DEF T!Registering
    <2>4. Cardinality(T!Registering') = Cardinality(T!Registering) + 1
      BY <2>3, RegisteringFinite, FS_AddElement
    <2>5. RoomLeft'
      BY <1>0, <1>2, <1>3, <1>11, <2>4, RegisteringFinite DEF RoomLeft
    <2> QED BY <1>7, <1>8, <2>1, <2>2, <2>5 DEF TemplatesIInv
  <1> QED BY <1>10, <1>11

\* An operation that reads is begun.
LEMMA BeginReadStep ==
    ASSUME TemplatesIInv, NEW u \in Users, T!BeginRead(u)
    PROVE  TemplatesIInv'
  <1>0. EntriesInv /\ UsersInv /\ LocksInv /\ MaxCalls \in Nat
        /\ MaxTemplates \in Nat /\ templateCount \in Nat
    BY RegistriesAssumption DEF TemplatesIInv, EntriesInv
  <1>1. PICK op \in {"list", "complete"} : T!Begin(u, op, "rlock", 0)
    BY DEF T!BeginRead
  <1> DEFINE o == [T!Idle EXCEPT !.op = op, !.at = "rlock", !.entry = 0]
  <1>2. /\ user[u] = T!Idle /\ user' = [user EXCEPT ![u] = o]
        /\ UNCHANGED <<templates, templateCount, removed, enabled, announced, told,
                       locks>>
        /\ calls' \in [Users -> 0 .. MaxCalls]
    <2>1. UNCHANGED locks
      BY DEF T!BeginRead
    <2> QED BY <1>0, <1>1, <2>1 DEF T!Begin, EntriesInv
  <1>3. /\ o.op = op /\ o.at = "rlock" /\ o.entry = 0 /\ o.reads = 0 /\ ~o.inner
        /\ o \in UserType
    <2>1. /\ o.op = op /\ o.at = "rlock" /\ o.entry = 0 /\ o.reads = 0 /\ ~o.inner
      BY DEF T!Idle
    <2>2. T!Idle \in UserType /\ 0 \in 0 .. MaxTemplates
      BY <1>0 DEF T!Idle, UserType, T!Places
    <2>3. o \in UserType
      BY <2>2 DEF UserType, WriteOps, T!Places
    <2> QED BY <2>1, <2>3
  <1> HIDE DEF o
  <1>4. PlaceOK(o, templateCount)
    BY <1>3 DEF PlaceOK, WriteOps, HandleOps
  <1>5. /\ UsersInv' /\ user'[u] = o
        /\ \A v \in Users \ {u} : user'[v] = user[v]
    BY <1>0, <1>2, <1>3, <1>4, UserGoesOn
  <1>6. \A k \in 0 .. MaxTemplates :
            /\ Writes(user'[u], k) <=> Writes(user[u], k)
            /\ Awaits(user'[u], k) <=> Awaits(user[u], k)
            /\ Reads(user'[u], k) <=> Reads(user[u], k)
    BY <1>2, <1>3, <1>5 DEF Writes, Awaits, Reads, T!Idle
  <1>7. LocksInv'
    BY <1>0, <1>2, <1>5, <1>6, LocksKept
  <1>8. EntriesInv' /\ RoomLeft' /\ T!UntoldChangeIsDue'
    <2>1. /\ user[u].at = "idle" /\ user'[u].at # "lock"
      BY <1>2, <1>3, <1>5 DEF T!Idle
    <2> QED BY <1>2, <1>5, <2>1, EntriesKept
  <1> QED BY <1>5, <1>7, <1>8 DEF TemplatesIInv

\* What an operation does under its write lock.
LEMMA WriteStep ==
    ASSUME TemplatesIInv, NEW u \in Users, T!Write(u)
    PROVE  TemplatesIInv'
  <1>0. EntriesInv /\ UsersInv /\ LocksInv /\ RoomLeft /\ T!UntoldChangeIsDue
        /\ MaxTemplates \in Nat /\ templateCount \in Nat /\ NoUser \notin Users
    BY RegistriesAssumption DEF TemplatesIInv, EntriesInv
  <1>l. PICK l : l = user[u].entry
    OBVIOUS
  <1>1. /\ user[u].at = "lock" /\ T!MayWrite(u, l)
        /\ locks' = T!WriteLocked(u, l) /\ UNCHANGED calls
        /\ \/ T!SetResourceListChangedCallback(u) \/ T!RegisterTemplate(u)
           \/ T!UnregisterTemplate(u) \/ T!Update(u)
    BY <1>l DEF T!Write
  <1>2. PICK w \in {"callback", "unlock"} : user' = [user EXCEPT ![u].at = w]
    BY <1>1 DEF T!SetResourceListChangedCallback, T!RegisterTemplate,
       T!UnregisterTemplate, T!Update, T!At
  <1>3. user[u] \in UserType /\ user \in [Users -> UserType]
        /\ PlaceOK(user[u], templateCount)
    BY <1>0 DEF UsersInv
  <1>4. /\ l \in 0 .. MaxTemplates /\ user[u].op \in WriteOps /\ ~user[u].inner
        /\ user[u].op \in HandleOps => l \in 1 .. templateCount
    BY <1>l, <1>1, <1>3 DEF UserType, PlaceOK
  <1> DEFINE o == [user[u] EXCEPT !.at = w]
  <1>5. /\ o.op = user[u].op /\ o.at = w /\ o.entry = l /\ ~o.inner
        /\ o.reads = user[u].reads /\ o \in UserType
        /\ user' = [user EXCEPT ![u] = o]
    BY <1>l, <1>2, <1>3, <1>4 DEF UserType, T!Places
  <1> HIDE DEF o
  <1>6. /\ templateCount' \in Nat /\ templateCount <= templateCount'
    BY <1>0, <1>1 DEF T!SetResourceListChangedCallback, T!RegisterTemplate,
       T!UnregisterTemplate, T!Update
  <1>7. PlaceOK(o, templateCount')
    <2>1. user[u].op \in HandleOps => l \in 1 .. templateCount'
      BY <1>0, <1>4, <1>6
    <2>2. user[u].op \notin HandleOps => l = 0
      BY <1>l, <1>3 DEF PlaceOK
    <2>3. o.op \in WriteOps /\ ~o.inner /\ o.at \in {"callback", "unlock"}
      BY <1>4, <1>5
    <2> QED BY <1>5, <2>1, <2>2, <2>3 DEF PlaceOK, WriteOps
  <1>8. /\ UsersInv' /\ user'[u] = o
        /\ \A v \in Users \ {u} : user'[v] = user[v]
    BY <1>0, <1>5, <1>6, <1>7, UserMoves
  <1>9. LocksInv'
    BY <1>0, <1>1, <1>4, <1>5, <1>8, LocksWritten
  <1>10. told' \in BOOLEAN /\ T!UntoldChangeIsDue'
    <2>1. CASE w = "callback"
      <3>1. user'[u].at = "callback"
        BY <1>5, <1>8, <2>1
      <3>2. told' \in BOOLEAN
        BY <1>0, <1>1 DEF EntriesInv, T!SetResourceListChangedCallback,
           T!RegisterTemplate, T!UnregisterTemplate, T!Update
      <3> QED BY <3>1, <3>2 DEF T!UntoldChangeIsDue
    <2>2. CASE w = "unlock"
      <3>1. UNCHANGED told
        <4>1. user'[u].at = "unlock"
          BY <1>5, <1>8, <2>2
        <4>2. ~T!At(u, "callback")
          BY <1>3, <4>1 DEF T!At, UserType
        <4> QED BY <1>1, <4>2 DEF T!SetResourceListChangedCallback,
                T!RegisterTemplate, T!UnregisterTemplate, T!Update
      <3> QED BY <1>0, <1>1, <1>8, <3>1 DEF EntriesInv, T!UntoldChangeIsDue
    <2> QED BY <2>1, <2>2
  <1>11. CASE UNCHANGED <<templates, templateCount, removed>>
    <2>1. EntriesInv'
      <3>1. announced' \in BOOLEAN
        BY <1>0, <1>1 DEF EntriesInv, T!SetResourceListChangedCallback,
           T!RegisterTemplate, T!UnregisterTemplate, T!Update
      <3>2. enabled' \in [T!Entries -> BOOLEAN]
        BY <1>0, <1>1 DEF EntriesInv, T!SetResourceListChangedCallback,
           T!RegisterTemplate, T!UnregisterTemplate, T!Update
      <3> QED BY <1>0, <1>1, <1>10, <1>11, <3>1, <3>2 DEF EntriesInv, T!NoEntryLost
    <2>2. T!Registering' \subseteq T!Registering
      BY <1>1, <1>5, <1>8 DEF T!Registering
    <2>3. Cardinality(T!Registering') <= Cardinality(T!Registering)
          /\ Cardinality(T!Registering') \in Nat
      BY <2>2, RegisteringFinite, FS_Subset, FS_CardinalityType
    <2>4. RoomLeft'
      BY <1>0, <1>11, <2>3, RegisteringFinite DEF RoomLeft
    <2> QED BY <1>8, <1>9, <1>10, <2>1, <2>4 DEF TemplatesIInv
  <1>12. CASE T!UnregisterTemplate(u)
    <2>1. /\ templates' = 0 /\ removed' = removed \cup ({templates} \ {0})
          /\ UNCHANGED <<templateCount, enabled, announced>>
      BY <1>12 DEF T!UnregisterTemplate
    <2>2. EntriesInv'
      <3>1. removed' \subseteq T!Entries
        BY <1>0, <2>1 DEF EntriesInv, T!Entries
      <3> QED BY <1>0, <1>1, <1>10, <2>1, <3>1 DEF EntriesInv, T!NoEntryLost, T!Entries
    <2>3. T!Registering' \subseteq T!Registering
      BY <1>1, <1>5, <1>8 DEF T!Registering
    <2>4. Cardinality(T!Registering') <= Cardinality(T!Registering)
          /\ Cardinality(T!Registering') \in Nat
      BY <2>3, RegisteringFinite, FS_Subset, FS_CardinalityType
    <2>5. RoomLeft'
      BY <1>0, <2>1, <2>4, RegisteringFinite DEF RoomLeft
    <2> QED BY <1>8, <1>9, <1>10, <2>2, <2>5 DEF TemplatesIInv
  <1>13. CASE T!RegisterTemplate(u) /\ templates = 0
    <2>1. /\ templateCount' = templateCount + 1 /\ templates' = templateCount + 1
          /\ UNCHANGED <<removed, enabled, announced>> /\ user[u].op = "register"
      BY <1>13 DEF T!RegisterTemplate
    <2>2. T!Registering' = T!Registering \ {u} /\ u \in T!Registering
      BY <1>1, <1>5, <1>8, <2>1 DEF T!Registering
    <2>3. Cardinality(T!Registering') = Cardinality(T!Registering) - 1
          /\ Cardinality(T!Registering') \in Nat
      <3>1. IsFiniteSet(T!Registering')
        BY <2>2, RegisteringFinite, FS_RemoveElement
      <3> QED BY <2>2, <3>1, RegisteringFinite, FS_RemoveElement, FS_CardinalityType
    <2>4. RoomLeft' /\ templateCount' \in 0 .. MaxTemplates
      BY <1>0, <2>1, <2>3, RegisteringFinite DEF RoomLeft
    <2>5. EntriesInv'
      BY <1>0, <1>1, <1>10, <1>13, <2>1, <2>4 DEF EntriesInv, T!NoEntryLost
    <2> QED BY <1>8, <1>9, <1>10, <2>4, <2>5 DEF TemplatesIInv
  <1> QED BY <1>1, <1>11, <1>12, <1>13 DEF T!SetResourceListChangedCallback,
          T!RegisterTemplate, T!Update

\* Under a lock that it keeps, an operation calls back, looks at an entry, or
\* completes a parameter.
LEMMA UnderLockStep ==
    ASSUME TemplatesIInv, NEW u \in Users,
           T!Callback(u) \/ T!ReadsEntry(u) \/ T!Completes(u) \/ T!LooksUpAgain(u)
    PROVE  TemplatesIInv'
  <1>0. EntriesInv /\ UsersInv /\ LocksInv
        /\ MaxTemplates \in Nat /\ templateCount \in Nat
    BY RegistriesAssumption DEF TemplatesIInv, EntriesInv
  <1>1. /\ UNCHANGED <<templates, templateCount, removed, enabled, announced,
                       locks, calls>>
        /\ told' = TRUE \/ (told' = told /\ user[u].at # "callback")
        /\ user[u].at \in {"callback", "check", "completing", "again"}
    <2>1. CASE T!Callback(u)
      <3>1. told' = TRUE /\ user[u].at = "callback"
        BY <2>1 DEF T!Callback
      <3>2. UNCHANGED <<templates, templateCount, removed, enabled, announced,
                        locks, calls>>
        BY <2>1 DEF T!Callback
      <3> QED BY <3>1, <3>2
    <2>2. CASE T!ReadsEntry(u)
      BY <2>2 DEF T!ReadsEntry, T!Steps
    <2>3. CASE T!Completes(u)
      BY <2>3 DEF T!Completes, T!Steps
    <2>4. CASE T!LooksUpAgain(u)
      BY <2>4 DEF T!LooksUpAgain, T!Steps
    <2> QED BY <2>1, <2>2, <2>3, <2>4
  <1>2. user[u] \in UserType /\ user \in [Users -> UserType]
        /\ PlaceOK(user[u], templateCount)
    BY <1>0 DEF UsersInv
  <1>3. PICK w \in {"unlock", "rlock", "completing", "runlock", "again"},
             i \in BOOLEAN :
        /\ user' = [user EXCEPT ![u] = [user[u] EXCEPT !.at = w, !.inner = i]]
        /\ \/ user[u].at = "callback" /\ w = "unlock" /\ i = FALSE
           \/ user[u].at = "callback" /\ w = "rlock" /\ i = TRUE
           \/ /\ user[u].at = "check" /\ w = "completing"
              /\ user[u].op = "complete" /\ i = FALSE
           \/ user[u].at = "check" /\ w = "runlock" /\ i = user[u].inner
           \/ user[u].at = "completing" /\ w = "runlock" /\ i = FALSE
           \/ user[u].at = "completing" /\ w = "again" /\ i = TRUE
           \/ user[u].at = "again" /\ w = "runlock" /\ i = TRUE
    <2>1. \A w \in T!Places : T!At(u, w) =>
              user' = [user EXCEPT ![u] = [user[u] EXCEPT !.at = w, !.inner = user[u].inner]]
      BY <1>2 DEF T!At, UserType
    <2>2. \A w \in T!Places, i \in BOOLEAN :
              user' = [user EXCEPT ![u].at = w, ![u].inner = i] =>
              user' = [user EXCEPT ![u] = [user[u] EXCEPT !.at = w, !.inner = i]]
      BY <1>2 DEF UserType
    <2>3. /\ user[u].at = "callback" => ~user[u].inner
          /\ user[u].at = "completing" => ~user[u].inner
          /\ user[u].at = "again" => user[u].inner
          /\ user[u].at = "check" /\ user[u].op = "complete" => ~user[u].inner
      BY <1>2 DEF PlaceOK, UserType
    <2>4. CASE T!Callback(u)
      BY <1>2, <2>1, <2>2, <2>3, <2>4 DEF T!Callback, T!Places, UserType
    <2>5. CASE T!ReadsEntry(u)
      BY <1>2, <2>1, <2>3, <2>5 DEF T!ReadsEntry, T!Steps, T!Places, UserType
    <2>6. CASE T!Completes(u)
      BY <1>2, <2>1, <2>2, <2>3, <2>6 DEF T!Completes, T!Steps, T!Places, UserType
    <2>7. CASE T!LooksUpAgain(u)
      BY <1>2, <2>1, <2>3, <2>7 DEF T!LooksUpAgain, T!Steps, T!Places, UserType
    <2> QED BY <2>4, <2>5, <2>6, <2>7
  <1> DEFINE o == [user[u] EXCEPT !.at = w, !.inner = i]
  <1>4. /\ o.op = user[u].op /\ o.at = w /\ o.entry = user[u].entry
        /\ o.inner = i /\ o.reads = user[u].reads /\ o \in UserType
        /\ user' = [user EXCEPT ![u] = o]
    BY <1>2, <1>3 DEF UserType, T!Places
  <1> HIDE DEF o
  <1>5. PlaceOK(o, templateCount)
    <2>1. /\ o.op \in HandleOps => o.entry \in 1 .. templateCount
          /\ o.op \notin HandleOps => o.entry = 0
          /\ o.op \in WriteOps \cup {"list", "complete"}
      BY <1>1, <1>2, <1>4 DEF PlaceOK, UserType
    <2>2. o.at \in {"check", "completing"} => o.reads \in 1 .. templateCount
      BY <1>2, <1>3, <1>4 DEF PlaceOK
    <2>3. /\ user[u].at = "callback" => user[u].op \in WriteOps
          /\ user[u].at = "check" /\ user[u].inner => user[u].op \in WriteOps
          /\ user[u].at \in {"completing", "again"} => user[u].op = "complete"
      BY <1>2 DEF PlaceOK, UserType
    <2>4. /\ o.op \in WriteOps /\ ~o.inner => o.at \in {"lock", "callback", "unlock"}
          /\ o.op \in WriteOps /\ o.inner => o.at \in {"rlock", "check", "runlock"}
      BY <1>2, <1>3, <1>4, <2>3 DEF PlaceOK, WriteOps
    <2>5. o.op = "list" => ~o.inner /\ o.at \in {"rlock", "check", "runlock"}
      BY <1>2, <1>3, <1>4, <2>3 DEF PlaceOK, WriteOps
    <2>6. /\ o.op = "complete" /\ ~o.inner
                 => o.at \in {"rlock", "check", "completing", "runlock"}
          /\ o.op = "complete" /\ o.inner => o.at \in {"again", "runlock"}
      BY <1>2, <1>3, <1>4, <2>3 DEF PlaceOK, WriteOps
    <2>7. o.op # "none" /\ o.at # "idle"
      BY <1>3, <1>4, <2>1 DEF WriteOps
    <2> QED BY <2>1, <2>2, <2>4, <2>5, <2>6, <2>7 DEF PlaceOK
  <1>6. /\ UsersInv' /\ user'[u] = o
        /\ \A v \in Users \ {u} : user'[v] = user[v]
    BY <1>0, <1>1, <1>4, <1>5, UserGoesOn
  <1>7. \A k \in 0 .. MaxTemplates :
            /\ Writes(user'[u], k) <=> Writes(user[u], k)
            /\ Awaits(user'[u], k) <=> Awaits(user[u], k)
            /\ Reads(user'[u], k) <=> Reads(user[u], k)
    BY <1>2, <1>3, <1>4, <1>6 DEF Writes, Awaits, Reads, PlaceOK, UserType
  <1>8. LocksInv'
    BY <1>0, <1>1, <1>6, <1>7, LocksKept
  <1>9. EntriesInv' /\ RoomLeft' /\ T!UntoldChangeIsDue'
    <2>1. user[u].at # "lock" /\ user'[u].at # "lock"
      BY <1>1, <1>4, <1>6
    <2> QED BY <1>0, <1>1, <1>6, <2>1, EntriesKept DEF EntriesInv
  <1> QED BY <1>6, <1>8, <1>9 DEF TemplatesIInv

\* The write lock is given back.
LEMMA UnlockStep ==
    ASSUME TemplatesIInv, NEW u \in Users, T!Unlock(u)
    PROVE  TemplatesIInv'
  <1>0. EntriesInv /\ UsersInv /\ LocksInv /\ NoUser \notin Users
        /\ MaxTemplates \in Nat /\ templateCount \in Nat
    BY RegistriesAssumption DEF TemplatesIInv, EntriesInv
  <1>1. /\ user[u].at = "unlock" /\ locks' = T!Released(u, user[u].entry)
        /\ user' = [user EXCEPT ![u] = T!Idle]
        /\ UNCHANGED <<templates, templateCount, removed, enabled, announced, told,
                       calls>>
    BY DEF T!Unlock
  <1>2. user[u].entry \in 0 .. MaxTemplates
    BY <1>0 DEF UsersInv, UserType
  <1>3. T!Idle \in UserType /\ PlaceOK(T!Idle, templateCount)
    BY <1>0 DEF T!Idle, UserType, PlaceOK, WriteOps, HandleOps, T!Places
  <1>4. /\ UsersInv' /\ user'[u] = T!Idle
        /\ \A v \in Users \ {u} : user'[v] = user[v]
    BY <1>0, <1>1, <1>3, UserGoesOn
  <1>5. LocksInv'
    BY <1>0, <1>1, <1>2, <1>4, LocksReleased
  <1>6. EntriesInv' /\ RoomLeft' /\ T!UntoldChangeIsDue'
    <2>1. user[u].at = "unlock" /\ user'[u].at # "lock"
      BY <1>1, <1>4 DEF T!Idle
    <2> QED BY <1>0, <1>1, <1>4, <2>1, EntriesKept DEF EntriesInv
  <1> QED BY <1>4, <1>5, <1>6 DEF TemplatesIInv

\* A read lock is taken, and the registry looked at,
LEMMA ReadLocksStep ==
    ASSUME TemplatesIInv, NEW u \in Users, T!ReadLocks(u)
    PROVE  TemplatesIInv'
  <1>0. EntriesInv /\ UsersInv /\ LocksInv
        /\ MaxTemplates \in Nat /\ templateCount \in Nat
    BY RegistriesAssumption DEF TemplatesIInv, EntriesInv
  <1>1. PICK w : w = IF templates = 0 THEN "runlock" ELSE "check"
    OBVIOUS
  <1> DEFINE o == [user[u] EXCEPT !.at = w, !.reads = templates]
  <1>2. /\ user[u].at = "rlock" /\ T!MayRead(0) /\ locks' = T!ReadLocked(u, 0)
        /\ user' = [user EXCEPT ![u].at = w, ![u].reads = templates]
        /\ UNCHANGED <<templates, templateCount, removed, enabled, announced, told,
                       calls>>
    BY <1>1 DEF T!ReadLocks
  <1>3. user[u] \in UserType /\ user \in [Users -> UserType]
        /\ PlaceOK(user[u], templateCount)
    BY <1>0 DEF UsersInv
  <1>4. templates # 0 => templates \in 1 .. templateCount
    BY <1>0 DEF EntriesInv, T!NoEntryLost
  <1>5. /\ o.op = user[u].op /\ o.at = w /\ o.entry = user[u].entry
        /\ o.inner = user[u].inner /\ o.reads = templates /\ o \in UserType
        /\ user' = [user EXCEPT ![u] = o]
    BY <1>0, <1>1, <1>2, <1>3 DEF UserType, T!Places, EntriesInv
  <1> HIDE DEF o
  <1>6. PlaceOK(o, templateCount)
    BY <1>1, <1>2, <1>3, <1>4, <1>5 DEF PlaceOK, UserType
  <1>7. /\ UsersInv' /\ user'[u] = o
        /\ \A v \in Users \ {u} : user'[v] = user[v]
    BY <1>0, <1>2, <1>5, <1>6, UserGoesOn
  <1>8. LocksInv'
    BY <1>0, <1>1, <1>2, <1>5, <1>7, LocksRead
  <1>9. EntriesInv' /\ RoomLeft' /\ T!UntoldChangeIsDue'
    <2>1. user[u].at # "lock" /\ user[u].at # "callback" /\ user'[u].at # "lock"
      BY <1>1, <1>2, <1>5, <1>7
    <2> QED BY <1>0, <1>2, <1>7, <2>1, EntriesKept DEF EntriesInv
  <1> QED BY <1>7, <1>8, <1>9 DEF TemplatesIInv

\* and given back.
LEMMA ReadUnlocksStep ==
    ASSUME TemplatesIInv, NEW u \in Users, T!ReadUnlocks(u)
    PROVE  TemplatesIInv'
  <1>0. EntriesInv /\ UsersInv /\ LocksInv /\ NoUser \notin Users
        /\ MaxTemplates \in Nat /\ templateCount \in Nat
    BY RegistriesAssumption DEF TemplatesIInv, EntriesInv
  <1>1. /\ user[u].at = "runlock" /\ locks' = T!Released(u, 0)
        /\ UNCHANGED <<templates, templateCount, removed, enabled, announced, told,
                       calls>>
    BY DEF T!ReadUnlocks
  <1>2. user[u] \in UserType /\ user \in [Users -> UserType]
        /\ PlaceOK(user[u], templateCount)
    BY <1>0 DEF UsersInv
  <1>3. CASE user[u].inner /\ user[u].op # "complete"
    <2> DEFINE o == [user[u] EXCEPT !.at = "unlock", !.inner = FALSE]
    <2>1. /\ o.op = user[u].op /\ o.at = "unlock" /\ o.entry = user[u].entry
          /\ ~o.inner /\ o.reads = user[u].reads /\ o \in UserType
          /\ user' = [user EXCEPT ![u] = o]
      BY <1>2, <1>3 DEF T!ReadUnlocks, UserType, T!Places
    <2> HIDE DEF o
    <2>2. PlaceOK(o, templateCount)
      BY <1>1, <1>2, <1>3, <2>1 DEF PlaceOK, UserType
    <2>3. /\ UsersInv' /\ user'[u] = o
          /\ \A v \in Users \ {u} : user'[v] = user[v]
      BY <1>0, <1>1, <2>1, <2>2, UserGoesOn
    <2>4. LocksInv'
      BY <1>0, <1>1, <1>3, <2>1, <2>3, LocksReadReleased
    <2>5. EntriesInv' /\ RoomLeft' /\ T!UntoldChangeIsDue'
      <3>1. user[u].at = "runlock" /\ user'[u].at # "lock"
        BY <1>1, <2>1, <2>3
      <3> QED BY <1>0, <1>1, <2>3, <3>1, EntriesKept DEF EntriesInv
    <2> QED BY <2>3, <2>4, <2>5 DEF TemplatesIInv
  <1>4. CASE ~(user[u].inner /\ user[u].op # "complete")
    <2>1. user' = [user EXCEPT ![u] = T!Idle]
      BY <1>4 DEF T!ReadUnlocks
    <2>2. T!Idle \in UserType /\ PlaceOK(T!Idle, templateCount)
      BY <1>0 DEF T!Idle, UserType, PlaceOK, WriteOps, HandleOps, T!Places
    <2>3. /\ UsersInv' /\ user'[u] = T!Idle
          /\ \A v \in Users \ {u} : user'[v] = user[v]
      BY <1>0, <1>1, <2>1, <2>2, UserGoesOn
    <2>4. LocksInv'
      BY <1>0, <1>1, <1>4, <2>3, LocksReadReleased
    <2>5. EntriesInv' /\ RoomLeft' /\ T!UntoldChangeIsDue'
      <3>1. user[u].at = "runlock" /\ user'[u].at # "lock"
        BY <1>1, <2>3 DEF T!Idle
      <3> QED BY <1>0, <1>1, <2>3, <3>1, EntriesKept DEF EntriesInv
    <2> QED BY <2>3, <2>4, <2>5 DEF TemplatesIInv
  <1> QED BY <1>3, <1>4

LEMMA TemplatesInitHolds == T!Init => TemplatesIInv
  <1> SUFFICES ASSUME T!Init PROVE TemplatesIInv
    OBVIOUS
  <1>0. MaxTemplates \in Nat \ {0} /\ MaxCalls \in Nat /\ NoUser \notin Users
    BY RegistriesAssumption
  <1>1. EntriesInv
    BY <1>0 DEF T!Init, EntriesInv, T!NoEntryLost, T!Entries
  <1>2. UsersInv
    <2>1. T!Idle \in UserType /\ PlaceOK(T!Idle, templateCount)
      BY <1>0 DEF T!Idle, UserType, PlaceOK, WriteOps, HandleOps, T!Places
    <2> QED BY <2>1 DEF T!Init, UsersInv
  <1>3. LocksInv
    <2>1. T!Free \in LockType
      BY DEF T!Free, LockType
    <2> QED BY <1>0, <2>1 DEF T!Init, LocksInv, LockOK, T!Free, T!Idle, Writes,
               Awaits, Reads
  <1>4. T!UntoldChangeIsDue
    BY DEF T!Init, T!UntoldChangeIsDue
  <1>5. RoomLeft
    <2>1. T!Registering = {}
      BY DEF T!Init, T!Registering, T!Idle
    <2> QED BY <1>0, <2>1, FS_EmptySet DEF T!Init, RoomLeft
  <1> QED BY <1>1, <1>2, <1>3, <1>4, <1>5 DEF TemplatesIInv

LEMMA TemplatesStepHolds == TemplatesIInv /\ [T!Next]_templateVars => TemplatesIInv'
  <1> SUFFICES ASSUME TemplatesIInv, [T!Next]_templateVars PROVE TemplatesIInv'
    OBVIOUS
  <1>1. CASE T!Next
    BY <1>1, BeginWriteStep, BeginReadStep, WriteStep, UnderLockStep, UnlockStep,
       ReadLocksStep, ReadUnlocksStep DEF T!Next, T!Operation
  <1>2. CASE UNCHANGED templateVars
    <2>1. UNCHANGED <<templates, templateCount, removed, enabled, announced, told,
                      locks, user, calls>>
      BY <1>2 DEF templateVars
    <2> QED BY <2>1 DEF TemplatesIInv, EntriesInv, T!NoEntryLost, UsersInv, LocksInv,
               LockOK, T!UntoldChangeIsDue, RoomLeft, T!Registering
  <1> QED BY <1>1, <1>2

LEMMA TemplatesIInvImpliesInv == TemplatesIInv => T!TemplatesInv
  <1> SUFFICES ASSUME TemplatesIInv PROVE T!TemplatesInv
    OBVIOUS
  <1>1. T!TypeOK
    BY DEF TemplatesIInv, EntriesInv, UsersInv, UserType, LocksInv, LockType, T!TypeOK
  <1> QED BY <1>1, NoDeadlockWithoutCallbacks, RegistriesAssumption
          DEF TemplatesIInv, EntriesInv, T!TemplatesInv

(***************************************************************************)
(* All registries                                                          *)
(***************************************************************************)

\* A step of one registry is a step or a stutter of each.
LEMMA RegistriesStep ==
    [RegistriesNext]_registriesVars
        => [Next]_vars /\ [P!Next]_promptVars /\ [T!Next]_templateVars
  BY DEF RegistriesNext, OnTools, OnPrompts, OnTemplates, OnUris, registriesVars

\* server/tools.go: the tool registry never gives out more tokens than it has and
\* gets every one of them back; and whenever nobody is changing them, the entries
\* and the statistics are of the same tools with the same counts, whichever way
\* registrations and executions of one tool interleave; and only the crossing of
\* its two locks stops everybody.
THEOREM PoolAndStatsSound == RegistriesSpec => []Inv
  <1>1. RegistriesInit => ToolsIInv /\ KnownTools
    <2>1. Init => KnownTools
      BY DEF Init, KnownTools
    <2> QED BY <2>1, ToolsInitHolds DEF RegistriesInit
  <1>2. ToolsIInv /\ KnownTools /\ [RegistriesNext]_registriesVars
            => ToolsIInv' /\ KnownTools'
    BY ToolsStepHolds, KnownToolsStep, RegistriesStep
  <1>3. RegistriesSpec => [](ToolsIInv /\ KnownTools)
    BY <1>1, <1>2, PTL DEF RegistriesSpec
  <1> QED BY <1>3, ToolsIInvImpliesInv, PTL

\* server/registry.go, Register (:349, :368) and updateExecutionStats (:428, :446):
\* an execution and a registration that have taken the two locks crosswise never
\* get out of it again, whatever the other goroutines do.
THEOREM CrossedLocksStayCrossed ==
    RegistriesSpec => [][LocksCrossed => LocksCrossed']_registriesVars
  <1>1. RegistriesInit => ToolsIInv
    BY ToolsInitHolds DEF RegistriesInit
  <1>2. ToolsIInv /\ [RegistriesNext]_registriesVars => ToolsIInv'
    BY ToolsStepHolds, RegistriesStep
  <1>3. ToolsIInv /\ [RegistriesNext]_registriesVars => (LocksCrossed => LocksCrossed')
    BY CrossingStays, RegistriesStep
  <1> QED BY <1>1, <1>2, <1>3, PTL DEF RegistriesSpec

\* server/prompts.go: the tokens in use and left are those of the pool, and every
\* entry counts the executions of its own handler.
\* server/resource_template.go: no entry is lost, no change of the list stays
\* untold, and goroutines lock each other out only through a callback that called
\* the registry.
THEOREM PromptsAndTemplatesSound == RegistriesSpec => []OtherRegistriesInv
  <1>1. RegistriesInit => PromptsIInv /\ TemplatesIInv
    BY PromptsInitHolds, TemplatesInitHolds DEF RegistriesInit
  <1>2. PromptsIInv /\ TemplatesIInv /\ [RegistriesNext]_registriesVars
            => PromptsIInv' /\ TemplatesIInv'
    BY PromptsStepHolds, TemplatesStepHolds, RegistriesStep
  <1>3. PromptsIInv /\ TemplatesIInv => OtherRegistriesInv
    BY TemplatesIInvImpliesInv DEF PromptsIInv, OtherRegistriesInv
  <1> QED BY <1>1, <1>2, <1>3, PTL DEF RegistriesSpec

=============================================================================
