---------------------------- MODULE ToolRegistry ----------------------------
(***************************************************************************)
(* server/registry.go, ToolRegistry: tools that are registered and         *)
(* executed by concurrent goroutines, at most MaxConcurrentExecutions at a *)
(* time, with statistics kept in two places: executionStats, under statsMu,*)
(* and the entry of the tool, under mu.  Register takes mu and then        *)
(* statsMu; updateExecutionStats takes statsMu and then mu.                *)
(***************************************************************************)
EXTENDS Naturals, FiniteSets

CONSTANTS
    Names,                   \* names of tools
    Callers,                 \* goroutines that call Execute
    Registrars,              \* goroutines that call Register
    Nobody,                  \* the owner of a free lock
    MaxConcurrentExecutions, \* the capacity of workerPool
    MaxExecutions,           \* bound on the executions of one caller
    MaxRegistrations         \* bound on the registrations of one registrar

ASSUME ConstantsAssumption ==
    /\ Names # {}
    /\ IsFiniteSet(Callers)
    /\ MaxConcurrentExecutions \in Nat \ {0}
    /\ MaxExecutions \in Nat
    /\ MaxRegistrations \in Nat
    /\ Callers \cap Registrars = {}
    /\ Nobody \notin Callers \cup Registrars

VARIABLES
    tools,          \* names that have an entry in tools and handlers
    entryCount,     \* entryCount[n]: ExecutionCount of the entry of n
    measured,       \* names that have an entry in executionStats
    stats,          \* stats[n]: the counts of executionStats[n]
    mu,             \* the goroutine that holds mu for writing
    statsMu,        \* the goroutine that holds statsMu for writing
    tokens,         \* the length of workerPool
    caller,         \* caller[c]: where Execute is, for which tool
    executions,     \* executions[c]: executions c has begun
    registrar,      \* registrar[g]: where Register is, for which tool
    registrations   \* registrations[g]: registrations g has begun

vars == <<tools, entryCount, measured, stats, mu, statsMu, tokens, caller,
          executions, registrar, registrations>>

NoCounts == [runs |-> 0, errors |-> 0]

(***************************************************************************)
(* Register                                                                *)
(***************************************************************************)

\* Called; it waits for mu.
RegisterCalled(g, n) ==
    /\ registrar[g].at = "idle"
    /\ registrations[g] < MaxRegistrations
    /\ registrations' = [registrations EXCEPT ![g] = @ + 1]
    /\ registrar' = [registrar EXCEPT ![g] = [at |-> "lock", tool |-> n]]
    /\ UNCHANGED <<tools, entryCount, measured, stats, mu, statsMu, tokens,
                   caller, executions>>

\* mu.Lock() and, under it, a new entry with its counts at zero.
RegisterStores(g) ==
    /\ registrar[g].at = "lock"
    /\ mu = Nobody
    /\ mu' = g
    /\ tools' = tools \cup {registrar[g].tool}
    /\ entryCount' = [entryCount EXCEPT ![registrar[g].tool] = 0]
    /\ registrar' = [registrar EXCEPT ![g].at = "statsLock"]
    /\ UNCHANGED <<measured, stats, statsMu, tokens, caller, executions,
                   registrations>>

\* statsMu.Lock() while holding mu, new statistics, and both are released.
RegisterResetsStats(g) ==
    /\ registrar[g].at = "statsLock"
    /\ statsMu = Nobody
    /\ measured' = measured \cup {registrar[g].tool}
    /\ stats' = [stats EXCEPT ![registrar[g].tool] = NoCounts]
    /\ mu' = Nobody
    /\ registrar' = [registrar EXCEPT ![g].at = "idle"]
    /\ UNCHANGED <<tools, entryCount, statsMu, tokens, caller, executions,
                   registrations>>

(***************************************************************************)
(* Execute                                                                 *)
(***************************************************************************)

\* The lookup under mu.RLock(); a tool that is not found ends the call.
ExecuteLooksUp(c, n) ==
    /\ caller[c].at = "idle"
    /\ executions[c] < MaxExecutions
    /\ mu = Nobody
    /\ executions' = [executions EXCEPT ![c] = @ + 1]
    /\ IF n \in tools
       THEN caller' = [caller EXCEPT ![c] = [@ EXCEPT !.at = "acquire", !.tool = n]]
       ELSE UNCHANGED caller
    /\ UNCHANGED <<tools, entryCount, measured, stats, mu, statsMu, tokens,
                   registrar, registrations>>

ExecuteAcquires(c) ==
    /\ caller[c].at = "acquire"
    /\ tokens > 0
    /\ tokens' = tokens - 1
    /\ caller' = [caller EXCEPT ![c].at = "handling"]
    /\ UNCHANGED <<tools, entryCount, measured, stats, mu, statsMu,
                   executions, registrar, registrations>>

\* The caller's context is done before there is a token.
ExecuteGivesUp(c) ==
    /\ caller[c].at = "acquire"
    /\ caller' = [caller EXCEPT ![c].at = "idle"]
    /\ UNCHANGED <<tools, entryCount, measured, stats, mu, statsMu, tokens,
                   executions, registrar, registrations>>

\* The handler returns, with a result or an error.
HandlerReturns(c, failed) ==
    /\ caller[c].at = "handling"
    /\ caller' = [caller EXCEPT ![c].at = "statsLock", ![c].failed = failed]
    /\ UNCHANGED <<tools, entryCount, measured, stats, mu, statsMu, tokens,
                   executions, registrar, registrations>>

\* Mutated form: statsMu is released before the entry is updated.
UpdateReleasesEarly(c) ==
    /\ caller[c].at = "statsLock"
    /\ statsMu = Nobody
    /\ caller[c].tool \in measured
    /\ UNCHANGED statsMu
    /\ stats' = [stats EXCEPT ![caller[c].tool] =
                    [runs |-> @.runs + 1,
                     errors |-> @.errors + IF caller[c].failed THEN 1 ELSE 0]]
    /\ caller' = [caller EXCEPT ![c].at = "entryLock"]
    /\ UNCHANGED <<tools, entryCount, measured, mu, tokens, executions,
                   registrar, registrations>>

\* updateExecutionStats up to mu.Lock().  A tool that was found has statistics:
\* Register puts them there before it releases mu, and nothing removes them.
UpdateCounts(c) ==
    /\ caller[c].at = "statsLock"
    /\ statsMu = Nobody
    /\ caller[c].tool \in measured
    /\ statsMu' = c
    /\ stats' = [stats EXCEPT ![caller[c].tool] =
                    [runs |-> @.runs + 1,
                     errors |-> @.errors + IF caller[c].failed THEN 1 ELSE 0]]
    /\ caller' = [caller EXCEPT ![c].at = "entryLock"]
    /\ UNCHANGED <<tools, entryCount, measured, mu, tokens, executions,
                   registrar, registrations>>

\* mu.Lock() while holding statsMu; the entry gets the new count and both locks
\* are released.
UpdateEntry(c) ==
    /\ caller[c].at = "entryLock"
    /\ mu = Nobody
    /\ entryCount' = [entryCount EXCEPT ![caller[c].tool] =
                         stats[caller[c].tool].runs]
    /\ statsMu' = Nobody
    /\ caller' = [caller EXCEPT ![c].at = "release"]
    /\ UNCHANGED <<tools, measured, stats, mu, tokens, executions, registrar,
                   registrations>>

\* Mutated form: the token is kept.
ExecuteKeepsToken(c) ==
    /\ caller[c].at = "release"
    /\ caller' = [caller EXCEPT ![c].at = "idle"]
    /\ UNCHANGED <<tools, entryCount, measured, stats, mu, statsMu, tokens,
                   executions, registrar, registrations>>

\* The deferred release of the token, on success and on error.
ExecuteReleases(c) ==
    /\ caller[c].at = "release"
    /\ tokens < MaxConcurrentExecutions
    /\ tokens' = tokens + 1
    /\ caller' = [caller EXCEPT ![c].at = "idle"]
    /\ UNCHANGED <<tools, entryCount, measured, stats, mu, statsMu,
                   executions, registrar, registrations>>

(***************************************************************************)
(* The specification                                                       *)
(***************************************************************************)
\* NewToolRegistry.
Init ==
    /\ tools = {}
    /\ entryCount = [n \in Names |-> 0]
    /\ measured = {}
    /\ stats = [n \in Names |-> NoCounts]
    /\ mu = Nobody
    /\ statsMu = Nobody
    /\ tokens = MaxConcurrentExecutions
    /\ caller = [c \in Callers |->
                    [at |-> "idle", tool |-> CHOOSE n \in Names : TRUE,
                     failed |-> FALSE]]
    /\ executions = [c \in Callers |-> 0]
    /\ registrar = [g \in Registrars |->
                       [at |-> "idle", tool |-> CHOOSE n \in Names : TRUE]]
    /\ registrations = [g \in Registrars |-> 0]

Register(g) == RegisterStores(g) \/ RegisterResetsStats(g)

Execute(c) == \/ ExecuteAcquires(c)
              \/ \E failed \in BOOLEAN : HandlerReturns(c, failed)
              \/ UpdateCounts(c)
              \/ UpdateEntry(c)
              \/ ExecuteReleases(c)

Next == \/ \E g \in Registrars : \/ \E n \in Names : RegisterCalled(g, n)
                                 \/ Register(g)
        \/ \E c \in Callers : \/ \E n \in Names : ExecuteLooksUp(c, n)
                              \/ Execute(c)
                              \/ ExecuteGivesUp(c)

Spec == Init /\ [][Next]_vars

\* Goroutines run, handlers return within their deadline, and a lock or token
\* that stays free goes to one of those that wait for it.
Fairness == /\ \A g \in Registrars : WF_vars(Register(g))
            /\ \A c \in Callers : WF_vars(Execute(c))

FairSpec == Spec /\ Fairness

(***************************************************************************)
(* Properties                                                              *)
(***************************************************************************)
CallerPlaces == {"idle", "acquire", "handling", "statsLock", "entryLock", "release"}

\* Type invariant of the registry and its callers.
TypeOK ==
    /\ tools \subseteq Names
    /\ entryCount \in [Names -> Nat]
    /\ measured \subseteq Names
    /\ stats \in [Names -> [runs : Nat, errors : Nat]]
    /\ mu \in Registrars \cup {Nobody}
    /\ statsMu \in Callers \cup {Nobody}
    /\ tokens \in 0 .. MaxConcurrentExecutions
    /\ caller \in [Callers -> [at : CallerPlaces, tool : Names, failed : BOOLEAN]]
    /\ executions \in [Callers -> 0 .. MaxExecutions]
    /\ registrar \in [Registrars -> [at : {"idle", "lock", "statsLock"}, tool : Names]]
    /\ registrations \in [Registrars -> 0 .. MaxRegistrations]

Holding == {c \in Callers :
               caller[c].at \in {"handling", "statsLock", "entryLock", "release"}}

\* The pool's tokens are those in workerPool and those of the executions that
\* are under way, whether they succeed, fail or give up waiting.
TokensConserved == tokens + Cardinality(Holding) = MaxConcurrentExecutions

\* The two places that count the executions of a tool agree whenever no one is
\* in the middle of changing them, also when the tool is registered anew while
\* it is being executed.
StatsAgree ==
    mu = Nobody /\ statsMu = Nobody =>
        /\ tools = measured
        /\ \A n \in Names : entryCount[n] = stats[n].runs

\* An execution that holds statsMu and waits for mu, and a registration that
\* holds mu and waits for statsMu.
LocksCrossed ==
    /\ \E c \in Callers : statsMu = c /\ caller[c].at = "entryLock"
    /\ \E g \in Registrars : mu = g /\ registrar[g].at = "statsLock"

\* What the next step of a goroutine waits for has come.
RegistrarMayGoOn(g) ==
    \/ registrar[g].at = "lock" /\ mu = Nobody
    \/ registrar[g].at = "statsLock" /\ statsMu = Nobody

CallerMayGoOn(c) ==
    \/ caller[c].at = "acquire" /\ tokens > 0
    \/ caller[c].at = "handling"
    \/ /\ caller[c].at = "statsLock" /\ statsMu = Nobody
       /\ caller[c].tool \in measured
    \/ caller[c].at = "entryLock" /\ mu = Nobody
    \/ caller[c].at = "release" /\ tokens < MaxConcurrentExecutions

UnderWay == \/ \E g \in Registrars : registrar[g].at # "idle"
            \/ \E c \in Callers : caller[c].at # "idle"

\* Whoever waits for a lock, for a token or for statistics, somebody in the
\* registry can go on, unless the two locks have been taken crosswise: the pool
\* and the statistics add no deadlock of their own.
OnlyCrossedLocksBlock ==
    UnderWay => \/ \E g \in Registrars : RegistrarMayGoOn(g)
                \/ \E c \in Callers : CallerMayGoOn(c)
                \/ LocksCrossed

\* The type invariant, the conservation of tokens, the agreement of the counts
\* and the absence of other deadlocks, as one invariant.
Inv == TypeOK /\ TokensConserved /\ StatsAgree /\ OnlyCrossedLocksBlock

\* Every execution comes back to its caller.
ExecuteReturns ==
    \A c \in Callers : caller[c].at # "idle" ~> caller[c].at = "idle"

\* Nothing else keeps an execution from coming back: neither an exhausted pool
\* nor a failing handler nor any number of registrations one after the other.
ExecuteReturnsOrLocksCross ==
    \A c \in Callers :
        caller[c].at # "idle" ~> caller[c].at = "idle" \/ LocksCrossed

=============================================================================
