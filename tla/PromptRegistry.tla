--------------------------- MODULE PromptRegistry ---------------------------
(***************************************************************************)
(* server/registry.go, PromptRegistry: prompts that are registered, also   *)
(* anew, while goroutines execute them with a token of the pool.  Execute  *)
(* counts a use on the entry it found at the start, which Register may     *)
(* have replaced since.  One name is enough: prompts share only the pool.  *)
(* The entries made for it are numbered in order.                          *)
(***************************************************************************)
EXTENDS Naturals, FiniteSets

CONSTANTS
    Prompters,       \* goroutines that call Execute
    PromptWorkers,   \* the capacity of workerPool
    MaxPrompts,      \* bound on the registrations
    MaxUses          \* bound on the executions of one prompter

VARIABLES
    prompt,          \* the entry prompts holds for the name: the latest, 0 for none
    usage,           \* usage[e]: UsageCount of entry e
    promptTokens,    \* the length of workerPool
    prompter,        \* prompter[p]: where Execute is, with the entry it found
    uses,            \* uses[p]: executions p has begun
    called           \* called[e]: calls of the handler of entry e

promptVars == <<prompt, usage, promptTokens, prompter, uses, called>>

\* A new entry replaces the one there may be.
Register ==
    /\ prompt < MaxPrompts
    /\ prompt' = prompt + 1
    /\ UNCHANGED <<usage, promptTokens, prompter, uses, called>>

\* The lookup under mu.RLock(); an unknown prompt ends the call.
LooksUp(p) ==
    /\ prompter[p].at = "idle"
    /\ uses[p] < MaxUses
    /\ uses' = [uses EXCEPT ![p] = @ + 1]
    /\ prompter' = IF prompt = 0 THEN prompter
                   ELSE [prompter EXCEPT ![p] = [at |-> "acquire", entry |-> prompt]]
    /\ UNCHANGED <<prompt, usage, promptTokens, called>>

Acquires(p) ==
    /\ prompter[p].at = "acquire"
    /\ promptTokens > 0
    /\ promptTokens' = promptTokens - 1
    /\ prompter' = [prompter EXCEPT ![p].at = "handling"]
    /\ called' = [called EXCEPT ![prompter[p].entry] = @ + 1]
    /\ UNCHANGED <<prompt, usage, uses>>

\* The context is done before there is a token.
GivesUp(p) ==
    /\ prompter[p].at = "acquire"
    /\ prompter' = [prompter EXCEPT ![p].at = "idle"]
    /\ UNCHANGED <<prompt, usage, promptTokens, uses, called>>

\* The handler has returned, with a message or an error; under mu.Lock().
Counts(p) ==
    /\ prompter[p].at = "handling"
    /\ usage' = [usage EXCEPT ![prompter[p].entry] = @ + 1]
    /\ prompter' = [prompter EXCEPT ![p].at = "release"]
    /\ UNCHANGED <<prompt, promptTokens, uses, called>>

\* The deferred release of the token.
Releases(p) ==
    /\ prompter[p].at = "release"
    /\ promptTokens' = promptTokens + 1
    /\ prompter' = [prompter EXCEPT ![p].at = "idle"]
    /\ UNCHANGED <<prompt, usage, uses, called>>

\* NewPromptRegistry.
Init ==
    /\ prompt = 0
    /\ usage = [e \in 1 .. MaxPrompts |-> 0]
    /\ promptTokens = PromptWorkers
    /\ prompter = [p \in Prompters |-> [at |-> "idle", entry |-> 0]]
    /\ uses = [p \in Prompters |-> 0]
    /\ called = usage

Execute(p) == Acquires(p) \/ Counts(p) \/ Releases(p)

Next == \/ Register
        \/ \E p \in Prompters : LooksUp(p) \/ GivesUp(p) \/ Execute(p)

(***************************************************************************)
(* Properties                                                              *)
(***************************************************************************)
TypeOK ==
    /\ prompt \in 0 .. MaxPrompts
    /\ usage \in [1 .. MaxPrompts -> Nat]
    /\ promptTokens \in 0 .. PromptWorkers
    /\ prompter \in [Prompters -> [at : {"idle", "acquire", "handling", "release"},
                                   entry : 0 .. MaxPrompts]]
    /\ uses \in [Prompters -> 0 .. MaxUses]

    /\ called \in [1 .. MaxPrompts -> Nat]

At(places) == {p \in Prompters : prompter[p].at \in places}

\* Tokens are in the pool or with an execution that is past it.
TokensConserved ==
    promptTokens + Cardinality(At({"handling", "release"})) = PromptWorkers

\* An entry counts the calls of its own handler and no others, also those that
\* end when the prompt has been registered anew.
UsageIsOwn ==
    \A e \in 1 .. MaxPrompts :
        usage[e] + Cardinality({p \in At({"handling"}) : prompter[p].entry = e})
            = called[e]

\* The pool is conserved and every use is counted on the entry that was used.
PromptsInv == TypeOK /\ TokensConserved /\ UsageIsOwn

=============================================================================
