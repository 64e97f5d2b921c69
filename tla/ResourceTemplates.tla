------------------------- MODULE ResourceTemplates --------------------------
(***************************************************************************)
(* server/resource_template.go: templates that are registered, updated,    *)
(* listed and removed by concurrent goroutines.  The registry has a        *)
(* read-write lock, and so has each entry; both are sync.RWMutex, which    *)
(* lets no new reader in while a writer waits.                             *)
(*                                                                         *)
(* Callbacks of the user run under the locks: the one for list changes     *)
(* under the registry's (register, unregister) or the entry's (update),    *)
(* a completion callback under the registry's read lock.  A callback may   *)
(* call the registry.                                                      *)
(*                                                                         *)
(* One name is enough, since no operation holds the locks of two entries.  *)
(* The entries made for the name are numbered in order.                    *)
(***************************************************************************)
EXTENDS Naturals, FiniteSets

CONSTANTS
    Users,           \* goroutines that use the registry
    NoUser,          \* the writer of a lock nobody holds for writing
    MaxTemplates,    \* bound on the entries that are made
    MaxCalls,        \* bound on the calls of one user
    Reentrant        \* whether the callbacks may call the registry

Entries == 1 .. MaxTemplates

VARIABLES
    templates,       \* the entry the registry holds for the name, 0 for none
    templateCount,   \* entries made so far
    removed,         \* entries that UnregisterTemplate took out
    enabled,         \* enabled[e]: RegisteredResourceTemplate.Enabled
    announced,       \* onResourceListChanged is set
    told,            \* the list changed and the callback has not run since
    locks,           \* locks[l]: lock 0 is the registry's, lock e that of entry e
    user,            \* user[u]: the operation u is in, where, on which entry
    calls            \* calls[u]: operations u has begun

templateVars == <<templates, templateCount, removed, enabled, announced, told,
                  locks, user, calls>>

(***************************************************************************)
(* sync.RWMutex                                                            *)
(***************************************************************************)
Free == [writer |-> NoUser, readers |-> {}, waiting |-> {}]

MayRead(l) == locks[l].writer = NoUser /\ locks[l].waiting = {}

MayWrite(u, l) ==
    u \in locks[l].waiting /\ locks[l].writer = NoUser /\ locks[l].readers = {}

Queued(u, l) == [locks EXCEPT ![l].waiting = @ \cup {u}]
ReadLocked(u, l) == [locks EXCEPT ![l].readers = @ \cup {u}]
WriteLocked(u, l) == [locks EXCEPT ![l].writer = u, ![l].waiting = @ \ {u}]
Released(u, l) == [locks EXCEPT ![l].writer = IF @ = u THEN NoUser ELSE @,
                                ![l].readers = @ \ {u}]

(***************************************************************************)
(* The operations that write: registration, removal and the setting of the *)
(* callback take the registry's lock, Update (Enable, Disable) an entry's. *)
(***************************************************************************)
Idle == [op |-> "none", at |-> "idle", entry |-> 0, reads |-> 0, inner |-> FALSE]

At(u, where) == user' = [user EXCEPT ![u].at = where]

Begin(u, op, where, e) ==
    /\ user[u] = Idle
    /\ calls[u] < MaxCalls
    /\ calls' = [calls EXCEPT ![u] = @ + 1]
    /\ user' = [user EXCEPT ![u] = [Idle EXCEPT !.op = op, !.at = where, !.entry = e]]
    /\ UNCHANGED <<templates, templateCount, removed, enabled, announced, told>>

\* Registrations that wait for the lock.
Registering == {u \in Users : user[u].op = "register" /\ user[u].at = "lock"}

\* A handle that RegisterTemplate has returned knows its entry for good.
BeginWrite(u) ==
    \E op \in {"set", "register", "unregister", "enable", "disable"} :
    \E e \in IF op \in {"enable", "disable"} THEN 1 .. templateCount ELSE {0} :
        /\ op = "register" => templateCount + Cardinality(Registering) < MaxTemplates
        /\ Begin(u, op, "lock", e)
        /\ locks' = Queued(u, e)

SetResourceListChangedCallback(u) ==
    /\ user[u].op = "set"
    /\ announced' = TRUE
    /\ At(u, "unlock")
    /\ UNCHANGED <<templates, templateCount, removed, enabled, told>>

\* Mutated form: a registration replaces the entry there may be.
RegisterReplaces(u) ==
    /\ user[u].op = "register"
    /\ templateCount' = templateCount + 1
    /\ templates' = templateCount + 1
    /\ told' = FALSE
    /\ At(u, "callback")
    /\ UNCHANGED <<removed, enabled, announced>>

\* A name that is taken is refused.
RegisterTemplate(u) ==
    /\ user[u].op = "register"
    /\ IF templates # 0
       THEN /\ At(u, "unlock")
            /\ UNCHANGED <<templates, templateCount, told>>
       ELSE /\ templateCount' = templateCount + 1
            /\ templates' = templateCount + 1
            /\ told' = FALSE
            /\ At(u, "callback")
    /\ UNCHANGED <<removed, enabled, announced>>

\* Whatever entry has the name by now is taken out, and the callback runs even
\* if there is none.
UnregisterTemplate(u) ==
    /\ user[u].op = "unregister"
    /\ templates' = 0
    /\ removed' = removed \cup ({templates} \ {0})
    /\ told' = (told /\ templates = 0)
    /\ At(u, "callback")
    /\ UNCHANGED <<templateCount, enabled, announced>>

Update(u) ==
    /\ user[u].op \in {"enable", "disable"}
    /\ enabled' = [enabled EXCEPT ![user[u].entry] = (user[u].op = "enable")]
    /\ told' = (told /\ (enabled' = enabled \/ user[u].entry # templates))
    /\ At(u, "callback")
    /\ UNCHANGED <<templates, templateCount, removed, announced>>

Write(u) ==
    /\ user[u].at = "lock"
    /\ MayWrite(u, user[u].entry)
    /\ locks' = WriteLocked(u, user[u].entry)
    /\ \/ SetResourceListChangedCallback(u)
       \/ RegisterTemplate(u)
       \/ UnregisterTemplate(u)
       \/ Update(u)
    /\ UNCHANGED calls

\* onResourceListChanged, when it is set, runs under the lock; it may list the
\* templates.
Callback(u) ==
    /\ user[u].at = "callback"
    /\ told' = TRUE
    /\ \/ At(u, "unlock")
       \/ /\ announced /\ Reentrant
          /\ user' = [user EXCEPT ![u].at = "rlock", ![u].inner = TRUE]
    /\ UNCHANGED <<templates, templateCount, removed, enabled, announced, locks, calls>>

Unlock(u) ==
    /\ user[u].at = "unlock"
    /\ locks' = Released(u, user[u].entry)
    /\ user' = [user EXCEPT ![u] = Idle]
    /\ UNCHANGED <<templates, templateCount, removed, enabled, announced, told, calls>>

(***************************************************************************)
(* The operations that read: "list" is ListTemplates, FindTemplateForURI   *)
(* and the first half of ListResources, "complete" CompleteParameter.      *)
(***************************************************************************)
BeginRead(u) ==
    /\ \E op \in {"list", "complete"} : Begin(u, op, "rlock", 0)
    /\ UNCHANGED locks

Steps(u, where) ==
    /\ At(u, where)
    /\ UNCHANGED <<templates, templateCount, removed, enabled, announced, told,
                   locks, calls>>

ReadLocks(u) ==
    /\ user[u].at = "rlock"
    /\ MayRead(0)
    /\ locks' = ReadLocked(u, 0)
    /\ user' = [user EXCEPT ![u].at = IF templates = 0 THEN "runlock" ELSE "check",
                            ![u].reads = templates]
    /\ UNCHANGED <<templates, templateCount, removed, enabled, announced, told, calls>>

\* IsEnabled takes the lock of the entry and gives it back.
ReadsEntry(u) ==
    /\ user[u].at = "check"
    /\ MayRead(user[u].reads)
    /\ Steps(u, IF user[u].op = "complete" /\ enabled[user[u].reads]
                THEN "completing" ELSE "runlock")

\* The completion callback, under the registry's read lock; it may look a
\* template up.
Completes(u) ==
    /\ user[u].at = "completing"
    /\ \/ Steps(u, "runlock")
       \/ /\ Reentrant
          /\ user' = [user EXCEPT ![u].at = "again", ![u].inner = TRUE]
          /\ UNCHANGED <<templates, templateCount, removed, enabled, announced,
                         told, locks, calls>>

\* GetTemplate: a second read lock of the same goroutine, given back at once.
LooksUpAgain(u) ==
    /\ user[u].at = "again"
    /\ MayRead(0)
    /\ Steps(u, "runlock")

\* Mutated form: the return for an unknown template keeps the lock.
ReadKeepsLock(u) ==
    /\ user[u].at = "runlock"
    /\ locks' = IF user[u].reads = 0 THEN locks ELSE Released(u, 0)
    /\ user' = [user EXCEPT ![u] = Idle]
    /\ UNCHANGED <<templates, templateCount, removed, enabled, announced, told, calls>>

\* The read lock is given back, by the caller's return or in a callback.
ReadUnlocks(u) ==
    /\ user[u].at = "runlock"
    /\ locks' = Released(u, 0)
    /\ user' = IF user[u].inner /\ user[u].op # "complete"
               THEN [user EXCEPT ![u].at = "unlock", ![u].inner = FALSE]
               ELSE [user EXCEPT ![u] = Idle]
    /\ UNCHANGED <<templates, templateCount, removed, enabled, announced, told, calls>>

\* NewResourceTemplateRegistry, or the registry with one template in it.
Init ==
    /\ templates \in {0, 1}
    /\ templateCount = templates
    /\ removed = {}
    /\ enabled = [e \in Entries |-> TRUE]
    /\ announced \in BOOLEAN
    /\ told = TRUE
    /\ locks = [l \in 0 .. MaxTemplates |-> Free]
    /\ user = [u \in Users |-> Idle]
    /\ calls = [u \in Users |-> 0]

Operation(u) == \/ Write(u)
                \/ Callback(u)
                \/ Unlock(u)
                \/ ReadLocks(u)
                \/ ReadsEntry(u)
                \/ Completes(u)
                \/ LooksUpAgain(u)
                \/ ReadUnlocks(u)

Next == \E u \in Users : BeginWrite(u) \/ BeginRead(u) \/ Operation(u)

(***************************************************************************)
(* Properties                                                              *)
(***************************************************************************)
Places == {"idle", "lock", "callback", "unlock", "rlock", "check", "completing",
           "again", "runlock"}

TypeOK ==
    /\ templates \in 0 .. MaxTemplates
    /\ templateCount \in 0 .. MaxTemplates
    /\ removed \subseteq Entries
    /\ enabled \in [Entries -> BOOLEAN]
    /\ announced \in BOOLEAN
    /\ told \in BOOLEAN
    /\ locks \in [0 .. MaxTemplates -> [writer : Users \cup {NoUser},
                                        readers : SUBSET Users,
                                        waiting : SUBSET Users]]
    /\ \A u \in Users : user[u].at \in Places
    /\ calls \in [Users -> 0 .. MaxCalls]

\* An entry whose handle was given out is in the registry until somebody
\* unregisters its name: registration never replaces it.
NoEntryLost == 1 .. templateCount = removed \cup ({templates} \ {0})

\* A change of the list that the callback has not heard of is one whose
\* goroutine still holds the lock and is about to call it.
UntoldChangeIsDue == told \/ \E u \in Users : user[u].at = "callback"

\* The lock a goroutine waits for, to read.
WaitsToRead(u) == CASE user[u].at \in {"rlock", "again"} -> {0}
                    [] user[u].at = "check" -> {user[u].reads}
                    [] OTHER -> {}

\* u cannot go on before v has: v holds, or as a writer is next for, its lock.
WaitsFor(u, v) ==
    \/ /\ user[u].at = "lock"
       /\ v \in locks[user[u].entry].readers \cup {locks[user[u].entry].writer}
    \/ \E l \in WaitsToRead(u) : v \in locks[l].waiting \cup {locks[l].writer}

\* Goroutines each of which waits for another one of them, or for itself.
Deadlocked(S) == S # {} /\ \A u \in S : \E v \in S : WaitsFor(u, v)

\* Registration, updates, listing and completion never lock each other out by
\* themselves: there is always a callback among them that called the registry.
OnlyCallbacksDeadlock ==
    \A S \in SUBSET Users : Deadlocked(S) => \E u \in S : user[u].inner

TemplatesInv ==
    TypeOK /\ NoEntryLost /\ UntoldChangeIsDue /\ OnlyCallbacksDeadlock

\* Every operation returns, unless callbacks have led to a deadlock.
OperationsReturn ==
    \A u \in Users : user[u] # Idle ~>
        user[u] = Idle \/ \E S \in SUBSET Users : Deadlocked(S)

\* Every operation returns.  (Callbacks that call the registry prevent it.)
CallbacksReturn == \A u \in Users : user[u] # Idle ~> user[u] = Idle

=============================================================================
