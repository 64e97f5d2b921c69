---------------------------- MODULE ServerCatalog ---------------------------
(***************************************************************************)
(* server/server.go: the resources, tools and prompts that a server offers *)
(* while it runs.  The three kinds have the same code, each with a lock of *)
(* its own: Register and Unregister change the maps of handlers and of     *)
(* descriptions in one critical section and announce the change after it;  *)
(* a list takes a snapshot under the lock; a call looks the handler up     *)
(* under the lock and runs it after.                                       *)
(*                                                                         *)
(* The client is one that uses client.Client the way the notifications are *)
(* meant for: it lists a kind again whenever it was told that the list has *)
(* changed, and does one thing at a time.                                  *)
(***************************************************************************)
EXTENDS Naturals, Sequences

CONSTANTS
    Kinds,        \* resources, tools, prompts
    Announced,    \* the kinds whose capability has ListChanged
    Names,        \* URIs and names
    Updaters,     \* goroutines that register and unregister
    OutboxSize,   \* capacity of the transport's outgoing channel
    MaxChanges,   \* bound on the registrations and removals
    MaxCalls      \* bound on the calls of the client

ASSUME CatalogAssumption ==
    /\ Announced \subseteq Kinds
    /\ OutboxSize \in Nat \ {0}
    /\ MaxChanges \in Nat
    /\ MaxCalls \in Nat

Absent == 0

\* What is offered under each name: the number of the change that put it there.
Catalogs == [Names -> 0 .. MaxChanges]

VARIABLES
    catalog,        \* catalog[k]: handlers and descriptions of kind k
    changes,        \* changes made so far
    updater,        \* updater[u]: the kind whose change u has yet to announce
    toClient,       \* what the transport has yet to deliver to the client
    work,           \* the client's request, as far as the server is with it
    view,           \* view[k]: the list the client has got last
    stale,          \* kinds the client has been told to list again
    calls,          \* calls the client has made
    connectionDone  \* the transport's context is done

catalogVars == <<catalog, changes, updater, toClient, work, view, stale, calls,
                 connectionDone>>

Nothing == [at |-> "idle"]
Announcement(k) == [type |-> "notification", kind |-> k]
ListAnswer(k, list) == [type |-> "list", kind |-> k, list |-> list]
CallAnswer(k, n, found) ==
    [type |-> "call", kind |-> k, name |-> n, found |-> found]

\* transport.SendNotification and transport.SendResponse; both errors are
\* ignored.
Send(m) ==
    \/ /\ Len(toClient) < OutboxSize
       /\ toClient' = Append(toClient, m)
    \/ /\ connectionDone
       /\ UNCHANGED toClient

(***************************************************************************)
(* The server's maps                                                       *)
(***************************************************************************)

\* RegisterResource, RegisterTool and RegisterPrompt: a new entry, or another
\* one for a name that is taken.
Register(u, k, n) ==
    /\ updater[u] = {}
    /\ changes < MaxChanges
    /\ changes' = changes + 1
    /\ catalog' = [catalog EXCEPT ![k][n] = changes + 1]
    /\ updater' = [updater EXCEPT ![u] = {k} \cap Announced]
    /\ UNCHANGED <<toClient, work, view, stale, calls, connectionDone>>

\* Mutated form: removing a resource is not announced.
UnregisterSilently(u, k, n) ==
    /\ updater[u] = {}
    /\ changes < MaxChanges
    /\ catalog[k][n] # Absent
    /\ changes' = changes + 1
    /\ catalog' = [catalog EXCEPT ![k][n] = Absent]
    /\ UNCHANGED <<updater, toClient, work, view, stale, calls, connectionDone>>

\* UnregisterResource, UnregisterTool and UnregisterPrompt; they return false
\* and do nothing for a name that is not there.
Unregister(u, k, n) ==
    /\ updater[u] = {}
    /\ changes < MaxChanges
    /\ catalog[k][n] # Absent
    /\ changes' = changes + 1
    /\ catalog' = [catalog EXCEPT ![k][n] = Absent]
    /\ updater' = [updater EXCEPT ![u] = {k} \cap Announced]
    /\ UNCHANGED <<toClient, work, view, stale, calls, connectionDone>>

\* The notification list_changed, sent after the lock has been released.
Announces(u) ==
    \E k \in updater[u] :
        /\ Send(Announcement(k))
        /\ updater' = [updater EXCEPT ![u] = {}]
        /\ UNCHANGED <<catalog, changes, work, view, stale, calls,
                       connectionDone>>

(***************************************************************************)
(* The server's handlers                                                   *)
(***************************************************************************)

\* Mutated form: a list that was taken before is answered.
ListsFromView ==
    /\ work.at = "list"
    /\ work' = [at |-> "answer",
                message |-> ListAnswer(work.kind, view[work.kind])]
    /\ UNCHANGED <<catalog, changes, updater, toClient, view, stale, calls,
                   connectionDone>>

\* handleResourcesList, handleToolsList and handlePromptsList.
Lists ==
    /\ work.at = "list"
    /\ work' = [at |-> "answer",
                message |-> ListAnswer(work.kind, catalog[work.kind])]
    /\ UNCHANGED <<catalog, changes, updater, toClient, view, stale, calls,
                   connectionDone>>

\* handleResourcesRead, handleToolsCall and handlePromptsGet: the lookup.
LooksUp ==
    /\ work.at = "call"
    /\ work' = [at |-> IF catalog[work.kind][work.name] = Absent
                       THEN "answer" ELSE "handler",
                message |-> CallAnswer(work.kind, work.name,
                               catalog[work.kind][work.name] # Absent)]
    /\ UNCHANGED <<catalog, changes, updater, toClient, view, stale, calls,
                   connectionDone>>

\* The handler, which may have been removed meanwhile, returns.
CalledHandlerReturns ==
    /\ work.at = "handler"
    /\ work' = [work EXCEPT !.at = "answer"]
    /\ UNCHANGED <<catalog, changes, updater, toClient, view, stale, calls,
                   connectionDone>>

Answers ==
    /\ work.at = "answer"
    /\ Send(work.message)
    /\ work' = [at |-> "sent"]
    /\ UNCHANGED <<catalog, changes, updater, view, stale, calls,
                   connectionDone>>

(***************************************************************************)
(* The client and the transport                                            *)
(***************************************************************************)
ClientLists(k) ==
    /\ work = Nothing
    /\ k \in stale
    /\ stale' = stale \ {k}
    /\ work' = [at |-> "list", kind |-> k]
    /\ UNCHANGED <<catalog, changes, updater, toClient, view, calls,
                   connectionDone>>

\* The client calls what it believes to be there.
ClientCalls(k, n) ==
    /\ work = Nothing
    /\ calls < MaxCalls
    /\ view[k][n] # Absent
    /\ calls' = calls + 1
    /\ work' = [at |-> "call", kind |-> k, name |-> n]
    /\ UNCHANGED <<catalog, changes, updater, toClient, view, stale,
                   connectionDone>>

\* The next message reaches the client, and an answer ends its request.
Delivers ==
    /\ toClient # <<>>
    /\ ~connectionDone
    /\ toClient' = Tail(toClient)
    /\ LET m == Head(toClient) IN
       \/ /\ m.type = "notification"
          /\ stale' = stale \cup {m.kind}
          /\ UNCHANGED <<work, view>>
       \/ /\ m.type = "list"
          /\ view' = [view EXCEPT ![m.kind] = m.list]
          /\ work' = Nothing
          /\ UNCHANGED stale
       \/ /\ m.type = "call"
          /\ work' = Nothing
          /\ UNCHANGED <<view, stale>>
    /\ UNCHANGED <<catalog, changes, updater, calls, connectionDone>>

TransportCloses ==
    /\ ~connectionDone
    /\ connectionDone' = TRUE
    /\ UNCHANGED <<catalog, changes, updater, toClient, work, view, stale, calls>>

(***************************************************************************)
(* The specification                                                       *)
(***************************************************************************)
\* Nothing is registered, and the client has yet to list everything.
CatalogInit ==
    /\ catalog = [k \in Kinds |-> [n \in Names |-> Absent]]
    /\ changes = 0
    /\ updater = [u \in Updaters |-> {}]
    /\ toClient = <<>>
    /\ work = Nothing
    /\ view = [k \in Kinds |-> [n \in Names |-> Absent]]
    /\ stale = Kinds
    /\ calls = 0
    /\ connectionDone = FALSE

ServerWorks == Lists \/ LooksUp \/ CalledHandlerReturns \/ Answers

CatalogNext ==
    \/ \E u \in Updaters :
          \/ \E k \in Kinds, n \in Names : Register(u, k, n) \/ Unregister(u, k, n)
          \/ Announces(u)
    \/ ServerWorks
    \/ \E k \in Kinds : \/ ClientLists(k)
                        \/ \E n \in Names : ClientCalls(k, n)
    \/ Delivers
    \/ TransportCloses

CatalogSpec == CatalogInit /\ [][CatalogNext]_catalogVars

\* The server's goroutines and the transport run, handlers return, and the
\* client acts on what it is told.  Senders that wait for room in a channel are
\* served in turn, hence the strong fairness of what may send.
CatalogFairness ==
    /\ \A u \in Updaters : SF_catalogVars(Announces(u))
    /\ SF_catalogVars(ServerWorks)
    /\ WF_catalogVars(Delivers)
    /\ \A k \in Kinds : SF_catalogVars(ClientLists(k))

CatalogFairSpec == CatalogSpec /\ CatalogFairness

(***************************************************************************)
(* Properties                                                              *)
(***************************************************************************)
Answer == [type : {"list"}, kind : Kinds, list : Catalogs]
          \cup [type : {"call"}, kind : Kinds, name : Names, found : BOOLEAN]

\* Type invariant of the server's maps, its messages and the client.
CatalogTypeOK ==
    /\ catalog \in [Kinds -> Catalogs]
    /\ changes \in 0 .. MaxChanges
    /\ updater \in [Updaters -> SUBSET Announced]
    /\ toClient \in Seq(Answer \cup [type : {"notification"}, kind : Announced])
    /\ Len(toClient) <= OutboxSize
    /\ work \in [at : {"idle", "sent"}]
                \cup [at : {"list"}, kind : Kinds]
                \cup [at : {"call"}, kind : Kinds, name : Names]
                \cup [at : {"handler", "answer"}, message : Answer]
    /\ view \in [Kinds -> Catalogs]
    /\ stale \subseteq Kinds
    /\ calls \in 0 .. MaxCalls
    /\ connectionDone \in BOOLEAN

OnItsWay(m) == \E i \in DOMAIN toClient : toClient[i] = m

\* The client knows, or is going to be told, that its list of kind k is out of
\* date.
NewsDue(k) ==
    \/ \E u \in Updaters : k \in updater[u]
    \/ OnItsWay(Announcement(k))
    \/ k \in stale

\* A list of kind k is on its way to the client: not taken yet, or as it is now.
FreshListDue(k) ==
    \/ work.at = "list" /\ work.kind = k
    \/ work.at = "answer" /\ work.message = ListAnswer(k, catalog[k])
    \/ OnItsWay(ListAnswer(k, catalog[k]))

\* However registrations, announcements, lists and calls interleave, a client
\* whose list of an announced kind is out of date is going to be told or to get
\* the current one, as long as the transport is up.
StaleViewIsDue ==
    \A k \in Announced :
        view[k] # catalog[k] => NewsDue(k) \/ FreshListDue(k) \/ connectionDone

\* A call of something on the client's list fails only if the client is going
\* to learn that the list has changed.
MissIsExplained ==
    \A k \in Announced, n \in Names :
        OnItsWay(CallAnswer(k, n, FALSE)) /\ view[k][n] # Absent
        => NewsDue(k) \/ connectionDone

\* What a client may rely on, as one invariant.
CatalogInv == CatalogTypeOK /\ StaleViewIsDue /\ MissIsExplained

\* The client's lists of the announced kinds catch up with the server's.
ClientCatchesUp ==
    \A k \in Announced : []<>(connectionDone \/ view[k] = catalog[k])

=============================================================================
