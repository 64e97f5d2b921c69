----------------------------- MODULE Registries -----------------------------
(***************************************************************************)
(* The registries whose operations meet on locks and worker pools only:    *)
(* tools (ToolRegistry), prompts (PromptRegistry) and resource templates   *)
(* (ResourceTemplates), and the functions that expand and match their URIs *)
(* (UriTemplates).  They share nothing, so a behaviour is about one of     *)
(* them; the others stay as they were made.                                *)
(***************************************************************************)
EXTENDS ToolRegistry

CONSTANTS
    Prompters, PromptWorkers, MaxPrompts, MaxUses,
    Users, NoUser, MaxTemplates, MaxCalls, Reentrant

ASSUME RegistriesAssumption ==
    /\ IsFiniteSet(Prompters)
    /\ PromptWorkers \in Nat
    /\ MaxPrompts \in Nat
    /\ MaxUses \in Nat
    /\ IsFiniteSet(Users)
    /\ NoUser \notin Users
    /\ MaxTemplates \in Nat \ {0}
    /\ MaxCalls \in Nat

VARIABLES
    registry,     \* the registry this behaviour is about
    prompt, usage, promptTokens, prompter, uses, called,
    templates, templateCount, removed, enabled, announced, told, locks, user, calls,
    job, step, texts, values

P == INSTANCE PromptRegistry
T == INSTANCE ResourceTemplates
U == INSTANCE UriTemplates

promptVars == <<prompt, usage, promptTokens, prompter, uses, called>>
templateVars == <<templates, templateCount, removed, enabled, announced, told,
                  locks, user, calls>>
uriVars == <<job, step, texts, values>>
registriesVars == <<vars, promptVars, templateVars, uriVars, registry>>

RegistriesInit ==
    /\ Init
    /\ P!Init
    /\ T!Init
    /\ registry \in {"tools", "prompts", "templates", "uris"}
    /\ registry # "templates" => templates = 0 /\ announced = FALSE
    /\ IF registry = "uris" THEN U!Init ELSE U!Idle

OnTools == registry = "tools" /\ Next /\ UNCHANGED <<promptVars, templateVars, uriVars>>

OnPrompts ==
    registry = "prompts" /\ P!Next /\ UNCHANGED <<vars, templateVars, uriVars>>

OnTemplates ==
    registry = "templates" /\ T!Next /\ UNCHANGED <<vars, promptVars, uriVars>>

OnUris ==
    registry = "uris" /\ U!Next /\ UNCHANGED <<vars, promptVars, templateVars>>

RegistriesNext ==
    (OnTools \/ OnPrompts \/ OnTemplates \/ OnUris) /\ UNCHANGED registry

(***************************************************************************)
(* Goroutines run, handlers and callbacks return, a lock or token that     *)
(* stays free goes to one of those that wait for it.                       *)
(***************************************************************************)
RegistriesFairness ==
    /\ Fairness
    /\ \A p \in Prompters : WF_promptVars(registry = "prompts" /\ P!Execute(p))
    /\ \A u \in Users : WF_templateVars(registry = "templates" /\ T!Operation(u))

RegistriesSpec ==
    RegistriesInit /\ [][RegistriesNext]_registriesVars /\ RegistriesFairness

(***************************************************************************)
(* Properties                                                              *)
(***************************************************************************)

\* In the prompt registry, tokens and uses add up; in the template registry no
\* entry is lost, every change is announced and only callbacks that call the
\* registry can make goroutines lock each other out.
OtherRegistriesInv == P!PromptsInv /\ T!TemplatesInv

\* Both ways of the code to expand and match a URI template are inverse to each
\* other, for the templates and values they support: a value found in a URI is the
\* one it was made from, and the URI of what was found is the one it was found in.
TemplatesReversible == U!TemplatesReversible

\* Every prompt execution comes back to its caller, and so does every operation
\* on templates, unless callbacks have led to a deadlock.
OperationsReturn ==
    /\ \A p \in Prompters : prompter[p].at # "idle" ~> prompter[p].at = "idle"
    /\ T!OperationsReturn

\* The same for every template and value.  (It does not hold: fragments, lists in
\* paths, several queries, and more.)
EveryTemplateReversible == U!EveryTemplateReversible

\* Every operation on templates returns, whatever its callbacks do.  (It does
\* not when a callback calls the registry.)
CallbacksReturn == T!CallbacksReturn

=============================================================================
