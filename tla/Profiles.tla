------------------------------- MODULE Profiles -------------------------------
(* Analysis profiles (analysis/profiles.go), the prompt versions they pin   *)
(* (prompts/store.go), the owner's requests about them                      *)
(* (httpapi/pipeline_analysis.go), the capture of the active profile by a   *)
(* request that queues work, and their seeding at startup.  Every write is  *)
(* one transaction; what a request validated or captured was read before,   *)
(* in statements of their own, and other requests commit between them.      *)
EXTENDS Integers, SequencesExt

CONSTANTS
    Profile,         \* ids
    Request,         \* requests of the owner
    Listings,        \* tuples of a provider, a model and its options that the
                     \* providers may list
    Inputs,          \* bodies of create and replace: explore and prompts may be left out
    NewNames,        \* names for Rename
    Bootstrap,       \* bootstrap_profile of the configuration: {} or one input
    Legacy,          \* profiles of a database older than the prompt library
    Edited,          \* bound: prompt types whose instructions are edited
    MaxVersion,      \* bound: saved versions of a prompt type
    MaxRestarts      \* bound: crashes

VARIABLES
    profiles, active,       \* stored rows and the singleton setting
    versions,               \* saved versions of each prompt type
    boot, restarts,         \* startup, and crashes so far
    listing,                \* tuples the providers listed last
    call,                   \* where each request is
    queued,                 \* what the last capture of each request queued
    everListed              \* history: tuples listed

profileVars == <<profiles, active, versions, boot, restarts, listing, call, queued, everListed>>

RegisteredStages == {"linguistic_analysis", "translation"}
PromptTypes ==
    {"linguistic_analysis", "article_translation", "explore", "sentence_translation", "correction"}

\* A body names a selection for every type or leaves them out; the bootstrap
\* profile has neither selections nor an Explore binding; migration 014 gave a
\* profile of an older database an Explore binding, and no selections.
OneEach(selections) ==
    /\ selections \in SUBSET (PromptTypes \X Nat)
    /\ \A x, y \in selections : x[1] = y[1] => x = y
    /\ \A t \in PromptTypes : \E x \in selections : x[1] = t
ProfilesAssumption ==
    /\ Edited \subseteq PromptTypes
    /\ \A input \in Inputs \cup Bootstrap :
          /\ DOMAIN input.bindings = RegisteredStages
          /\ input.explore = {} \/ \E b \in input.explore : input.explore = {b}
          /\ input.prompts = {} \/ OneEach(input.prompts)
    /\ \A input \in Bootstrap : input.explore = {} /\ input.prompts = {}
    /\ Legacy = [id \in Profile |-> Legacy[id]]
    /\ \A id \in Profile : \A r \in Legacy[id] :
          /\ Legacy[id] = {r}
          /\ r = [name |-> r.name, bindings |-> r.bindings, explore |-> r.explore, prompts |-> {}]
          /\ DOMAIN r.bindings = RegisteredStages /\ \E b \in r.explore : r.explore = {b}
          /\ \A other \in Profile \ {id} : \A q \in Legacy[other] : q.name # r.name
ASSUME ProfilesAssumption

NotStarted == [kind |-> "none", step |-> "idle"]
Ended == [kind |-> "none", step |-> "done"]
Stored == {id \in Profile : profiles[id] # {}}
Row(id) == CHOOSE r \in profiles[id] : TRUE

ProfilesInit ==
    /\ profiles \in {[id \in Profile |-> {}], Legacy}
    /\ active = Stored
    /\ versions = [t \in PromptTypes |-> 0]
    /\ boot = "prompts" /\ restarts = 0
    /\ call = [c \in Request |-> NotStarted] /\ queued = [c \in Request |-> {}]
    /\ listing \in Listings
    /\ everListed = listing \cup UNION {Range(Row(id).bindings) \cup Row(id).explore : id \in Stored}

Captures == {"analysis", "explore", "sentence"}

-----------------------------------------------------------------------------
(* Writes.  A profile that is written is complete.                          *)

NameTaken(id, name) == \E q \in Stored \ {id} : Row(q).name = name

\* seedTypeTx: version 1 of a type that has none.
SeedTypes == [t \in PromptTypes |-> IF versions[t] = 0 THEN 1 ELSE versions[t]]
DefaultSelections == PromptTypes \X {1}

\* Faulty: an omitted Explore binding is not copied from the translation.
CreatedWithoutExplore(input) ==
    [input EXCEPT !.prompts = IF input.prompts = {} THEN DefaultSelections ELSE @]

\* CreateWithChoices: what the request leaves out is seeded.
Created(input) ==
    [name |-> input.name, bindings |-> input.bindings,
     explore |-> IF input.explore = {} THEN {input.bindings["translation"]} ELSE input.explore,
     prompts |-> IF input.prompts = {} THEN DefaultSelections ELSE input.prompts]

Create(id, input) ==
    /\ id \notin Stored /\ ~NameTaken(id, input.name)
    /\ profiles' = [profiles EXCEPT ![id] = {Created(input)}]
    /\ versions' = IF input.prompts = {} THEN SeedTypes ELSE versions

\* ReplaceWithChoices: what the request leaves out is preserved.
Replaced(old, input) ==
    [name |-> input.name, bindings |-> input.bindings,
     explore |-> IF input.explore = {} THEN old.explore ELSE input.explore,
     prompts |-> IF input.prompts = {} THEN old.prompts ELSE input.prompts]

Replace(id, input) ==
    /\ id \in Stored /\ ~NameTaken(id, input.name)
    /\ profiles' = [profiles EXCEPT ![id] = {Replaced(Row(id), input)}]
    /\ UNCHANGED versions

Rename(id, name) ==
    /\ boot = "up" /\ id \in Stored /\ ~NameTaken(id, name)
    /\ profiles' = [profiles EXCEPT ![id] = {[Row(id) EXCEPT !.name = name]}]
    /\ UNCHANGED <<active, versions, boot, restarts, call, queued, everListed, listing>>

\* Delete refuses the active profile; its bindings and selections go with it.
Delete(id) ==
    /\ boot = "up" /\ id \in Stored /\ id \notin active
    /\ profiles' = [profiles EXCEPT ![id] = {}]
    /\ UNCHANGED <<active, versions, boot, restarts, call, queued, everListed, listing>>

\* Save of the prompt library: the next version of one type.
SavePrompt(t) ==
    /\ boot = "up" /\ versions[t] < MaxVersion
    /\ versions' = [versions EXCEPT ![t] = @ + 1]
    /\ UNCHANGED <<profiles, active, boot, restarts, call, queued, everListed, listing>>

-----------------------------------------------------------------------------
(* Requests.  A body is checked binding by binding; a tuple that is stored  *)
(* already is not looked up, so a profile can be saved while a catalog is   *)
(* down.  Every read of a request is a statement of its own.                *)

\* Faulty: the provider of a stored tuple is not compared.
SelectionChanged(binding, before) == \A b \in before : b.model # binding.model

TupleChanged(binding, before) == binding \notin before

BindingsOf(id) == {r.bindings : r \in profiles[id]}
ExploreOf(id)  == UNION {r.explore : r \in profiles[id]}
PromptsOf(id)  == UNION {r.prompts : r \in profiles[id]}

Item(stage, b) == [stage |-> stage, binding |-> b]
StageItems(bindings) ==
    <<Item("linguistic_analysis", bindings["linguistic_analysis"]), Item("translation", bindings["translation"])>>
ExploreItems(explore) == SetToSeq({Item("explore", b) : b \in explore})

\* A request starts; all but create have found the row of their profile, the
\* active one or one that the request names.
StartRequest(c, kind, id, input) ==
    /\ boot = "up" /\ call[c] = NotStarted
    /\ kind # "create" => id \in Stored
    /\ kind \in {"explore", "sentence"} => id \in active
    /\ call' = [call EXCEPT ![c] =
         [kind |-> kind, step |-> IF kind = "create" THEN "check" ELSE "read", id |-> id, input |-> input,
          stored |-> {}, bindings |-> <<>>,
          todo |-> IF kind = "create" THEN StageItems(input.bindings) \o ExploreItems(input.explore) ELSE <<>>]]
    /\ UNCHANGED <<profiles, active, versions, boot, restarts, queued, everListed, listing>>

\* The bindings of the profile, or its Explore binding: what there is by now.
ReadBindings(c) ==
    LET k == call[c]
        stored == BindingsOf(k.id)
        items == UNION {Range(StageItems(b)) : b \in stored}
        used == CASE k.kind = "replace"  -> StageItems(k.input.bindings) \o ExploreItems(k.input.explore)
                  [] k.kind = "explore"  -> ExploreItems(ExploreOf(k.id))
                  [] k.kind = "sentence" -> SetToSeq({x \in items : x.stage = "translation"})
                  [] OTHER               -> IF stored = {} THEN <<>> ELSE StageItems(CHOOSE b \in stored : TRUE)
    IN
    /\ k.step = "read"
    /\ call' = [call EXCEPT ![c] = IF k.kind \in {"explore", "sentence"} /\ used = <<>> THEN Ended
                                   ELSE [@ EXCEPT !.step = "check", !.todo = used,
                                                  !.stored = IF k.kind = "replace" THEN stored ELSE {},
                                                  !.bindings = IF k.kind \in Captures THEN used ELSE <<>>]]
    /\ UNCHANGED <<profiles, active, versions, boot, restarts, queued, everListed, listing>>

\* The tuples an item is compared with; only replace has any.
Before(c, item) ==
    IF call[c].kind # "replace" THEN {}
    ELSE IF item.stage = "explore" THEN ExploreOf(call[c].id)
    ELSE {b[item.stage] : b \in call[c].stored}

\* canonicalizeUsableBindings, usableProfileBindings: the next binding.  The
\* catalog may be down or stale at any time (module Catalog); then, or if it
\* does not list the tuple, the request is refused.
CheckBinding(c, available) ==
    LET item == Head(call[c].todo)
        passes == \/ ~TupleChanged(item.binding, Before(c, item))
                  \/ available /\ item.binding \in listing
    IN
    /\ call[c].step = "check" /\ call[c].todo # <<>>
    /\ call' = [call EXCEPT ![c] = IF passes THEN [@ EXCEPT !.todo = Tail(call[c].todo)] ELSE Ended]
    /\ UNCHANGED <<profiles, active, versions, boot, restarts, listing, queued, everListed>>

SavedPrompts(input) == \A x \in input.prompts : x[2] \in 1 .. versions[x[1]]
Checked(c, kinds) == call[c].step = "check" /\ call[c].todo = <<>> /\ call[c].kind \in kinds
EndRequest(c) == call' = [call EXCEPT ![c] = Ended]

\* The transaction of create and replace, or a conflict.
SaveProfile(c) ==
    LET k == call[c] IN
    /\ Checked(c, {"create", "replace"}) /\ EndRequest(c)
    /\ \/ SavedPrompts(k.input) /\ k.kind = "create" /\ Create(k.id, k.input)
       \/ SavedPrompts(k.input) /\ k.kind = "replace" /\ Replace(k.id, k.input)
       \/ /\ \/ ~SavedPrompts(k.input) \/ NameTaken(k.id, k.input.name)
             \/ (k.kind = "create") = (k.id \in Stored)
          /\ UNCHANGED <<profiles, versions>>
    /\ UNCHANGED <<active, boot, restarts, queued, everListed, listing>>

\* Activate looks for the profile again.
Activate(c) ==
    /\ Checked(c, {"activate"}) /\ EndRequest(c)
    /\ active' = IF call[c].id \in Stored THEN {call[c].id} ELSE active
    /\ UNCHANGED <<profiles, versions, boot, restarts, queued, everListed, listing>>

Prompts(kind) ==
    CASE kind = "explore"  -> {"explore", "correction"}
      [] kind = "sentence" -> {"sentence_translation", "correction"}
      [] OTHER             -> {"linguistic_analysis", "article_translation", "correction"}

\* The selections of the profile are read last; versions never change, and
\* without one of them nothing is queued.
Capture(c) ==
    LET k == call[c] IN
    /\ Checked(c, Captures) /\ EndRequest(c)
    /\ queued' = [queued EXCEPT ![c] =
         IF \A t \in Prompts(k.kind) : \E x \in PromptsOf(k.id) : x[1] = t
         THEN {[id |-> k.id, kind |-> k.kind, bindings |-> k.bindings,
                prompts |-> {x \in PromptsOf(k.id) : x[1] \in Prompts(k.kind)}]}
         ELSE @]
    /\ UNCHANGED <<profiles, active, versions, boot, restarts, everListed, listing>>

-----------------------------------------------------------------------------
(* Startup.                                                                 *)

\* EnsureSeed: version 1 of every type, and it for every profile's open types.
SeedPrompts ==
    /\ boot = "prompts" /\ boot' = "profile"
    /\ versions' = SeedTypes
    /\ profiles' = [id \in Profile |-> {[r EXCEPT !.prompts = @ \cup
         {x \in DefaultSelections : \A y \in r.prompts : y[1] # x[1]}] : r \in profiles[id]}]
    /\ UNCHANGED <<active, restarts, call, queued, everListed, listing>>

\* seedBootstrapProfile: only in an empty database, and only if the providers
\* list every model now; they are asked themselves, not the catalog.
SeedProfile ==
    /\ boot = "profile"
    /\ \/ \E input \in Bootstrap, id \in Profile :
            /\ Stored = {} /\ Range(input.bindings) \subseteq listing
            /\ Create(id, input) /\ boot' = "activate"
       \/ boot' = "up" /\ UNCHANGED <<profiles, versions>>
    /\ UNCHANGED <<active, restarts, call, queued, everListed, listing>>

\* The seeded profile is activated in a transaction of its own.
ActivateSeeded ==
    /\ boot = "activate" /\ boot' = "up"
    /\ active' = Stored
    /\ UNCHANGED <<profiles, versions, restarts, call, queued, everListed, listing>>

\* A crash during startup; a later one leaves committed rows and no request.
Restart ==
    /\ boot # "up" /\ restarts < MaxRestarts /\ restarts' = restarts + 1
    /\ boot' = "prompts"
    /\ UNCHANGED <<profiles, active, versions, listing, call, queued, everListed>>

\* A refresh of the catalog finds other models.
CatalogChanges(tuples) ==
    /\ listing' = tuples /\ everListed' = everListed \cup tuples
    /\ UNCHANGED <<profiles, active, versions, boot, restarts, call, queued>>

ProfilesNext ==
    \/ \E c \in Request :
          \/ \E kind \in {"create", "replace"}, id \in Profile, input \in Inputs : StartRequest(c, kind, id, input)
          \/ \E kind \in Captures \cup {"activate"}, id \in Profile : StartRequest(c, kind, id, {})
          \/ ReadBindings(c) \/ \E available \in BOOLEAN : CheckBinding(c, available)
          \/ SaveProfile(c) \/ Activate(c) \/ Capture(c)
    \/ \E id \in Profile : Delete(id) \/ \E name \in NewNames : Rename(id, name)
    \/ \E t \in Edited : SavePrompt(t)
    \/ SeedPrompts \/ SeedProfile \/ ActivateSeeded \/ Restart
    \/ \E tuples \in Listings : CatalogChanges(tuples)

ProfilesSpec == ProfilesInit /\ [][ProfilesNext]_profileVars

-----------------------------------------------------------------------------
(* Properties.                                                              *)

\* While the server is up every stored profile has a binding for Explore and
\* a saved version of each of the five prompt types, no two profiles share a
\* name, and the active profile is one of them, whatever was left out of a
\* body and whoever deletes, replaces or activates between the reads of
\* another request (CreateWithChoices, ReplaceWithChoices, Delete, Activate).
ProfilesAreWhole ==
    boot = "up" =>
        /\ active \subseteq Stored
        /\ \A id \in Stored :
              /\ ExploreOf(id) # {} /\ SavedPrompts(Row(id))
              /\ \A t \in PromptTypes : Cardinality({x \in PromptsOf(id) : x[1] = t}) = 1
              /\ ~NameTaken(id, Row(id).name)

\* Every binding a profile holds, and so every binding that work is queued
\* with, is one that its provider once listed: leaving stored tuples alone
\* lets nothing else in (canonicalizeUsableBindings, seedBootstrapProfile).
BindingsWereListed ==
    /\ \A id \in Stored : Range(Row(id).bindings) \cup ExploreOf(id) \subseteq everListed
    /\ \A c \in Request : \A q \in queued[c] : \A i \in DOMAIN q.bindings : q.bindings[i].binding \in everListed
=============================================================================
