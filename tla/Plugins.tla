------------------------------- MODULE Plugins -------------------------------
(* The plugin host (internal/plugins): what is checked before a plugin's    *)
(* code runs, the transaction its registrations are collected in, and the   *)
(* delivery of events to observers.  The registry, a transaction and the    *)
(* delivery state are each guarded by a mutex, so one locked section is one *)
(* step; the plugin's own code runs outside of all of them, may ignore the  *)
(* errors the host answers, and may keep its Host after Register returned.  *)
EXTENDS Integers, SequencesExt

CONSTANTS
    PluginLoad,          \* calls of Load and RegisterPlugin
    Packages,            \* artifacts with their sidecar files, for each load
    Host,                \* identity of this build
    Registrations,       \* what a plugin may register
    Dispatch, Event,     \* calls of DispatchEvent, and what each delivers
    MaxAdds              \* bound: registrations a plugin tries

VARIABLES
    load,        \* phase and package of each load
    tx,          \* its PendingTransaction
    answers,     \* what its Register* calls were answered
    registry,    \* committed registrations, in order
    dispatch,    \* each DispatchEvent: its copy of the observers, as places
                 \* in the registry, those it has not passed, and the called one
    delivering, completed,   \* observer tuples reserved and done
    heard        \* successful calls of each observer, per event

pluginVars == <<load, tx, answers, registry, dispatch, delivering, completed, heard>>

\* What a package holds, and how far the native plugin can be opened.
Manifest == [id : STRING, target : Seq(STRING), api : Int, build : STRING, graph : Int, checksum : Int]
OpenStages == {"open", "lookup", "symbol_contract", "embedded_equality"}
Package ==
    [readable : BOOLEAN, sidecar : Manifest, embedded : Manifest, content : Int,
     platform : STRING, opens : {"opened"} \cup OpenStages]
ASSUME PluginsAssumption == \A l \in PluginLoad : Packages[l] \subseteq Package

PluginsInit ==
    /\ load = [l \in PluginLoad |-> [phase |-> "idle", package |-> {}]]
    /\ tx = [l \in PluginLoad |-> [state |-> "none", err |-> FALSE, pending |-> <<>>]]
    /\ answers = [l \in PluginLoad |-> [acked |-> <<>>, refused |-> FALSE, adds |-> 0]]
    /\ registry = <<>>
    /\ dispatch = [d \in Dispatch |-> [observers |-> {}, left |-> {}, calling |-> {}, result |-> "none"]]
    /\ delivering = {} /\ completed = {} /\ heard = <<>>

-----------------------------------------------------------------------------
(* Load.                                                                    *)

Targets == {"server", "agent"}

SchemaAccepts(m) ==
    /\ m.id # "" /\ m.target # <<>> /\ IsInjective(m.target)
    /\ ToSet(m.target) \subseteq Targets

ValidManifest(m) == SchemaAccepts(m) /\ m.api = Host.api

Compatible(m, platform) ==
    /\ m.api = Host.api /\ m.build = Host.build /\ m.graph = Host.graph
    /\ Host.role \in ToSet(m.target)
    /\ platform = Host.platform

\* The artifact cannot hold its own checksum.
EqualExceptChecksum(m, n) == [m EXCEPT !.checksum = 0] = [n EXCEPT !.checksum = 0]

\* Where Load stops.  Nothing of the plugin runs before "open".
LoadStage(p) ==
    IF ~p.readable THEN "sidecar_read"
    ELSE IF ~ValidManifest(p.sidecar) THEN "schema"
    ELSE IF p.content # p.sidecar.checksum THEN "checksum"
    ELSE IF ~Compatible(p.sidecar, p.platform) THEN "compatibility"
    ELSE IF p.opens # "opened" THEN p.opens
    ELSE IF ~EqualExceptChecksum(p.embedded, p.sidecar) THEN "embedded_equality"
    ELSE "registration"

\* A load that gets to registration begins a transaction and calls Register.
LoadPlugin(l, p) ==
    LET stage == LoadStage(p) IN
    /\ load[l].phase = "idle"
    /\ load' = [load EXCEPT ![l] = [phase |-> stage, package |-> {p}]]
    /\ tx' = IF stage = "registration" THEN [tx EXCEPT ![l].state = "open"] ELSE tx
    /\ UNCHANGED <<answers, registry, dispatch, delivering, completed, heard>>

-----------------------------------------------------------------------------
(* The transaction.                                                         *)

PluginId(l) == (CHOOSE p \in load[l].package : TRUE).sidecar.id

\* Event subscriptions are sets: an empty list means every event, a list that
\* repeats or leaves out a name is refused.
canonicalEventTypes(types) == ToSet(types)
LegalKey(reg) ==
    IF reg.surface = "event_handler"
    THEN IsInjective(reg.key) /\ "" \notin ToSet(reg.key) ELSE reg.key # ""

\* Providers, job types, commands and UI names are shared by all plugins, the
\* names of transformers, validators, observers and subscriptions are not.
ConflictKey(e) ==
    LET key == IF e.surface = "event_handler" THEN canonicalEventTypes(e.key) ELSE {e.key}
    IN  <<e.surface, key, IF e.surface \in {"provider", "job_handler", "command", "ui"} THEN "" ELSE e.plugin>>

Conflicts(e, entries) == \E f \in ToSet(entries) : f.surface = e.surface /\ ConflictKey(f) = ConflictKey(e)

\* Faulty: the error is answered and forgotten.
AnswerError(t) == t

\* failLocked: the first error is final, whatever the plugin makes of it.
FailTx(t) == [state |-> "rolled_back", err |-> TRUE, pending |-> <<>>]

TxOpen(t) == ~t.err /\ t.state = "open"

\* A Register* call of the plugin's Host, during Register or any time after.
Register(l, reg) ==
    LET e == [load |-> l, plugin |-> PluginId(l), surface |-> reg.surface, key |-> reg.key] IN
    /\ load[l].phase \in {"registration", "returned", "registered", "failed"}
    /\ answers[l].adds < MaxAdds[l]
    /\ CASE ~TxOpen(tx[l]) ->
              /\ answers' = [answers EXCEPT ![l].adds = @ + 1]
              /\ UNCHANGED tx
         [] TxOpen(tx[l]) /\ (~LegalKey(reg) \/ Conflicts(e, tx[l].pending)) ->
              /\ tx' = [tx EXCEPT ![l] = FailTx(@)]
              /\ answers' = [answers EXCEPT ![l].adds = @ + 1, ![l].refused = TRUE]
         [] OTHER ->
              /\ tx' = [tx EXCEPT ![l].pending = Append(@, e)]
              /\ answers' = [answers EXCEPT ![l].adds = @ + 1, ![l].acked = Append(@, e)]
    /\ UNCHANGED <<load, registry, dispatch, delivering, completed, heard>>

\* Register returned: nil, or an error or a panic, which roll back.
RegisterReturns(l, ok) ==
    /\ load[l].phase = "registration"
    /\ load' = [load EXCEPT ![l].phase = IF ok THEN "returned" ELSE "failed"]
    /\ tx' = IF ok \/ tx[l].state # "open" THEN tx
             ELSE [tx EXCEPT ![l].state = "rolled_back", ![l].pending = <<>>]
    /\ UNCHANGED <<answers, registry, dispatch, delivering, completed, heard>>

\* Every key is checked before anything is applied.
CommitTx(l) ==
    /\ load[l].phase = "returned"
    /\ IF TxOpen(tx[l]) /\ \A e \in ToSet(tx[l].pending) : ~Conflicts(e, registry)
       THEN /\ registry' = registry \o tx[l].pending
            /\ tx' = [tx EXCEPT ![l].state = "committed", ![l].pending = <<>>]
            /\ load' = [load EXCEPT ![l].phase = "registered"]
       ELSE /\ tx' = IF TxOpen(tx[l]) THEN [tx EXCEPT ![l] = FailTx(@)] ELSE tx
            /\ load' = [load EXCEPT ![l].phase = "failed"]
            /\ UNCHANGED registry
    /\ UNCHANGED <<answers, dispatch, delivering, completed, heard>>

-----------------------------------------------------------------------------
(* DispatchEvent.                                                           *)

\* The tuple of an observer and an event.
Tuple(d, i) == <<registry[i], Event[d]>>
Observers == {i \in DOMAIN registry : registry[i].surface = "observer"}

\* The observers committed now; later ones do not hear of the event.
DispatchEvent(d) ==
    /\ dispatch[d].result = "none"
    /\ dispatch' = [dispatch EXCEPT ![d] =
         [observers |-> Observers, left |-> Observers, calling |-> {}, result |-> "running"]]
    /\ UNCHANGED <<load, tx, answers, registry, delivering, completed, heard>>

\* Faulty: a delivery under way is not noticed.
ReservesUnlessDone(t) == t \notin completed

Reserves(t) == t \notin completed /\ t \notin delivering

\* The first observer left is reserved before the call; a tuple that is done
\* or under way is skipped.
ReserveDelivery(d) ==
    /\ dispatch[d].result = "running" /\ dispatch[d].calling = {}
    /\ \E i \in dispatch[d].left :
          /\ \A j \in dispatch[d].left : i <= j
          /\ IF Reserves(Tuple(d, i))
             THEN /\ delivering' = delivering \cup {Tuple(d, i)}
                  /\ dispatch' = [dispatch EXCEPT ![d].calling = {i}]
             ELSE /\ dispatch' = [dispatch EXCEPT ![d].left = @ \ {i}]
                  /\ UNCHANGED delivering
    /\ UNCHANGED <<load, tx, answers, registry, completed, heard>>

\* OnEvent returned.  A failed call frees the tuple and ends the dispatch.
Delivered(d, ok) ==
    \E i \in dispatch[d].calling :
        LET t == Tuple(d, i) IN
        /\ delivering' = delivering \ {t}
        /\ completed' = IF ok THEN completed \cup {t} ELSE completed
        /\ heard' = IF ok THEN [u \in DOMAIN heard \cup {t} |->
                       IF u \in DOMAIN heard THEN heard[u] + (IF u = t THEN 1 ELSE 0) ELSE 1] ELSE heard
        /\ dispatch' = [dispatch EXCEPT ![d].calling = {},
                                        ![d].left = IF ok THEN @ \ {i} ELSE @,
                                        ![d].result = IF ok THEN @ ELSE "failed"]
        /\ UNCHANGED <<load, tx, answers, registry>>

DispatchEnds(d) ==
    /\ dispatch[d].result = "running" /\ dispatch[d].left = {}
    /\ dispatch' = [dispatch EXCEPT ![d].result = "nil"]
    /\ UNCHANGED <<load, tx, answers, registry, delivering, completed, heard>>

PluginsNext ==
    \/ \E l \in PluginLoad :
          \/ \E p \in Packages[l] : LoadPlugin(l, p)
          \/ \E reg \in Registrations : Register(l, reg)
          \/ \E ok \in BOOLEAN : RegisterReturns(l, ok)
          \/ CommitTx(l)
    \/ \E d \in Dispatch :
          \/ DispatchEvent(d) \/ ReserveDelivery(d) \/ DispatchEnds(d)
          \/ \E ok \in BOOLEAN : Delivered(d, ok)

PluginsSpec == PluginsInit /\ [][PluginsNext]_pluginVars

-----------------------------------------------------------------------------
(* Properties.                                                              *)

\* A load publishes all that its plugin was told it registered, in one piece
\* and in order, or nothing, and nothing once an error was answered, whether or
\* not the plugin passed it on and whoever else committed first; no two
\* registrations claim one name; and only plugins built for this host are heard
\* of (RegisterPlugin, Commit, Load).
RegistrationsAreWhole ==
    /\ \A l \in PluginLoad :
          LET own == {i \in DOMAIN registry : registry[i].load = l} acked == answers[l].acked IN
          /\ load[l].phase = "registered" => \E n \in 0 .. Len(registry) :
                own = n + 1 .. n + Len(acked) /\ \A k \in DOMAIN acked : registry[n + k] = acked[k]
          /\ load[l].phase # "registered" \/ answers[l].refused => own = {}
          /\ own # {} => \A p \in load[l].package :
                /\ p.content = p.sidecar.checksum /\ p.sidecar.graph = Host.graph
                /\ p.embedded.id = p.sidecar.id /\ Host.role \in ToSet(p.embedded.target)
    /\ \A i, j \in DOMAIN registry :
          i # j /\ registry[i].surface = registry[j].surface
              => ConflictKey(registry[i]) # ConflictKey(registry[j])

\* No observer hears of an event twice, however dispatches of it overlap, fail
\* and are repeated; and when all of them succeeded every observer that
\* one of them saw has heard of it (DispatchEvent and the reservations).
ObserversHearOnce ==
    /\ \A t \in DOMAIN heard : heard[t] = 1
    /\ \A d, e \in Dispatch :
          d # e => \A i \in dispatch[d].calling, j \in dispatch[e].calling : Tuple(d, i) # Tuple(e, j)
    /\ \A v \in {Event[d] : d \in Dispatch} :
          LET of == {d \in Dispatch : Event[d] = v} IN
          (\A d \in of : dispatch[d].result = "nil") =>
              \A d \in of : \A i \in dispatch[d].observers : <<registry[i], v>> \in DOMAIN heard
=============================================================================
