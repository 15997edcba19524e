------------------------------- MODULE Catalog -------------------------------
(* The shared model catalog of the providers (httpapi/provider_catalog.go): *)
(* one entry per provider, kept for a window of time; a read outside of it  *)
(* or a forced one joins the single refresh under way, or starts it.  The   *)
(* entries and the refreshes are guarded by one mutex; ListModels runs      *)
(* outside of it, on its own context.                                       *)
EXTENDS Integers, FiniteSets

CONSTANTS
    Provider,        \* configured and enabled providers
    Selection,       \* models with an effort they support
    Reader,          \* requests that read the catalog
    MaxRefreshes     \* bound: refreshes of one provider

VARIABLES
    offered,         \* what each provider lists now
    entry,           \* the retained entry
    inflight,        \* the refresh under way
    waiter,          \* the refresh each request is about to join, or waits for
    seen,            \* the snapshot each request was given
    asking,          \* history: how and when each request asked
    latest           \* history: the last refresh that finished

catalogVars == <<offered, entry, inflight, waiter, seen, asking, latest>>

NoEntry   == [known |-> FALSE, models |-> {}, failed |-> FALSE, fresh |-> FALSE]
NoRefresh == [phase |-> "none", ok |-> FALSE, models |-> {}]
NoWait    == [phase |-> "none", provider |-> {}]

CatalogInit ==
    /\ offered \in [Provider -> {Selection, {}}]
    /\ entry = [p \in Provider |-> NoEntry]
    /\ inflight = [p \in Provider |-> NoRefresh]
    /\ waiter = [r \in Reader |-> NoWait]
    /\ seen = [r \in Reader |-> {}]
    /\ asking = [r \in Reader |-> [forced |-> FALSE, at |-> 0]]
    /\ latest = [p \in Provider |-> [n |-> 0, ok |-> FALSE, good |-> {}]]

\* Faulty: a forced read is served from the window too.
RetainedForAll(p, refresh) == entry[p].known /\ entry[p].fresh

\* cached: whether the retained entry covers a read.
Retained(p, refresh) == ~refresh /\ entry[p].known /\ entry[p].fresh

\* resultLocked and the tail of cached: the last good models, stale after a
\* failure; without any, the failure.
Result(p) ==
    [ok |-> ~entry[p].failed \/ entry[p].models # {}, models |-> entry[p].models,
     stale |-> entry[p].failed, provider |-> p, at |-> latest[p].n]
Canceled(p) == [Result(p) EXCEPT !.ok = FALSE, !.models = {}, !.at = -1]

\* A request reads the catalog of p: a check of a binding, the provider list,
\* or the provider list with refresh=true.  cached serves it, or not.
Snapshot(r, p, refresh) ==
    /\ waiter[r].phase = "none"
    /\ asking' = [asking EXCEPT ![r] = [forced |-> refresh, at |-> latest[p].n]]
    /\ \/ /\ Retained(p, refresh)
          /\ seen' = [seen EXCEPT ![r] = {Result(p)}]
          /\ UNCHANGED waiter
       \/ /\ ~Retained(p, refresh)
          /\ seen' = [seen EXCEPT ![r] = {}]
          /\ waiter' = [waiter EXCEPT ![r] = [phase |-> "missed", provider |-> {p}]]
    /\ UNCHANGED <<offered, entry, inflight, latest>>

\* refreshCoalesced: a request that was not served takes the lock again and
\* joins the refresh under way by then, or starts one.
RefreshCoalesced(r, p) ==
    /\ waiter[r].phase = "missed" /\ p \in waiter[r].provider
    /\ \/ inflight[p].phase # "none" /\ UNCHANGED inflight
       \/ /\ inflight[p].phase = "none" /\ latest[p].n < MaxRefreshes
          /\ inflight' = [inflight EXCEPT ![p].phase = "asked"]
    /\ waiter' = [waiter EXCEPT ![r].phase = "joined"]
    /\ UNCHANGED <<offered, entry, seen, asking, latest>>

\* ListModels: the provider's answer, or an error, or the timeout.
ProviderAnswers(p, ok) ==
    /\ inflight[p].phase = "asked"
    /\ inflight' = [inflight EXCEPT ![p] =
         [phase |-> "answered", ok |-> ok, models |-> IF ok THEN offered[p] ELSE {}]]
    /\ UNCHANGED <<offered, entry, waiter, seen, asking, latest>>

\* Faulty: a failure discards the last good models.
StoreOutcome(e, outcome) ==
    [known |-> TRUE, models |-> outcome.models, failed |-> ~outcome.ok, fresh |-> TRUE]

\* storeRefreshLocked: a failure retains the last good models.
StoreRefresh(e, outcome) ==
    [known |-> TRUE, models |-> IF outcome.ok THEN outcome.models ELSE e.models,
     failed |-> ~outcome.ok, fresh |-> TRUE]

\* The outcome is committed and published to every waiter in one section.
RunRefreshEnds(p) ==
    /\ inflight[p].phase = "answered"
    /\ entry' = [entry EXCEPT ![p] = StoreRefresh(@, inflight[p])]
    /\ inflight' = [inflight EXCEPT ![p] = NoRefresh]
    /\ waiter' = [r \in Reader |->
         IF waiter[r].phase = "joined" /\ p \in waiter[r].provider
         THEN [waiter[r] EXCEPT !.phase = "done"] ELSE waiter[r]]
    /\ latest' = [latest EXCEPT ![p] =
         [n |-> @.n + 1, ok |-> inflight[p].ok,
          good |-> IF inflight[p].ok THEN inflight[p].models ELSE @.good]]
    /\ UNCHANGED <<offered, seen, asking>>

\* The waiter takes the lock again and reads whatever is retained by then, or
\* its own request was canceled.
WaitEnds(r, canceled) ==
    /\ waiter[r].phase \in (IF canceled THEN {"joined", "done"} ELSE {"done"})
    /\ \E p \in waiter[r].provider :
          seen' = [seen EXCEPT ![r] = {IF canceled THEN Canceled(p) ELSE Result(p)}]
    /\ waiter' = [waiter EXCEPT ![r] = NoWait]
    /\ UNCHANGED <<offered, entry, inflight, asking, latest>>

WindowEnds(p) ==
    /\ entry[p].fresh
    /\ entry' = [entry EXCEPT ![p].fresh = FALSE]
    /\ UNCHANGED <<offered, inflight, waiter, seen, asking, latest>>

OffersOther(p) ==
    /\ offered' = [offered EXCEPT ![p] = Selection \ @]
    /\ UNCHANGED <<entry, inflight, waiter, seen, asking, latest>>

CatalogNext ==
    \/ \E p \in Provider : \/ \E ok \in BOOLEAN : ProviderAnswers(p, ok)
                           \/ RunRefreshEnds(p) \/ WindowEnds(p) \/ OffersOther(p)
    \/ \E r \in Reader : \/ \E p \in Provider, refresh \in BOOLEAN : Snapshot(r, p, refresh)
                         \/ \E p \in Provider : RefreshCoalesced(r, p)
                         \/ \E canceled \in BOOLEAN : WaitEnds(r, canceled)

CatalogSpec == CatalogInit /\ [][CatalogNext]_catalogVars

-----------------------------------------------------------------------------

\* The entry of a provider is what its last refresh left, with the models of
\* its last success; a forced read returns the state after a refresh that
\* ended later than it was asked, whoever started that one and whoever of its
\* waiters went away (cached, refreshCoalesced, storeRefreshLocked).
CatalogStaysCurrent ==
    /\ \A p \in Provider :
          /\ entry[p].known <=> latest[p].n > 0
          /\ entry[p].known => /\ entry[p].models = latest[p].good
                               /\ entry[p].failed <=> ~latest[p].ok
    /\ \A r \in Reader : \A s \in seen[r] :
          s.at >= 0 => /\ asking[r].forced => s.at > asking[r].at
                       /\ s.at = latest[s.provider].n => s.models = latest[s.provider].good
=============================================================================
