---------------------------- MODULE OwnersProofs -----------------------------
(* Proofs about what the owner of the server configures and keeps: the      *)
(* catalog of models (Catalog), the library's metadata (Library), the       *)
(* analysis profiles (Profiles) and the plugins (Plugins).                  *)
EXTENDS Catalog, Library, Profiles, Plugins, FiniteSetTheorems, SequenceTheorems, TLAPS

(* The catalog.                                                             *)

Models  == SUBSET Selection
Results == [ok : BOOLEAN, models : Models, stale : BOOLEAN, provider : Provider, at : Int]

CatalogTypeOK ==
    /\ offered \in [Provider -> Models]
    /\ entry \in [Provider -> [known : BOOLEAN, models : Models, failed : BOOLEAN, fresh : BOOLEAN]]
    /\ inflight \in [Provider -> [phase : {"none", "asked", "answered"}, ok : BOOLEAN, models : Models]]
    /\ waiter \in [Reader -> [phase : {"none", "missed", "joined", "done"}, provider : SUBSET Provider]]
    /\ seen \in [Reader -> SUBSET Results]
    /\ asking \in [Reader -> [forced : BOOLEAN, at : Nat]]
    /\ latest \in [Provider -> [n : Nat, ok : BOOLEAN, good : Models]]

\* An entry is what the refreshes of its provider left.
EntryIsLatest ==
    \A p \in Provider :
        /\ entry[p].known <=> latest[p].n > 0
        /\ entry[p].models = latest[p].good
        /\ entry[p].known => (entry[p].failed <=> ~latest[p].ok)

\* A request that was woken waited for a refresh that ended since it asked,
\* and one that waits, or is about to, asked before that refresh ends.
OneProviderEach == \A r \in Reader : \A p, q \in waiter[r].provider : p = q
WaitersAreLater ==
    \A r \in Reader : \A p \in waiter[r].provider :
        /\ waiter[r].phase \in {"missed", "joined"} => asking[r].at <= latest[p].n
        /\ waiter[r].phase = "done" => asking[r].at < latest[p].n

\* What a request was given is the state of the catalog after its refresh.
AnswersAreOfTheirTime ==
    \A r \in Reader : \A s \in seen[r] :
        /\ s.at <= latest[s.provider].n
        /\ s.at >= 0 => /\ asking[r].forced => s.at > asking[r].at
                        /\ s.at = latest[s.provider].n => s.models = latest[s.provider].good

CatalogInv == CatalogTypeOK /\ EntryIsLatest /\ OneProviderEach /\ WaitersAreLater /\ AnswersAreOfTheirTime

\* The invariant says what the property promises.
LEMMA CatalogInvSays == CatalogInv => CatalogStaysCurrent
  BY DEF CatalogInv, EntryIsLatest, AnswersAreOfTheirTime, CatalogStaysCurrent

\* What a request is given is the entry as it is now.
LEMMA ResultIsNow ==
    ASSUME CatalogInv, NEW p \in Provider
    PROVE  /\ Result(p) \in Results /\ Result(p).provider = p /\ Result(p).at = latest[p].n
           /\ Result(p).models = latest[p].good
           /\ Canceled(p) \in Results /\ Canceled(p).provider = p /\ Canceled(p).at = -1
<1>1. Result(p) \in Results /\ Result(p).provider = p /\ Result(p).at = latest[p].n
      /\ Result(p).models = latest[p].good
  BY DEF Result, Results, CatalogInv, CatalogTypeOK, EntryIsLatest, Models
<1>2. -1 \in Int /\ {} \in Models
  BY DEF Models
<1>3. /\ Canceled(p) \in Results /\ Canceled(p).provider = p /\ Canceled(p).at = -1
  BY <1>1, <1>2 DEF Canceled, Results
<1> QED
  BY <1>1, <1>3

\* A request reads, and is given the retained entry or has to ask for a refresh.
LEMMA SnapshotKeepsCatalogInv ==
    ASSUME CatalogInv, NEW r \in Reader, NEW p \in Provider, NEW refresh \in BOOLEAN,
           Snapshot(r, p, refresh)
    PROVE  CatalogInv'
<1>0. CatalogTypeOK
  BY DEF CatalogInv
<1>1. /\ UNCHANGED <<offered, entry, latest>> /\ waiter[r].phase = "none"
      /\ asking' = [asking EXCEPT ![r] = [forced |-> refresh, at |-> latest[p].n]]
  BY DEF Snapshot
<1>2. latest[p].n \in Nat
  BY <1>0 DEF CatalogTypeOK
<1>3. asking' \in [Reader -> [forced : BOOLEAN, at : Nat]]
  BY <1>0, <1>1, <1>2 DEF CatalogTypeOK
<1>4. CASE Retained(p, refresh)
  <2>1. seen' = [seen EXCEPT ![r] = {Result(p)}] /\ UNCHANGED <<waiter, inflight>> /\ ~refresh
    BY <1>4 DEF Snapshot, Retained
  <2>2. seen' \in [Reader -> SUBSET Results]
    BY <1>0, <2>1, ResultIsNow DEF CatalogTypeOK
  <2>3. CatalogTypeOK'
    BY <1>0, <1>1, <1>3, <2>1, <2>2 DEF CatalogTypeOK
  <2>4. WaitersAreLater'
    BY <1>0, <1>1, <2>1 DEF CatalogInv, WaitersAreLater, CatalogTypeOK
  <2>5. AnswersAreOfTheirTime'
    <3>1. SUFFICES ASSUME NEW q \in Reader, NEW s \in seen'[q]
                   PROVE  /\ s.at <= latest[s.provider].n
                          /\ s.at >= 0 =>
                                /\ asking'[q].forced => s.at > asking'[q].at
                                /\ s.at = latest[s.provider].n => s.models = latest[s.provider].good
      BY <1>1 DEF AnswersAreOfTheirTime
    <3>2. CASE q = r
      <4>1. s = Result(p) /\ asking'[q].forced = FALSE
        BY <1>0, <1>1, <2>1, <3>2 DEF CatalogTypeOK
      <4> QED
        BY <1>2, <4>1, ResultIsNow
    <3>3. CASE q # r
      BY <1>0, <1>1, <2>1, <3>3 DEF CatalogInv, AnswersAreOfTheirTime, CatalogTypeOK
    <3> QED
      BY <3>2, <3>3
  <2> QED
    BY <1>1, <2>1, <2>3, <2>4, <2>5 DEF CatalogInv, EntryIsLatest, OneProviderEach
<1>5. CASE ~Retained(p, refresh)
  <2>1. /\ waiter' = [waiter EXCEPT ![r] = [phase |-> "missed", provider |-> {p}]]
        /\ seen' = [seen EXCEPT ![r] = {}] /\ UNCHANGED inflight
    BY <1>1, <1>5 DEF Snapshot
  <2>2. CatalogTypeOK'
    <3>1. waiter' \in [Reader -> [phase : {"none", "missed", "joined", "done"}, provider : SUBSET Provider]]
      BY <1>0, <2>1 DEF CatalogTypeOK
    <3>2. seen' \in [Reader -> SUBSET Results]
      BY <1>0, <2>1 DEF CatalogTypeOK
    <3> QED
      BY <1>0, <1>1, <1>3, <2>1, <3>1, <3>2 DEF CatalogTypeOK
  <2>3. WaitersAreLater'
    BY <1>0, <1>1, <1>2, <2>1 DEF CatalogInv, WaitersAreLater, CatalogTypeOK
  <2>4. AnswersAreOfTheirTime'
    BY <1>0, <1>1, <2>1 DEF CatalogInv, AnswersAreOfTheirTime, CatalogTypeOK
  <2>5. OneProviderEach'
    BY <1>0, <2>1 DEF CatalogInv, OneProviderEach, CatalogTypeOK
  <2> QED
    BY <1>1, <2>2, <2>3, <2>4, <2>5 DEF CatalogInv, EntryIsLatest
<1> QED
  BY <1>4, <1>5

\* It joins the refresh under way by then, or starts one.
LEMMA JoiningKeepsCatalogInv ==
    ASSUME CatalogInv, NEW r \in Reader, NEW p \in Provider, RefreshCoalesced(r, p)
    PROVE  CatalogInv'
<1>0. CatalogTypeOK
  BY DEF CatalogInv
<1>1. /\ UNCHANGED <<offered, entry, seen, asking, latest>> /\ waiter[r].phase = "missed"
      /\ waiter' = [waiter EXCEPT ![r].phase = "joined"]
      /\ inflight' = inflight \/ inflight' = [inflight EXCEPT ![p].phase = "asked"]
  BY DEF RefreshCoalesced
<1>2. /\ waiter' \in [Reader -> [phase : {"none", "missed", "joined", "done"}, provider : SUBSET Provider]]
      /\ \A q \in Reader : /\ waiter'[q].provider = waiter[q].provider
                           /\ waiter'[q].phase = IF q = r THEN "joined" ELSE waiter[q].phase
  <2>1. waiter[r] \in [phase : {"none", "missed", "joined", "done"}, provider : SUBSET Provider]
    BY <1>0 DEF CatalogTypeOK
  <2>2. /\ [waiter[r] EXCEPT !.phase = "joined"]
              \in [phase : {"none", "missed", "joined", "done"}, provider : SUBSET Provider]
        /\ [waiter[r] EXCEPT !.phase = "joined"].phase = "joined"
        /\ [waiter[r] EXCEPT !.phase = "joined"].provider = waiter[r].provider
    BY <2>1
  <2>3. waiter' = [waiter EXCEPT ![r] = [waiter[r] EXCEPT !.phase = "joined"]]
    BY <1>1
  <2> QED
    BY <1>0, <2>2, <2>3 DEF CatalogTypeOK
<1>3. inflight' \in [Provider -> [phase : {"none", "asked", "answered"}, ok : BOOLEAN, models : Models]]
  <2>1. CASE inflight' = [inflight EXCEPT ![p].phase = "asked"]
    <3>1. inflight[p] \in [phase : {"none", "asked", "answered"}, ok : BOOLEAN, models : Models]
      BY <1>0 DEF CatalogTypeOK
    <3>2. [inflight[p] EXCEPT !.phase = "asked"]
             \in [phase : {"none", "asked", "answered"}, ok : BOOLEAN, models : Models]
      BY <3>1
    <3>3. inflight' = [inflight EXCEPT ![p] = [inflight[p] EXCEPT !.phase = "asked"]]
      BY <2>1
    <3> HIDE DEF Models
    <3> QED
      BY <1>0, <3>2, <3>3 DEF CatalogTypeOK
  <2> QED
    BY <1>0, <1>1, <2>1 DEF CatalogTypeOK
<1>4. CatalogTypeOK'
  BY <1>0, <1>1, <1>2, <1>3 DEF CatalogTypeOK
<1>5. WaitersAreLater'
  BY <1>1, <1>2 DEF CatalogInv, WaitersAreLater
<1>6. OneProviderEach'
  BY <1>2 DEF CatalogInv, OneProviderEach
<1> QED
  BY <1>1, <1>4, <1>5, <1>6 DEF CatalogInv, EntryIsLatest, AnswersAreOfTheirTime

\* A refresh ends: entry and waiters change in one section.
LEMMA RefreshKeepsCatalogInv ==
    ASSUME CatalogInv, NEW p \in Provider, RunRefreshEnds(p)
    PROVE  CatalogInv'
<1>0. CatalogTypeOK
  BY DEF CatalogInv
<1>1. /\ entry' = [entry EXCEPT ![p] = StoreRefresh(entry[p], inflight[p])]
      /\ inflight' = [inflight EXCEPT ![p] = NoRefresh]
      /\ waiter' = [r \in Reader |->
           IF waiter[r].phase = "joined" /\ p \in waiter[r].provider
           THEN [waiter[r] EXCEPT !.phase = "done"] ELSE waiter[r]]
      /\ latest' = [latest EXCEPT ![p] =
           [n |-> latest[p].n + 1, ok |-> inflight[p].ok,
            good |-> IF inflight[p].ok THEN inflight[p].models ELSE latest[p].good]]
      /\ UNCHANGED <<offered, seen, asking>>
  BY DEF RunRefreshEnds
<1>2. CatalogTypeOK'
  <2>1. entry' \in [Provider -> [known : BOOLEAN, models : Models, failed : BOOLEAN, fresh : BOOLEAN]]
    BY <1>0, <1>1 DEF CatalogTypeOK, StoreRefresh
  <2>2. inflight' \in [Provider -> [phase : {"none", "asked", "answered"}, ok : BOOLEAN, models : Models]]
    BY <1>0, <1>1 DEF CatalogTypeOK, NoRefresh, Models
  <2>3. waiter' \in [Reader -> [phase : {"none", "missed", "joined", "done"}, provider : SUBSET Provider]]
    <3>1. ASSUME NEW r \in Reader
          PROVE  waiter'[r] \in [phase : {"none", "missed", "joined", "done"}, provider : SUBSET Provider]
      <4>1. waiter[r] \in [phase : {"none", "missed", "joined", "done"}, provider : SUBSET Provider]
        BY <1>0 DEF CatalogTypeOK
      <4>2. waiter'[r] = waiter[r] \/ waiter'[r] = [waiter[r] EXCEPT !.phase = "done"]
        BY <1>1
      <4> QED
        BY <4>1, <4>2
    <3> QED
      BY <1>1, <3>1
  <2>4. latest' \in [Provider -> [n : Nat, ok : BOOLEAN, good : Models]]
    BY <1>0, <1>1 DEF CatalogTypeOK
  <2> QED
    BY <1>0, <1>1, <2>1, <2>2, <2>3, <2>4 DEF CatalogTypeOK
<1>3. /\ latest'[p].n = latest[p].n + 1 /\ latest[p].n \in Nat
      /\ \A q \in Provider : q # p => latest'[q] = latest[q] /\ entry'[q] = entry[q]
  BY <1>0, <1>1 DEF CatalogTypeOK
<1>4. EntryIsLatest'
  <2>1. SUFFICES ASSUME NEW q \in Provider
                 PROVE  /\ entry'[q].known <=> latest'[q].n > 0
                        /\ entry'[q].models = latest'[q].good
                        /\ entry'[q].known => (entry'[q].failed <=> ~latest'[q].ok)
    BY DEF EntryIsLatest
  <2>2. CASE q = p
    <3>1. entry'[p] = StoreRefresh(entry[p], inflight[p])
      BY <1>0, <1>1 DEF CatalogTypeOK
    <3>2. /\ latest'[p].ok = inflight[p].ok
          /\ latest'[p].good = IF inflight[p].ok THEN inflight[p].models ELSE latest[p].good
      BY <1>0, <1>1 DEF CatalogTypeOK
    <3>3. entry[p].models = latest[p].good
      BY DEF CatalogInv, EntryIsLatest
    <3>4. entry'[p].known = TRUE /\ entry'[p].failed = ~inflight[p].ok
          /\ entry'[p].models = IF inflight[p].ok THEN inflight[p].models ELSE entry[p].models
      BY <3>1 DEF StoreRefresh
    <3>5. latest'[p].n > 0
      BY <1>3
    <3> QED
      BY <2>2, <3>2, <3>3, <3>4, <3>5
  <2>3. CASE q # p
    BY <1>3, <2>3 DEF CatalogInv, EntryIsLatest
  <2> QED
    BY <2>2, <2>3
<1>5. WaitersAreLater'
  <2>1. SUFFICES ASSUME NEW r \in Reader, NEW q \in waiter'[r].provider
                 PROVE  /\ waiter'[r].phase \in {"missed", "joined"} => asking[r].at <= latest'[q].n
                        /\ waiter'[r].phase = "done" => asking[r].at < latest'[q].n
    BY <1>1 DEF WaitersAreLater
  <2>2. waiter'[r].provider = waiter[r].provider /\ asking[r].at \in Nat /\ latest[q].n \in Nat /\ q \in Provider
    BY <1>0, <1>1, <1>2 DEF CatalogTypeOK
  <2>3. /\ waiter[r].phase \in {"missed", "joined"} => asking[r].at <= latest[q].n
        /\ waiter[r].phase = "done" => asking[r].at < latest[q].n
    BY <2>2 DEF CatalogInv, WaitersAreLater
  <2> QED
    <3>1. CASE q = p
      <4>1. /\ waiter[r].phase # "none" => asking[r].at <= latest[p].n
            /\ waiter'[r].phase = "none" <=> waiter[r].phase = "none"
        BY <1>0, <1>1, <1>2, <2>2, <2>3, <3>1 DEF CatalogTypeOK
      <4> QED
        BY <1>3, <2>2, <3>1, <4>1
    <3>2. CASE q # p
      <4>1. waiter'[r].phase \in {"missed", "joined"} => waiter[r].phase = waiter'[r].phase
        BY <1>1
      <4>2. waiter[r].phase = "joined" /\ waiter'[r].phase = "done" => p \in waiter[r].provider
        BY <1>1
      <4>3. latest'[q] = latest[q]
        BY <1>3, <2>2, <3>2
      <4>4. ~(waiter[r].phase = "joined" /\ waiter'[r].phase = "done")
        BY <2>2, <3>2, <4>2 DEF CatalogInv, OneProviderEach
      <4>5. waiter'[r].phase = "done" => waiter[r].phase = "done"
        BY <1>1, <4>4
      <4> QED
        BY <2>3, <4>1, <4>3, <4>5
    <3> QED
      BY <3>1, <3>2
<1>6. AnswersAreOfTheirTime'
  <2>1. SUFFICES ASSUME NEW r \in Reader, NEW s \in seen[r]
                 PROVE  /\ s.at <= latest'[s.provider].n
                        /\ s.at >= 0 =>
                              /\ asking[r].forced => s.at > asking[r].at
                              /\ s.at = latest'[s.provider].n => s.models = latest'[s.provider].good
    BY <1>1 DEF AnswersAreOfTheirTime
  <2>2. s \in Results
    BY <1>0 DEF CatalogTypeOK
  <2>3. s.at \in Int /\ s.provider \in Provider
    BY <2>2 DEF Results
  <2>4. /\ s.at <= latest[s.provider].n
        /\ s.at >= 0 => /\ asking[r].forced => s.at > asking[r].at
                        /\ s.at = latest[s.provider].n => s.models = latest[s.provider].good
    BY DEF CatalogInv, AnswersAreOfTheirTime
  <2>5. CASE s.provider = p
    BY <1>3, <2>3, <2>4, <2>5
  <2>6. CASE s.provider # p
    BY <1>3, <2>3, <2>4, <2>6
  <2> QED
    BY <2>5, <2>6
<1>7. OneProviderEach'
  <2>1. \A r \in Reader : waiter'[r].provider = waiter[r].provider
    BY <1>0, <1>1 DEF CatalogTypeOK
  <2> QED
    BY <2>1 DEF CatalogInv, OneProviderEach
<1> QED
  BY <1>2, <1>4, <1>5, <1>6, <1>7 DEF CatalogInv

\* A waiter reads what is retained by then, or goes away.
LEMMA WaitEndsKeepsCatalogInv ==
    ASSUME CatalogInv, NEW r \in Reader, NEW canceled \in BOOLEAN, WaitEnds(r, canceled)
    PROVE  CatalogInv'
<1>0. CatalogTypeOK
  BY DEF CatalogInv
<1>1. PICK p \in waiter[r].provider :
          seen' = [seen EXCEPT ![r] = {IF canceled THEN Canceled(p) ELSE Result(p)}]
  BY DEF WaitEnds
<1>2. /\ waiter' = [waiter EXCEPT ![r] = NoWait] /\ UNCHANGED <<offered, entry, inflight, asking, latest>>
      /\ ~canceled => waiter[r].phase = "done"
  BY DEF WaitEnds
<1>3. p \in Provider /\ asking[r].at \in Nat /\ latest[p].n \in Nat
  BY <1>0 DEF CatalogTypeOK
<1>4. ~canceled => asking[r].at < latest[p].n
  BY <1>2 DEF CatalogInv, WaitersAreLater
<1>5. CatalogTypeOK'
  <2>1. seen' \in [Reader -> SUBSET Results]
    BY <1>0, <1>1, <1>3, ResultIsNow DEF CatalogTypeOK
  <2>2. waiter' \in [Reader -> [phase : {"none", "missed", "joined", "done"}, provider : SUBSET Provider]]
    BY <1>0, <1>2 DEF CatalogTypeOK, NoWait
  <2> QED
    BY <1>0, <1>2, <2>1, <2>2 DEF CatalogTypeOK
<1>6. WaitersAreLater'
  BY <1>0, <1>2 DEF CatalogInv, WaitersAreLater, CatalogTypeOK, NoWait
<1>7. AnswersAreOfTheirTime'
  <2>1. SUFFICES ASSUME NEW q \in Reader, NEW s \in seen'[q]
                 PROVE  /\ s.at <= latest[s.provider].n
                        /\ s.at >= 0 =>
                              /\ asking[q].forced => s.at > asking[q].at
                              /\ s.at = latest[s.provider].n => s.models = latest[s.provider].good
    BY <1>2 DEF AnswersAreOfTheirTime
  <2>2. CASE q = r
    <3>1. s = IF canceled THEN Canceled(p) ELSE Result(p)
      BY <1>0, <1>1, <2>2 DEF CatalogTypeOK
    <3> QED
      BY <1>3, <1>4, <2>2, <3>1, ResultIsNow
  <2>3. CASE q # r
    BY <1>0, <1>1, <2>3 DEF CatalogInv, AnswersAreOfTheirTime, CatalogTypeOK
  <2> QED
    BY <2>2, <2>3
<1>8. OneProviderEach'
  BY <1>0, <1>2 DEF CatalogInv, OneProviderEach, CatalogTypeOK, NoWait
<1> QED
  BY <1>2, <1>5, <1>6, <1>7, <1>8 DEF CatalogInv, EntryIsLatest

\* The inductive step.
LEMMA CatalogStep ==
    ASSUME CatalogInv, [CatalogNext]_catalogVars
    PROVE  CatalogInv'
<1>0. CatalogTypeOK
  BY DEF CatalogInv
<1>1. ASSUME NEW p \in Provider, NEW ok \in BOOLEAN, ProviderAnswers(p, ok)
      PROVE  CatalogInv'
  <2>1. /\ UNCHANGED <<offered, entry, waiter, seen, asking, latest>>
        /\ inflight' = [inflight EXCEPT ![p] =
             [phase |-> "answered", ok |-> ok, models |-> IF ok THEN offered[p] ELSE {}]]
    BY <1>1 DEF ProviderAnswers
  <2>2. (IF ok THEN offered[p] ELSE {}) \in Models
    BY <1>0 DEF CatalogTypeOK, Models
  <2>3. CatalogTypeOK'
    BY <1>0, <2>1, <2>2 DEF CatalogTypeOK
  <2> QED
    BY <2>1, <2>3 DEF CatalogInv, EntryIsLatest, OneProviderEach, WaitersAreLater, AnswersAreOfTheirTime
<1>2. ASSUME NEW p \in Provider, WindowEnds(p)
      PROVE  CatalogInv'
  <2>1. /\ UNCHANGED <<offered, inflight, waiter, seen, asking, latest>>
        /\ entry' = [entry EXCEPT ![p].fresh = FALSE]
    BY <1>2 DEF WindowEnds
  <2>2. CatalogTypeOK'
    <3>1. entry[p] \in [known : BOOLEAN, models : Models, failed : BOOLEAN, fresh : BOOLEAN]
      BY <1>0 DEF CatalogTypeOK
    <3>2. [entry[p] EXCEPT !.fresh = FALSE] \in [known : BOOLEAN, models : Models, failed : BOOLEAN, fresh : BOOLEAN]
      BY <3>1
    <3>3. entry' = [entry EXCEPT ![p] = [entry[p] EXCEPT !.fresh = FALSE]]
      BY <2>1
    <3>4. entry' \in [Provider -> [known : BOOLEAN, models : Models, failed : BOOLEAN, fresh : BOOLEAN]]
      BY <1>0, <3>2, <3>3 DEF CatalogTypeOK
    <3> QED
      BY <1>0, <2>1, <3>4 DEF CatalogTypeOK
  <2>3. EntryIsLatest'
    <3>1. ASSUME NEW q \in Provider
          PROVE  entry'[q].known = entry[q].known /\ entry'[q].models = entry[q].models
                 /\ entry'[q].failed = entry[q].failed
      BY <1>0, <2>1 DEF CatalogTypeOK
    <3> QED
      BY <2>1, <3>1 DEF CatalogInv, EntryIsLatest
  <2> QED
    BY <2>1, <2>2, <2>3 DEF CatalogInv, OneProviderEach, WaitersAreLater, AnswersAreOfTheirTime
<1>3. ASSUME NEW p \in Provider, OffersOther(p)
      PROVE  CatalogInv'
  <2>1. /\ UNCHANGED <<entry, inflight, waiter, seen, asking, latest>>
        /\ offered' = [offered EXCEPT ![p] = Selection \ offered[p]]
    BY <1>3 DEF OffersOther
  <2>2. CatalogTypeOK'
    BY <1>0, <2>1 DEF CatalogTypeOK, Models
  <2> QED
    BY <2>1, <2>2 DEF CatalogInv, EntryIsLatest, OneProviderEach, WaitersAreLater, AnswersAreOfTheirTime
<1>4. CASE UNCHANGED catalogVars
  BY <1>4 DEF CatalogInv, CatalogTypeOK, EntryIsLatest, OneProviderEach, WaitersAreLater,
              AnswersAreOfTheirTime, catalogVars
<1> QED
  BY <1>1, <1>2, <1>3, <1>4, SnapshotKeepsCatalogInv, JoiningKeepsCatalogInv, RefreshKeepsCatalogInv,
     WaitEndsKeepsCatalogInv
  DEF CatalogNext

\* The inductive invariant of the catalog (provider_catalog.go): what waits,
\* what is retained and what was given agree on the refreshes that ended.
THEOREM CatalogCorrect == CatalogSpec => []CatalogInv
<1>1. CatalogInit => CatalogInv
  <2> SUFFICES ASSUME CatalogInit PROVE CatalogInv
    OBVIOUS
  <2>1. CatalogTypeOK
    BY DEF CatalogInit, CatalogTypeOK, Models, NoEntry, NoRefresh, NoWait
  <2>2. EntryIsLatest
    <3>1. ASSUME NEW p \in Provider
          PROVE  entry[p].known = FALSE /\ entry[p].models = {} /\ latest[p].n = 0 /\ latest[p].good = {}
      BY DEF CatalogInit, NoEntry
    <3>2. ASSUME NEW p \in Provider
          PROVE  ~entry[p].known /\ ~(latest[p].n > 0) /\ entry[p].models = latest[p].good
      <4>1. ~entry[p].known
        BY <3>1, Zenon
      <4>2. latest[p].n = 0 /\ entry[p].models = latest[p].good
        BY <3>1, Zenon
      <4>3. ~(latest[p].n > 0)
        BY <4>2
      <4> QED
        BY <4>1, <4>2, <4>3
    <3> QED
      BY <3>2, Zenon DEF EntryIsLatest
  <2>3. OneProviderEach /\ WaitersAreLater /\ AnswersAreOfTheirTime
    BY DEF CatalogInit, OneProviderEach, WaitersAreLater, AnswersAreOfTheirTime, NoWait
  <2> QED
    BY <2>1, <2>2, <2>3 DEF CatalogInv
<1> QED
  BY <1>1, CatalogStep, PTL DEF CatalogSpec

\* Entries are what the last refresh left, and a forced read returns the state
\* after a refresh that ended later than it was asked (refreshCoalesced).
THEOREM CatalogIsCurrent == CatalogSpec => []CatalogStaysCurrent
  BY CatalogCorrect, CatalogInvSays, PTL

-----------------------------------------------------------------------------
(* The library.                                                             *)

OneRowEach == rows = [id \in Record |-> rows[id]] /\ \A id \in Record : \A r, s \in rows[id] : r = s
LibraryInv == OneRowEach /\ LibraryStaysWhole

\* How far below a library a record is.
Depth(id) ==
    IF Level[id] = "library" THEN 1 ELSE IF Level[id] = "work" THEN 2
    ELSE IF Level[id] = "edition" THEN 3 ELSE IF Level[id] = "chapter" THEN 4 ELSE 5

\* A parent is one level above.
LEMMA ParentsAreAbove ==
    \A id \in Record : /\ Depth(id) \in 1 .. 5
                       /\ \A p \in Parents(id) : p \in Record /\ Depth(id) = Depth(p) + 1
<1> SUFFICES ASSUME NEW id \in Record, NEW p \in Parents(id)
             PROVE  p \in Record /\ Depth(id) = Depth(p) + 1
  BY DEF Depth
<1>1. PICK i \in DOMAIN Levels : i > 1 /\ Levels[i] = Level[id] /\ Level[p] = Levels[i - 1]
  BY DEF Parents
<1>2. i \in 2 .. 5
  BY <1>1 DEF Levels
<1>3. /\ Levels[1] = "library" /\ Levels[2] = "work" /\ Levels[3] = "edition"
      /\ Levels[4] = "chapter" /\ Levels[5] = "source_asset"
  BY DEF Levels
<1>4. CASE i = 2
  BY <1>1, <1>3, <1>4 DEF Depth, Parents
<1>5. CASE i = 3
  BY <1>1, <1>3, <1>5 DEF Depth, Parents
<1>6. CASE i = 4
  BY <1>1, <1>3, <1>6 DEF Depth, Parents
<1>7. CASE i = 5
  BY <1>1, <1>3, <1>7 DEF Depth, Parents
<1> QED
  BY <1>2, <1>4, <1>5, <1>6, <1>7

\* Four steps down reach everything below a record: below the fifth level
\* there is nothing.
LEMMA NothingIsBelowBelow ==
    ASSUME LibraryInv, NEW id \in Kept, NEW c \in Kept, RowOf(c).parent \cap Below({id}) # {}
    PROVE  c \in Below({id})
<1> DEFINE s0 == {id}
           s1 == ChildrenOf(s0)
           s2 == ChildrenOf(s1)
           s3 == ChildrenOf(s2)
           s4 == ChildrenOf(s3)
<1>1. Below({id}) = s4
  BY DEF Below, ChildrenOf
<1>2. \A x \in Kept : \A q \in RowOf(x).parent : q \in Kept /\ Depth(x) = Depth(q) + 1
  BY ParentsAreAbove DEF LibraryInv, LibraryStaysWhole, Kept
<1>3. \A s : \A x : x \in ChildrenOf(s) <=> x \in s \/ (x \in Kept /\ RowOf(x).parent \cap s # {})
  BY DEF ChildrenOf
<1>4. \A x \in Kept : Depth(x) \in 1 .. 5
  BY ParentsAreAbove DEF Kept
<1>5. \A x \in s1 \ s0 : x \in Kept /\ Depth(x) = Depth(id) + 1
  BY <1>2, <1>3
<1> HIDE DEF s1
<1>6. \A x \in s2 \ s1 : x \in Kept /\ Depth(x) = Depth(id) + 2
  <2>1. SUFFICES ASSUME NEW x \in s2 \ s1 PROVE x \in Kept /\ Depth(x) = Depth(id) + 2
    OBVIOUS
  <2>2. PICK q \in RowOf(x).parent : q \in s1 /\ x \in Kept
    BY <1>3, <2>1
  <2>3. q \notin s0
    BY <1>3, <2>1, <2>2 DEF s1
  <2> QED
    BY <1>2, <1>4, <1>5, <2>2, <2>3
<1>7. \A x \in s3 \ s2 : x \in Kept /\ Depth(x) = Depth(id) + 3
  <2>1. SUFFICES ASSUME NEW x \in s3 \ s2 PROVE x \in Kept /\ Depth(x) = Depth(id) + 3
    OBVIOUS
  <2>2. PICK q \in RowOf(x).parent : q \in s2 /\ x \in Kept
    BY <1>3, <2>1
  <2>3. q \notin s1
    BY <1>3, <2>1, <2>2
  <2> QED
    BY <1>2, <1>4, <1>6, <2>2, <2>3
<1>8. \A x \in s4 \ s3 : x \in Kept /\ Depth(x) = Depth(id) + 4
  <2>1. SUFFICES ASSUME NEW x \in s4 \ s3 PROVE x \in Kept /\ Depth(x) = Depth(id) + 4
    OBVIOUS
  <2>2. PICK q \in RowOf(x).parent : q \in s3 /\ x \in Kept
    BY <1>3, <2>1
  <2>3. q \notin s2
    BY <1>3, <2>1, <2>2
  <2> QED
    BY <1>2, <1>4, <1>7, <2>2, <2>3
<1>9. PICK q \in RowOf(c).parent : q \in s4
  BY <1>1
<1>10. CASE q \in s3
  BY <1>1, <1>3, <1>9, <1>10
<1>11. CASE q \notin s3
  BY <1>2, <1>4, <1>8, <1>9, <1>11
<1> QED
  BY <1>10, <1>11

\* A row is written under a stored parent, with timings in order.
LEMMA WriteRowKeepsLibraryInv ==
    ASSUME LibraryInv, NEW id \in Record, NEW parent \in ParentSets(id), NEW time,
           WriteRow(id, parent, time)
    PROVE  LibraryInv'
<1>1. /\ rows' = [rows EXCEPT ![id] = {[parent |-> parent, time |-> time]}]
      /\ ParentStored(id, parent) /\ ValidTime(time)
  BY DEF WriteRow
<1>2. /\ rows'[id] = {[parent |-> parent, time |-> time]}
      /\ \A r \in Record : r # id => rows'[r] = rows[r]
  BY <1>1 DEF LibraryInv, OneRowEach
<1>3. RowOf(id)' = [parent |-> parent, time |-> time]
  BY <1>2 DEF RowOf
<1>4. Kept' = Kept \cup {id}
  BY <1>2 DEF Kept
<1>5. ASSUME NEW r \in Kept'
      PROVE  /\ IF Parents(r) = {} THEN RowOf(r)'.parent = {}
                ELSE /\ Cardinality(RowOf(r)'.parent) = 1
                     /\ RowOf(r)'.parent \subseteq Parents(r) \cap Kept'
             /\ \A f \in Timing : RowOf(r)'.time[f] >= 0
             /\ RowOf(r)'.time["start_ms"] <= RowOf(r)'.time["end_ms"]
  <2>1. CASE r = id
    <3>1. Parents(id) # {} => Cardinality(parent) = 1
      BY FS_Singleton DEF ParentSets
    <3> QED
      BY <1>1, <1>3, <1>4, <2>1, <3>1 DEF ParentStored, ValidTime
  <2>2. CASE r # id
    <3>1. r \in Kept /\ RowOf(r)' = RowOf(r)
      BY <1>2, <1>4, <2>2 DEF RowOf, Kept
    <3> QED
      BY <1>4, <3>1 DEF LibraryInv, LibraryStaysWhole
  <2> QED
    BY <2>1, <2>2
<1>6. LibraryStaysWhole'
  BY <1>5 DEF LibraryStaysWhole, Parents
<1>7. OneRowEach'
  BY <1>1, <1>2 DEF LibraryInv, OneRowEach
<1> QED
  BY <1>6, <1>7 DEF LibraryInv

\* A record is deleted with all that is below it.
LEMMA DeletingKeepsLibraryInv ==
    ASSUME LibraryInv, NEW id \in Record, DeleteRecord(id)
    PROVE  LibraryInv'
<1>1. id \in Kept /\ rows' = [r \in Record |-> IF r \in Below({id}) THEN {} ELSE rows[r]]
  BY DEF DeleteRecord
<1>2. Kept' = Kept \ Below({id})
  BY <1>1 DEF Kept
<1>3. \A r \in Kept' : RowOf(r)' = RowOf(r)
  BY <1>1, <1>2 DEF RowOf, Kept
<1>4. \A r \in Kept' : RowOf(r).parent \cap Below({id}) = {}
  BY <1>1, <1>2, NothingIsBelowBelow
<1>5. LibraryStaysWhole'
  BY <1>2, <1>3, <1>4 DEF LibraryInv, LibraryStaysWhole, Parents
<1>6. OneRowEach'
  BY <1>1 DEF LibraryInv, OneRowEach
<1> QED
  BY <1>5, <1>6 DEF LibraryInv

\* Rows stay under stored parents and timings in order: the cascade of
\* migration 002 is as deep as the hierarchy (library/store.go).
THEOREM LibraryCorrect == LibrarySpec => []LibraryStaysWhole
<1>1. LibraryInit => LibraryInv
  BY DEF LibraryInit, LibraryInv, OneRowEach, LibraryStaysWhole, Kept
<1>2. LibraryInv /\ [LibraryNext]_rows => LibraryInv'
  <2>1. ASSUME LibraryInv, NEW id \in Record, NEW parent \in ParentSets(id), NEW body \in TimingsOf(id),
               CreateRecord(id, parent, body) \/ UpdateRecord(id, parent, body)
        PROVE  LibraryInv'
    BY <2>1, WriteRowKeepsLibraryInv DEF CreateRecord, UpdateRecord
  <2>2. ASSUME LibraryInv, UNCHANGED rows
        PROVE  LibraryInv'
    BY <2>2 DEF LibraryInv, OneRowEach, LibraryStaysWhole, Kept, RowOf
  <2> QED
    BY <2>1, <2>2, DeletingKeepsLibraryInv DEF LibraryNext
<1>3. LibraryInv => LibraryStaysWhole
  BY DEF LibraryInv
<1> QED
  BY <1>1, <1>2, <1>3, PTL DEF LibrarySpec

-----------------------------------------------------------------------------
(* The profiles.                                                            *)

\* Every tuple that is mentioned anywhere, and the items a body or a profile
\* is checked by.
Mentioned(i) == Range(i.bindings) \cup i.explore
OfBodies == UNION {Mentioned(i) : i \in Inputs \cup Bootstrap}
OfLegacy == UNION {UNION {Mentioned(r) : r \in Legacy[id]} : id \in Profile}
Tuples   == (UNION Listings) \cup OfBodies \cup OfLegacy
Items == [stage : RegisteredStages \cup {"explore"}, binding : Tuples]

\* A stored profile: a binding for Explore, at most one selection of a type.
RowOK(r) ==
    /\ r = [name |-> r.name, bindings |-> r.bindings, explore |-> r.explore, prompts |-> r.prompts]
    /\ DOMAIN r.bindings = RegisteredStages
    /\ \E b \in r.explore : r.explore = {b}
    /\ r.prompts \in SUBSET (PromptTypes \X Nat)
    /\ \A x, y \in r.prompts : x[1] = y[1] => x = y

\* A profile has one row, no other has its name, and its selections are saved.
RowsAreWhole ==
    /\ profiles = [id \in Profile |-> profiles[id]]
    /\ \A id \in Profile : \A r \in profiles[id] :
          /\ profiles[id] = {r} /\ RowOK(r) /\ SavedPrompts(r)
          /\ \A other \in Profile \ {id} : \A q \in profiles[other] : q.name # r.name
    /\ active \subseteq Stored
    /\ versions \in [PromptTypes -> Nat]
    /\ boot \in {"prompts", "profile", "activate", "up"}

\* Once the prompt library is seeded every type has a version, and every
\* profile a selection of every type.
LibraryIsSeeded ==
    boot # "prompts" =>
        /\ \A t \in PromptTypes : versions[t] >= 1
        /\ \A id \in Profile : \A r \in profiles[id] : OneEach(r.prompts)

\* What is stored, queued, or listed now was listed once.
StoredWereListed ==
    /\ listing \subseteq everListed /\ everListed \subseteq Tuples
    /\ \A id \in Profile : \A r \in profiles[id] : Mentioned(r) \subseteq everListed
    /\ \A c \in Request : \A q \in queued[c] :
          \A i \in DOMAIN q.bindings : q.bindings[i].binding \in everListed
    /\ queued = [c \in Request |-> queued[c]]

\* A request under way: each tuple of its body was listed or is still to be
\* checked, and what it captured was stored.
Underway(k, listed) ==
    /\ DOMAIN k = {"kind", "step", "id", "input", "stored", "bindings", "todo"}
    /\ k.kind \in Captures \cup {"create", "replace", "activate"}
    /\ k.step \in {"read", "check"}
    /\ k.id \in Profile /\ k.todo \in Seq(Items)
    /\ k.kind \in {"create", "replace"} => k.input \in Inputs
    /\ \A b \in k.stored : DOMAIN b = RegisteredStages /\ Range(b) \subseteq listed
    /\ k.step = "check" /\ k.kind \in {"create", "replace"} =>
          \A b \in Mentioned(k.input) :
              b \in listed \/ \E i \in 1 .. Len(k.todo) : k.todo[i].binding = b
    /\ k.step = "check" /\ k.kind \in Captures =>
          \A i \in DOMAIN k.bindings : k.bindings[i].binding \in listed
    /\ k.step = "read" => k.kind # "create"

RequestsAreChecked ==
    /\ call = [c \in Request |-> call[c]]
    /\ \A c \in Request : call[c] \in {NotStarted, Ended} \/ Underway(call[c], everListed)

ProfilesInv == RowsAreWhole /\ LibraryIsSeeded /\ StoredWereListed /\ RequestsAreChecked

\* The row of a stored profile.
LEMMA StoredRow ==
    ASSUME RowsAreWhole, NEW id \in Profile
    PROVE  /\ id \in Stored => Row(id) \in profiles[id]
           /\ \A r \in profiles[id] : /\ id \in Stored /\ r = Row(id)
                                      /\ ExploreOf(id) = r.explore /\ PromptsOf(id) = r.prompts
                                      /\ BindingsOf(id) = {r.bindings}
           /\ profiles[id] = {} => ExploreOf(id) = {} /\ PromptsOf(id) = {} /\ BindingsOf(id) = {}
<1>1. id \in Stored => Row(id) \in profiles[id]
  BY DEF Stored, Row
<1>2. ASSUME NEW r \in profiles[id]
      PROVE  /\ id \in Stored /\ r = Row(id)
             /\ ExploreOf(id) = r.explore /\ PromptsOf(id) = r.prompts /\ BindingsOf(id) = {r.bindings}
  <2>1. profiles[id] = {r}
    BY DEF RowsAreWhole
  <2> QED
    BY <1>1, <2>1 DEF Stored, ExploreOf, PromptsOf, BindingsOf
<1>3. profiles[id] = {} => ExploreOf(id) = {} /\ PromptsOf(id) = {} /\ BindingsOf(id) = {}
  BY DEF ExploreOf, PromptsOf, BindingsOf
<1> QED
  BY <1>1, <1>2, <1>3

\* The invariant says what both properties promise.
LEMMA ProfilesInvSays == ProfilesInv => ProfilesAreWhole /\ BindingsWereListed
<1> SUFFICES ASSUME ProfilesInv PROVE ProfilesAreWhole /\ BindingsWereListed
  OBVIOUS
<1>0. RowsAreWhole /\ LibraryIsSeeded /\ StoredWereListed
  BY DEF ProfilesInv
<1>1. BindingsWereListed
  <2>1. ASSUME NEW id \in Stored
        PROVE  Range(Row(id).bindings) \cup ExploreOf(id) \subseteq everListed
    <3>1. id \in Profile
      BY DEF Stored
    <3> QED
      BY <1>0, <3>1, StoredRow DEF StoredWereListed, Mentioned
  <2> QED
    BY <1>0, <2>1 DEF StoredWereListed, BindingsWereListed
<1>2. ASSUME boot = "up", NEW id \in Stored
      PROVE  /\ ExploreOf(id) # {} /\ SavedPrompts(Row(id))
             /\ \A t \in PromptTypes : Cardinality({x \in PromptsOf(id) : x[1] = t}) = 1
             /\ ~NameTaken(id, Row(id).name)
  <2>1. id \in Profile /\ Row(id) \in profiles[id]
    BY <1>0, StoredRow DEF Stored
  <2>2. ExploreOf(id) = Row(id).explore /\ PromptsOf(id) = Row(id).prompts /\ RowOK(Row(id))
        /\ SavedPrompts(Row(id)) /\ OneEach(Row(id).prompts)
    BY <1>0, <1>2, <2>1, StoredRow DEF RowsAreWhole, LibraryIsSeeded
  <2>3. ASSUME NEW t \in PromptTypes PROVE Cardinality({x \in PromptsOf(id) : x[1] = t}) = 1
    <3>1. PICK x \in PromptsOf(id) : x[1] = t
      BY <2>2 DEF OneEach
    <3>2. {y \in PromptsOf(id) : y[1] = t} = {x}
      BY <2>2, <3>1 DEF OneEach
    <3> QED
      BY <3>2, FS_Singleton
  <2>4. ~NameTaken(id, Row(id).name)
    <3>1. ASSUME NEW q \in Stored \ {id} PROVE Row(q).name # Row(id).name
      <4>1. q \in Profile \ {id} /\ Row(q) \in profiles[q]
        BY <1>0, StoredRow DEF Stored
      <4> QED
        BY <1>0, <2>1, <4>1 DEF RowsAreWhole
    <3> QED
      BY <3>1 DEF NameTaken
  <2> QED
    BY <2>2, <2>3, <2>4 DEF RowOK
<1>3. ProfilesAreWhole
  BY <1>0, <1>2 DEF ProfilesAreWhole, RowsAreWhole
<1> QED
  BY <1>1, <1>3

\* The first versions of all types are a complete selection.
LEMMA Defaults == OneEach(DefaultSelections) /\ \A x \in DefaultSelections : x[2] = 1
<1>1. DefaultSelections \in SUBSET (PromptTypes \X Nat) /\ \A x \in DefaultSelections : x = <<x[1], 1>>
  BY DEF DefaultSelections
<1>2. \A x, y \in DefaultSelections : x[1] = y[1] => x = y
  BY <1>1
<1>3. ASSUME NEW t \in PromptTypes PROVE \E x \in DefaultSelections : x[1] = t
  <2>1. <<t, 1>> \in DefaultSelections /\ <<t, 1>>[1] = t
    BY DEF DefaultSelections
  <2> QED
    BY <2>1
<1>4. \A x \in DefaultSelections : x[2] = 1
  BY <1>1
<1> QED
  BY <1>1, <1>2, <1>3, <1>4 DEF OneEach

\* Seeding gives every type a version and takes none away.
LEMMA Seeding ==
    ASSUME versions \in [PromptTypes -> Nat]
    PROVE  /\ SeedTypes \in [PromptTypes -> Nat]
           /\ \A t \in PromptTypes : SeedTypes[t] >= 1 /\ SeedTypes[t] >= versions[t]
BY DEF SeedTypes

\* Saved selections stay saved: versions are only added.
LEMMA SavedStaySaved ==
    ASSUME versions \in [PromptTypes -> Nat], versions' \in [PromptTypes -> Nat],
           \A t \in PromptTypes : versions'[t] >= versions[t],
           NEW r, r.prompts \in SUBSET (PromptTypes \X Nat), SavedPrompts(r)
    PROVE  \A x \in r.prompts : x[2] \in 1 .. versions'[x[1]]
<1> SUFFICES ASSUME NEW x \in r.prompts PROVE x[2] \in 1 .. versions'[x[1]]
  OBVIOUS
<1>1. x[1] \in PromptTypes /\ x[2] \in Nat
  OBVIOUS
<1>2. x[2] \in 1 .. versions[x[1]]
  BY DEF SavedPrompts
<1>3. versions[x[1]] \in Nat /\ versions'[x[1]] \in Nat /\ versions'[x[1]] >= versions[x[1]]
  BY <1>1
<1> QED
  BY <1>1, <1>2, <1>3

\* What create and replace write is a whole profile.
LEMMA BodiesAreWhole ==
    ASSUME NEW input \in Inputs \cup Bootstrap
    PROVE  /\ RowOK(Created(input)) /\ OneEach(Created(input).prompts)
           /\ Created(input).name = input.name
           /\ Mentioned(Created(input)) \subseteq Mentioned(input)
           /\ \A old : RowOK(old) =>
                /\ RowOK(Replaced(old, input)) /\ Replaced(old, input).name = input.name
                /\ OneEach(old.prompts) => OneEach(Replaced(old, input).prompts)
                /\ Mentioned(Replaced(old, input)) \subseteq Mentioned(input) \cup Mentioned(old)
<1>1. /\ DOMAIN input.bindings = RegisteredStages
      /\ input.explore = {} \/ \E b \in input.explore : input.explore = {b}
      /\ input.prompts = {} \/ OneEach(input.prompts)
  BY ProfilesAssumption DEF ProfilesAssumption
<1>2. input.bindings["translation"] \in Range(input.bindings)
  BY <1>1 DEF Range, RegisteredStages
<1>3. /\ RowOK(Created(input)) /\ OneEach(Created(input).prompts)
      /\ Created(input).name = input.name
  <2> DEFINE r == Created(input)
  <2>1. /\ r = [name |-> input.name, bindings |-> input.bindings, explore |-> r.explore, prompts |-> r.prompts]
        /\ r.explore = IF input.explore = {} THEN {input.bindings["translation"]} ELSE input.explore
        /\ r.prompts = IF input.prompts = {} THEN DefaultSelections ELSE input.prompts
    BY DEF Created
  <2>2. OneEach(r.prompts)
    BY <1>1, <2>1, Defaults
  <2>3. \E b \in r.explore : r.explore = {b}
    BY <1>1, <2>1
  <2> HIDE DEF r
  <2> QED
    BY <1>1, <2>1, <2>2, <2>3 DEF RowOK, OneEach, r
<1>4. Mentioned(Created(input)) \subseteq Mentioned(input)
  BY <1>2 DEF Mentioned, Created
<1>5. ASSUME NEW old, RowOK(old)
      PROVE  /\ RowOK(Replaced(old, input)) /\ Replaced(old, input).name = input.name
             /\ OneEach(old.prompts) => OneEach(Replaced(old, input).prompts)
             /\ Mentioned(Replaced(old, input)) \subseteq Mentioned(input) \cup Mentioned(old)
  <2> DEFINE r == Replaced(old, input)
  <2>1. /\ r = [name |-> input.name, bindings |-> input.bindings, explore |-> r.explore, prompts |-> r.prompts]
        /\ r.explore = IF input.explore = {} THEN old.explore ELSE input.explore
        /\ r.prompts = IF input.prompts = {} THEN old.prompts ELSE input.prompts
    BY DEF Replaced
  <2>2. /\ r.prompts \in SUBSET (PromptTypes \X Nat)
        /\ \A x, y \in r.prompts : x[1] = y[1] => x = y
    <3>1. CASE input.prompts = {}
      BY <1>5, <2>1, <3>1 DEF RowOK
    <3>2. CASE input.prompts # {}
      BY <1>1, <2>1, <3>2 DEF OneEach
    <3> QED
      BY <3>1, <3>2
  <2>3. OneEach(old.prompts) => OneEach(r.prompts)
    BY <1>1, <2>1
  <2>4. \E b \in r.explore : r.explore = {b}
    BY <1>1, <1>5, <2>1 DEF RowOK
  <2>5. Mentioned(r) \subseteq Mentioned(input) \cup Mentioned(old)
    BY DEF Mentioned, Replaced
  <2> HIDE DEF r
  <2> QED
    BY <1>1, <2>1, <2>2, <2>3, <2>4, <2>5 DEF RowOK, r
<1> QED
  BY <1>3, <1>4, <1>5

\* A row is written: by create, replace or rename.
LEMMA WritingARow ==
    ASSUME ProfilesInv, NEW id \in Profile, NEW r, RowOK(r),
           profiles' = [profiles EXCEPT ![id] = {r}],
           \A other \in Profile \ {id} : \A q \in profiles[other] : q.name # r.name,
           versions' \in [PromptTypes -> Nat], \A t \in PromptTypes : versions'[t] >= versions[t],
           \A x \in r.prompts : x[2] \in 1 .. versions'[x[1]],
           boot' # "prompts" => boot # "prompts" /\ OneEach(r.prompts),
           boot' \in {"prompts", "profile", "activate", "up"}, active' = active
    PROVE  RowsAreWhole' /\ LibraryIsSeeded'
<1>0. RowsAreWhole /\ LibraryIsSeeded
  BY DEF ProfilesInv
<1>1. /\ profiles'[id] = {r} /\ profiles' = [p \in Profile |-> profiles'[p]]
      /\ \A p \in Profile : p # id => profiles'[p] = profiles[p]
  BY <1>0 DEF RowsAreWhole
<1>2. ASSUME NEW p \in Profile, NEW s \in profiles'[p]
      PROVE  /\ profiles'[p] = {s} /\ RowOK(s) /\ SavedPrompts(s)'
             /\ \A other \in Profile \ {p} : \A q \in profiles'[other] : q.name # s.name
             /\ boot' # "prompts" => OneEach(s.prompts)
  <2>1. CASE p = id
    BY <1>1, <1>2, <2>1 DEF SavedPrompts
  <2>2. CASE p # id
    <3>1. /\ s \in profiles[p] /\ profiles[p] = {s} /\ RowOK(s) /\ SavedPrompts(s)
          /\ \A other \in Profile \ {p} : \A q \in profiles[other] : q.name # s.name
      BY <1>0, <1>1, <1>2, <2>2 DEF RowsAreWhole
    <3>2. SavedPrompts(s)'
      BY <1>0, <3>1, SavedStaySaved DEF RowsAreWhole, RowOK, SavedPrompts
    <3>3. \A other \in Profile \ {p} : \A q \in profiles'[other] : q.name # s.name
      BY <1>1, <2>2, <3>1
    <3>4. boot' # "prompts" => OneEach(s.prompts)
      BY <1>0, <3>1 DEF LibraryIsSeeded
    <3> QED
      BY <1>1, <2>2, <3>1, <3>2, <3>3, <3>4
  <2> QED
    BY <2>1, <2>2
<1>3. active' \subseteq Stored'
  BY <1>0, <1>1 DEF RowsAreWhole, Stored
<1>4. RowsAreWhole'
  BY <1>1, <1>2, <1>3 DEF RowsAreWhole, RowOK
<1>5. LibraryIsSeeded'
  <2>1. boot' # "prompts" => \A t \in PromptTypes : versions'[t] >= 1
    BY <1>0 DEF LibraryIsSeeded, RowsAreWhole
  <2> QED
    BY <1>2, <2>1 DEF LibraryIsSeeded, OneEach
<1> QED
  BY <1>4, <1>5

\* The rows stay, and perhaps another one is activated.
LEMMA RowsStay ==
    ASSUME ProfilesInv, UNCHANGED <<profiles, versions>>, active' \subseteq Stored,
           boot' # "prompts" => boot # "prompts", boot' \in {"prompts", "profile", "activate", "up"}
    PROVE  RowsAreWhole' /\ LibraryIsSeeded'
<1>1. Stored' = Stored
  BY DEF Stored
<1>2. RowsAreWhole /\ LibraryIsSeeded
  BY DEF ProfilesInv
<1>3. RowsAreWhole'
  BY <1>1, <1>2 DEF RowsAreWhole, SavedPrompts
<1>4. LibraryIsSeeded'
  BY <1>2 DEF LibraryIsSeeded
<1> QED
  BY <1>3, <1>4

\* A profile is created, by a request or at the start.
LEMMA CreateKeepsRows ==
    ASSUME ProfilesInv, NEW id \in Profile, NEW input \in Inputs \cup Bootstrap,
           Create(id, input), SavedPrompts(input), active' = active,
           boot' # "prompts" => boot # "prompts", boot' \in {"prompts", "profile", "activate", "up"}
    PROVE  /\ RowsAreWhole' /\ LibraryIsSeeded'
           /\ \A p \in Profile : \A s \in profiles'[p] : s \in profiles[p] \/ Mentioned(s) \subseteq Mentioned(input)
<1>0. RowsAreWhole /\ versions \in [PromptTypes -> Nat]
  BY DEF ProfilesInv, RowsAreWhole
<1> DEFINE r == Created(input)
<1>1. /\ RowOK(r) /\ OneEach(r.prompts) /\ r.name = input.name /\ Mentioned(r) \subseteq Mentioned(input)
  BY BodiesAreWhole
<1>2. /\ profiles' = [profiles EXCEPT ![id] = {r}] /\ ~NameTaken(id, r.name)
      /\ versions' = IF input.prompts = {} THEN SeedTypes ELSE versions
  BY <1>1 DEF Create
<1>3. /\ versions' \in [PromptTypes -> Nat] /\ \A t \in PromptTypes : versions'[t] >= versions[t]
  BY <1>0, <1>2, Seeding
<1>4. \A other \in Profile \ {id} : \A q \in profiles[other] : q.name # r.name
  BY <1>0, <1>2, StoredRow DEF NameTaken
<1>5. \A x \in r.prompts : x[2] \in 1 .. versions'[x[1]]
  <2>1. CASE input.prompts = {}
    <3>1. r.prompts = DefaultSelections /\ versions' = SeedTypes
      BY <1>2, <2>1 DEF Created
    <3>2. ASSUME NEW x \in DefaultSelections PROVE x[2] \in 1 .. SeedTypes[x[1]]
      <4>1. x[1] \in PromptTypes /\ x[2] = 1
        BY Defaults DEF OneEach
      <4> QED
        BY <1>0, <4>1, Seeding
    <3> QED
      BY <3>1, <3>2
  <2>2. CASE input.prompts # {}
    <3>1. r.prompts = input.prompts /\ versions' = versions
      BY <1>2, <2>2 DEF Created
    <3> QED
      BY <3>1 DEF SavedPrompts
  <2> QED
    BY <2>1, <2>2
<1> HIDE DEF r
<1>6. RowsAreWhole' /\ LibraryIsSeeded'
  BY <1>1, <1>2, <1>3, <1>4, <1>5, WritingARow
<1>7. \A p \in Profile : \A s \in profiles'[p] : s \in profiles[p] \/ Mentioned(s) \subseteq Mentioned(input)
  BY <1>0, <1>1, <1>2 DEF RowsAreWhole
<1> QED
  BY <1>6, <1>7

\* A profile is replaced.
LEMMA ReplaceKeepsRows ==
    ASSUME ProfilesInv, NEW id \in Profile, NEW input \in Inputs,
           Replace(id, input), SavedPrompts(input), UNCHANGED <<active, boot>>
    PROVE  /\ RowsAreWhole' /\ LibraryIsSeeded'
           /\ \A p \in Profile : \A s \in profiles'[p] :
                 \/ s \in profiles[p]
                 \/ \E old \in profiles[p] : Mentioned(s) \subseteq Mentioned(input) \cup Mentioned(old)
<1>0. RowsAreWhole /\ LibraryIsSeeded /\ versions \in [PromptTypes -> Nat]
  BY DEF ProfilesInv, RowsAreWhole
<1> DEFINE old == Row(id)
           r   == Replaced(old, input)
<1>1. id \in Stored /\ old \in profiles[id] /\ RowOK(old) /\ SavedPrompts(old)
      /\ (boot # "prompts" => OneEach(old.prompts))
  BY <1>0, StoredRow DEF Replace, RowsAreWhole, LibraryIsSeeded
<1>2. /\ RowOK(r) /\ r.name = input.name /\ (OneEach(old.prompts) => OneEach(r.prompts))
      /\ Mentioned(r) \subseteq Mentioned(input) \cup Mentioned(old)
  BY <1>1, BodiesAreWhole
<1>3. /\ profiles' = [profiles EXCEPT ![id] = {r}] /\ versions' = versions /\ ~NameTaken(id, r.name)
  BY <1>2 DEF Replace
<1>4. \A other \in Profile \ {id} : \A q \in profiles[other] : q.name # r.name
  BY <1>0, <1>3, StoredRow DEF NameTaken
<1>5. \A x \in r.prompts : x[2] \in 1 .. versions[x[1]]
  BY <1>1 DEF SavedPrompts, Replaced
<1>6. \A t \in PromptTypes : versions[t] >= versions[t]
  BY <1>0
<1>7. boot \in {"prompts", "profile", "activate", "up"}
  BY <1>0 DEF RowsAreWhole
<1> HIDE DEF r, old
<1>8. RowsAreWhole' /\ LibraryIsSeeded'
  BY <1>0, <1>1, <1>2, <1>3, <1>4, <1>5, <1>6, <1>7, WritingARow
<1>9. \A p \in Profile : \A s \in profiles'[p] :
         \/ s \in profiles[p]
         \/ \E o \in profiles[p] : Mentioned(s) \subseteq Mentioned(input) \cup Mentioned(o)
  BY <1>0, <1>1, <1>2, <1>3 DEF RowsAreWhole
<1> QED
  BY <1>8, <1>9

\* A profile is renamed.
LEMMA RenameKeepsRows ==
    ASSUME ProfilesInv, NEW id \in Profile, NEW name, Rename(id, name)
    PROVE  /\ RowsAreWhole' /\ LibraryIsSeeded'
           /\ \A p \in Profile : \A s \in profiles'[p] :
                 \E old \in profiles[p] : Mentioned(s) = Mentioned(old)
<1>0. RowsAreWhole /\ LibraryIsSeeded /\ versions \in [PromptTypes -> Nat]
  BY DEF ProfilesInv, RowsAreWhole
<1> DEFINE old == Row(id)
           r   == [old EXCEPT !.name = name]
<1>1. id \in Stored /\ old \in profiles[id] /\ RowOK(old) /\ SavedPrompts(old)
      /\ (boot # "prompts" => OneEach(old.prompts))
  BY <1>0, StoredRow DEF Rename, RowsAreWhole, LibraryIsSeeded
<1>2. r = [name |-> name, bindings |-> old.bindings, explore |-> old.explore, prompts |-> old.prompts]
  BY <1>1 DEF RowOK
<1>3. RowOK(r) /\ r.name = name /\ r.prompts = old.prompts /\ Mentioned(r) = Mentioned(old)
  <2> HIDE DEF r, old
  <2> QED
    BY <1>1, <1>2 DEF RowOK, Mentioned
<1>4. /\ profiles' = [profiles EXCEPT ![id] = {r}] /\ ~NameTaken(id, r.name)
      /\ UNCHANGED <<active, versions, boot>>
  BY <1>3 DEF Rename
<1>5. \A other \in Profile \ {id} : \A q \in profiles[other] : q.name # r.name
  BY <1>0, <1>4, StoredRow DEF NameTaken
<1>6. \A x \in r.prompts : x[2] \in 1 .. versions[x[1]]
  BY <1>1, <1>3 DEF SavedPrompts
<1>7. \A t \in PromptTypes : versions[t] >= versions[t]
  BY <1>0
<1>8. boot \in {"prompts", "profile", "activate", "up"}
  BY <1>0 DEF RowsAreWhole
<1> HIDE DEF r, old
<1>9. RowsAreWhole' /\ LibraryIsSeeded'
  BY <1>0, <1>1, <1>3, <1>4, <1>5, <1>6, <1>7, <1>8, WritingARow
<1>10. \A p \in Profile : \A s \in profiles'[p] : \E o \in profiles[p] : Mentioned(s) = Mentioned(o)
  BY <1>0, <1>1, <1>3, <1>4 DEF RowsAreWhole
<1> QED
  BY <1>9, <1>10

\* What the seed of the prompt library makes of a profile.
Seeded(r) == [r EXCEPT !.prompts = @ \cup {x \in DefaultSelections : \A y \in r.prompts : y[1] # x[1]}]

\* It completes the selections and leaves the rest alone.
LEMMA SeededRow ==
    ASSUME versions \in [PromptTypes -> Nat], NEW r, RowOK(r), SavedPrompts(r)
    PROVE  /\ RowOK(Seeded(r)) /\ OneEach(Seeded(r).prompts)
           /\ Seeded(r).name = r.name /\ Mentioned(Seeded(r)) = Mentioned(r)
           /\ \A x \in Seeded(r).prompts : x[2] \in 1 .. SeedTypes[x[1]]
<1> DEFINE add == {x \in DefaultSelections : \A y \in r.prompts : y[1] # x[1]}
           s   == Seeded(r)
<1>1. s = [name |-> r.name, bindings |-> r.bindings, explore |-> r.explore, prompts |-> r.prompts \cup add]
  <2>1. r = [name |-> r.name, bindings |-> r.bindings, explore |-> r.explore, prompts |-> r.prompts]
    BY DEF RowOK
  <2>2. s = [r EXCEPT !.prompts = r.prompts \cup add]
    BY DEF Seeded
  <2> HIDE DEF add, s
  <2> QED
    BY <2>1, <2>2
<1>2. /\ add \subseteq DefaultSelections
      /\ \A x \in add : x[2] = 1 /\ \A y \in r.prompts : y[1] # x[1]
  BY Defaults
<1>3. /\ r.prompts \in SUBSET (PromptTypes \X Nat) /\ \A x, y \in r.prompts : x[1] = y[1] => x = y
      /\ DefaultSelections \in SUBSET (PromptTypes \X Nat)
      /\ \A x, y \in DefaultSelections : x[1] = y[1] => x = y
      /\ \A t \in PromptTypes : \E x \in DefaultSelections : x[1] = t
  BY Defaults DEF RowOK, OneEach
<1>4. OneEach(r.prompts \cup add)
  <2>1. r.prompts \cup add \in SUBSET (PromptTypes \X Nat)
    BY <1>2, <1>3
  <2>2. \A x, y \in r.prompts \cup add : x[1] = y[1] => x = y
    <3> HIDE DEF add
    <3> QED
      BY <1>2, <1>3
  <2>3. ASSUME NEW t \in PromptTypes PROVE \E x \in r.prompts \cup add : x[1] = t
    <3>1. PICK d \in DefaultSelections : d[1] = t
      BY <1>3
    <3>2. CASE \E y \in r.prompts : y[1] = t
      BY <3>2
    <3>3. CASE ~\E y \in r.prompts : y[1] = t
      BY <3>1, <3>3
    <3> QED
      BY <3>2, <3>3
  <2> QED
    BY <2>1, <2>2, <2>3 DEF OneEach
<1>5. \A x \in r.prompts \cup add : x[2] \in 1 .. SeedTypes[x[1]]
  <2>1. ASSUME NEW x \in r.prompts PROVE x[2] \in 1 .. SeedTypes[x[1]]
    <3>1. x[1] \in PromptTypes /\ x[2] \in Nat /\ x[2] \in 1 .. versions[x[1]]
      BY <1>3 DEF SavedPrompts
    <3>2. versions[x[1]] \in Nat /\ SeedTypes[x[1]] \in Nat /\ SeedTypes[x[1]] >= versions[x[1]]
      BY <3>1, Seeding
    <3> QED
      BY <3>1, <3>2
  <2>2. ASSUME NEW x \in add PROVE x[2] \in 1 .. SeedTypes[x[1]]
    <3>1. x[1] \in PromptTypes /\ x[2] = 1
      BY <1>2, <1>3
    <3> QED
      BY <3>1, Seeding
  <2> QED
    BY <2>1, <2>2
<1> HIDE DEF add, s
<1>6. RowOK(s) /\ OneEach(s.prompts) /\ s.name = r.name /\ Mentioned(s) = Mentioned(r)
  BY <1>1, <1>4 DEF RowOK, OneEach, Mentioned
<1> QED
  BY <1>1, <1>5, <1>6 DEF s

\* A start seeds the prompt library.
LEMMA SeedPromptsKeepsRows ==
    ASSUME ProfilesInv, SeedPrompts
    PROVE  /\ RowsAreWhole' /\ LibraryIsSeeded'
           /\ \A p \in Profile : \A s \in profiles'[p] : \E old \in profiles[p] : Mentioned(s) = Mentioned(old)
<1>0. RowsAreWhole /\ versions \in [PromptTypes -> Nat]
  BY DEF ProfilesInv, RowsAreWhole
<1>1. /\ boot' = "profile" /\ versions' = SeedTypes /\ active' = active
      /\ profiles' = [id \in Profile |-> {Seeded(r) : r \in profiles[id]}]
  BY DEF SeedPrompts, Seeded
<1>2. /\ versions' \in [PromptTypes -> Nat] /\ \A t \in PromptTypes : versions'[t] >= 1
  BY <1>0, <1>1, Seeding
<1>3. ASSUME NEW p \in Profile, NEW s \in profiles'[p]
      PROVE  /\ profiles'[p] = {s} /\ RowOK(s) /\ OneEach(s.prompts)
             /\ \A x \in s.prompts : x[2] \in 1 .. versions'[x[1]]
             /\ \E r \in profiles[p] : s = Seeded(r) /\ s.name = r.name /\ Mentioned(s) = Mentioned(r)
  <2>1. PICK r \in profiles[p] : s = Seeded(r)
    BY <1>1
  <2>2. profiles[p] = {r} /\ RowOK(r) /\ SavedPrompts(r)
    BY <1>0 DEF RowsAreWhole
  <2> QED
    BY <1>0, <1>1, <2>1, <2>2, SeededRow
<1>4. \A p \in Profile, o \in Profile : p # o => \A s \in profiles'[p], q \in profiles'[o] : q.name # s.name
  <2>1. SUFFICES ASSUME NEW p \in Profile, NEW o \in Profile, p # o,
                        NEW s \in profiles'[p], NEW q \in profiles'[o]
                 PROVE  q.name # s.name
    OBVIOUS
  <2>2. PICK r \in profiles[p] : s.name = r.name
    BY <1>3
  <2>3. PICK w \in profiles[o] : q.name = w.name
    BY <1>3
  <2> QED
    BY <1>0, <2>1, <2>2, <2>3 DEF RowsAreWhole
<1>5. active' \subseteq Stored'
  BY <1>0, <1>1 DEF RowsAreWhole, Stored
<1>6. RowsAreWhole'
  <2>1. profiles' = [id \in Profile |-> profiles'[id]]
    BY <1>1
  <2> QED
    BY <1>1, <1>2, <1>3, <1>4, <1>5, <2>1 DEF RowsAreWhole, RowOK, SavedPrompts
<1>7. LibraryIsSeeded'
  BY <1>2, <1>3 DEF LibraryIsSeeded, OneEach
<1> QED
  BY <1>3, <1>6, <1>7

\* A profile is deleted; the active one is not.
LEMMA DeleteKeepsRows ==
    ASSUME ProfilesInv, NEW id \in Profile, Delete(id)
    PROVE  /\ RowsAreWhole' /\ LibraryIsSeeded'
           /\ \A p \in Profile : profiles'[p] \subseteq profiles[p]
<1>0. RowsAreWhole /\ LibraryIsSeeded
  BY DEF ProfilesInv
<1>1. /\ profiles' = [profiles EXCEPT ![id] = {}] /\ id \notin active
      /\ UNCHANGED <<active, versions, boot>>
  BY DEF Delete
<1>2. /\ profiles' = [p \in Profile |-> profiles'[p]] /\ profiles'[id] = {}
      /\ \A p \in Profile : p # id => profiles'[p] = profiles[p]
  BY <1>0, <1>1 DEF RowsAreWhole
<1>3. active' \subseteq Stored'
  BY <1>0, <1>1, <1>2 DEF RowsAreWhole, Stored
<1>4. ASSUME NEW p \in Profile, NEW s \in profiles'[p]
      PROVE  /\ profiles'[p] = {s} /\ RowOK(s) /\ SavedPrompts(s)
             /\ \A other \in Profile \ {p} : \A q \in profiles'[other] : q.name # s.name
  <2>1. p # id /\ s \in profiles[p] /\ profiles'[p] = profiles[p]
    BY <1>2
  <2> QED
    BY <1>0, <1>2, <2>1 DEF RowsAreWhole
<1>5. RowsAreWhole'
  BY <1>0, <1>1, <1>2, <1>3, <1>4 DEF RowsAreWhole, RowOK, SavedPrompts
<1>6. LibraryIsSeeded'
  BY <1>0, <1>1, <1>2 DEF LibraryIsSeeded
<1> QED
  BY <1>2, <1>5, <1>6

\* A prompt is saved as the next version of its type.
LEMMA SavePromptKeepsRows ==
    ASSUME ProfilesInv, NEW t \in Edited, SavePrompt(t)
    PROVE  RowsAreWhole' /\ LibraryIsSeeded'
<1>0. RowsAreWhole /\ LibraryIsSeeded /\ versions \in [PromptTypes -> Nat] /\ t \in PromptTypes
  BY ProfilesAssumption DEF ProfilesInv, RowsAreWhole, ProfilesAssumption
<1>1. versions' = [versions EXCEPT ![t] = versions[t] + 1] /\ UNCHANGED <<profiles, active, boot>>
  BY DEF SavePrompt
<1>2. versions' \in [PromptTypes -> Nat] /\ \A u \in PromptTypes : versions'[u] >= versions[u]
  BY <1>0, <1>1
<1>3. \A p \in Profile : \A r \in profiles[p] : SavedPrompts(r)'
  BY <1>0, <1>2, SavedStaySaved DEF RowsAreWhole, RowOK, SavedPrompts
<1>4. RowsAreWhole'
  BY <1>0, <1>1, <1>2, <1>3 DEF RowsAreWhole, Stored
<1>5. LibraryIsSeeded'
  BY <1>0, <1>1, <1>2 DEF LibraryIsSeeded
<1> QED
  BY <1>4, <1>5

\* A set of one element, and none, as a sequence.
LEMMA SmallSets ==
    /\ SetToSeq({}) = << >>
    /\ \A a : SetToSeq({a}) = <<a>>
<1>1. SetToSeq({}) = << >>
  <2>1. Cardinality({}) = 0
    BY FS_EmptySet
  <2>2. [i \in 1 .. 0 |-> 0] \in [1 .. 0 -> {}] /\ IsInjective([i \in 1 .. 0 |-> 0])
    BY DEF IsInjective
  <2>3. SetToSeq({}) \in [1 .. 0 -> {}]
    BY <2>1, <2>2 DEF SetToSeq
  <2>4. DOMAIN SetToSeq({}) = 1 .. 0 /\ SetToSeq({}) = [i \in 1 .. 0 |-> SetToSeq({})[i]]
    BY <2>3
  <2> HIDE DEF SetToSeq
  <2> QED
    BY <2>4
<1>2. ASSUME NEW a PROVE SetToSeq({a}) = <<a>>
  <2>1. Cardinality({a}) = 1
    BY FS_Singleton
  <2>2. [i \in 1 .. 1 |-> a] \in [1 .. 1 -> {a}] /\ IsInjective([i \in 1 .. 1 |-> a])
    BY DEF IsInjective
  <2>3. SetToSeq({a}) \in [1 .. 1 -> {a}]
    BY <2>1, <2>2 DEF SetToSeq
  <2>4. SetToSeq({a}) = [i \in 1 .. 1 |-> a]
    BY <2>3
  <2> QED
    BY <2>4
<1> QED
  BY <1>1, <1>2

\* The items of a body or of a profile name each of its tuples, and no other.
LEMMA ItemsAreTuples ==
    ASSUME NEW r, DOMAIN r.bindings = RegisteredStages,
           r.explore = {} \/ \E b \in r.explore : r.explore = {b}, Mentioned(r) \subseteq Tuples
    PROVE  LET stages  == StageItems(r.bindings)
               explore == ExploreItems(r.explore)
           IN  /\ stages \in Seq(Items) /\ explore \in Seq(Items) /\ stages \o explore \in Seq(Items)
               /\ \A i \in DOMAIN stages : stages[i].binding \in Mentioned(r)
               /\ \A i \in DOMAIN explore : explore[i].binding \in Mentioned(r)
               /\ \A b \in Mentioned(r) :
                     \E i \in 1 .. Len(stages \o explore) : (stages \o explore)[i].binding = b
               /\ {x \in Range(stages) : x.stage = "translation"}
                     = {Item("translation", r.bindings["translation"])}
<1> DEFINE stages  == StageItems(r.bindings)
           explore == ExploreItems(r.explore)
           l == r.bindings["linguistic_analysis"]
           t == r.bindings["translation"]
<1>1. Range(r.bindings) = {l, t}
  BY DEF Range, RegisteredStages
<1>2. stages = <<Item("linguistic_analysis", l), Item("translation", t)>>
  BY DEF StageItems
<1>3. /\ Item("linguistic_analysis", l) \in Items /\ Item("translation", t) \in Items
      /\ Item("linguistic_analysis", l).binding = l /\ Item("translation", t).binding = t
      /\ Item("linguistic_analysis", l).stage = "linguistic_analysis" /\ Item("translation", t).stage = "translation"
  BY <1>1 DEF Item, Items, Mentioned, RegisteredStages
<1> HIDE DEF l, t
<1>4. /\ stages \in Seq(Items) /\ Len(stages) = 2 /\ DOMAIN stages = 1 .. 2
      /\ stages[1] = Item("linguistic_analysis", l) /\ stages[2] = Item("translation", t)
  BY <1>2, <1>3
<1>5. CASE r.explore = {}
  <2>1. explore = << >>
    <3>1. {Item("explore", b) : b \in r.explore} = {}
      BY <1>5
    <3> QED
      BY <3>1, SmallSets DEF ExploreItems
  <2>2. explore \in Seq(Items) /\ DOMAIN explore = {} /\ stages \o explore = stages
    <3> HIDE DEF stages, explore
    <3> QED
      BY <1>4, <2>1
  <2>3. {x \in Range(stages) : x.stage = "translation"} = {Item("translation", t)}
    <3>1. Range(stages) = {Item("linguistic_analysis", l), Item("translation", t)}
      <4> HIDE DEF stages
      <4> QED
        BY <1>4 DEF Range
    <3> QED
      BY <1>3, <3>1
  <2>4. Mentioned(r) = {l, t}
    BY <1>1, <1>5 DEF Mentioned
  <2> HIDE DEF stages, explore
  <2>5. \A b \in Mentioned(r) : \E i \in 1 .. Len(stages \o explore) : (stages \o explore)[i].binding = b
    BY <1>3, <1>4, <2>2, <2>4
  <2>6. \A i \in DOMAIN stages : stages[i].binding \in Mentioned(r)
    BY <1>3, <1>4, <2>4
  <2> QED
    BY <1>4, <2>2, <2>3, <2>5, <2>6 DEF stages, explore, t
<1>6. CASE r.explore # {}
  <2>0. PICK e \in r.explore : r.explore = {e}
    BY <1>6
  <2> DEFINE x == Item("explore", e)
  <2>1. explore = <<x>>
    <3>1. {Item("explore", b) : b \in r.explore} = {x}
      BY <2>0
    <3> QED
      BY <3>1, SmallSets DEF ExploreItems
  <2>2. x \in Items /\ x.binding = e
    BY <2>0 DEF Item, Items, Mentioned
  <2> HIDE DEF x
  <2>3. /\ explore \in Seq(Items) /\ DOMAIN explore = {1} /\ explore[1] = x /\ Len(explore) = 1
    BY <2>1, <2>2
  <2>4. {y \in Range(stages) : y.stage = "translation"} = {Item("translation", t)}
    <3>1. Range(stages) = {Item("linguistic_analysis", l), Item("translation", t)}
      <4> HIDE DEF stages
      <4> QED
        BY <1>4 DEF Range
    <3> QED
      BY <1>3, <3>1
  <2>5. Mentioned(r) = {l, t, e}
    BY <1>1, <2>0 DEF Mentioned
  <2> HIDE DEF stages, explore
  <2>6. /\ stages \o explore \in Seq(Items) /\ Len(stages \o explore) = 3
        /\ (stages \o explore)[1] = stages[1] /\ (stages \o explore)[2] = stages[2]
        /\ (stages \o explore)[3] = x
    <3>1. stages \o explore \in Seq(Items)
      BY <1>4, <2>3
    <3> HIDE DEF Items
    <3>2. /\ Len(stages \o explore) = Len(stages) + Len(explore)
          /\ \A i \in 1 .. Len(stages) + Len(explore) :
                (stages \o explore)[i] = IF i <= Len(stages) THEN stages[i] ELSE explore[i - Len(stages)]
      BY <1>4, <2>3, ConcatProperties
    <3>3. /\ Len(stages \o explore) = 3
          /\ \A i \in 1 .. 3 : (stages \o explore)[i] = IF i <= 2 THEN stages[i] ELSE explore[i - 2]
      BY <1>4, <2>3, <3>2
    <3> QED
      BY <2>3, <3>1, <3>3
  <2>7. \A b \in Mentioned(r) : \E i \in 1 .. Len(stages \o explore) : (stages \o explore)[i].binding = b
    BY <1>3, <1>4, <2>2, <2>5, <2>6
  <2>8. \A i \in DOMAIN stages : stages[i].binding \in Mentioned(r)
    BY <1>3, <1>4, <2>5
  <2>9. \A i \in DOMAIN explore : explore[i].binding \in Mentioned(r)
    BY <2>2, <2>3, <2>5
  <2> QED
    BY <1>4, <2>3, <2>4, <2>6, <2>7, <2>8, <2>9 DEF stages, explore, t
<1> QED
  BY <1>5, <1>6

\* Requests that do not move stay checked: what was listed once, was.
LEMMA RequestsStay ==
    ASSUME RequestsAreChecked, call' = call, everListed \subseteq everListed'
    PROVE  RequestsAreChecked'
<1>1. ASSUME NEW k, Underway(k, everListed) PROVE Underway(k, everListed')
  <2>1. \A b \in k.stored : DOMAIN b = RegisteredStages /\ Range(b) \subseteq everListed'
    BY <1>1 DEF Underway
  <2>2. k.step = "check" /\ k.kind \in {"create", "replace"} =>
          \A b \in Mentioned(k.input) :
              b \in everListed' \/ \E i \in 1 .. Len(k.todo) : k.todo[i].binding = b
    BY <1>1 DEF Underway
  <2>3. k.step = "check" /\ k.kind \in Captures =>
          \A i \in DOMAIN k.bindings : k.bindings[i].binding \in everListed'
    BY <1>1 DEF Underway
  <2> QED
    BY <1>1, <2>1, <2>2, <2>3 DEF Underway
<1> QED
  BY <1>1 DEF RequestsAreChecked

\* One request moves.
LEMMA OneRequestMoves ==
    ASSUME RequestsAreChecked, NEW c \in Request, NEW k, call' = [call EXCEPT ![c] = k],
           k \in {NotStarted, Ended} \/ Underway(k, everListed), everListed' = everListed
    PROVE  RequestsAreChecked'
<1>1. ASSUME NEW d \in Request PROVE call'[d] \in {NotStarted, Ended} \/ Underway(call'[d], everListed)
  <2>1. CASE d = c
    BY <2>1 DEF RequestsAreChecked
  <2>2. CASE d # c
    BY <2>2 DEF RequestsAreChecked
  <2> QED
    BY <2>1, <2>2
<1>2. call' = [d \in Request |-> call'[d]]
  BY DEF RequestsAreChecked
<1> QED
  BY <1>1, <1>2 DEF RequestsAreChecked, Underway

\* The fields of a request that changes where it is.
LEMMA NextFields ==
    ASSUME NEW k, NEW step, NEW todo, NEW stored, NEW bindings, NEW n,
           DOMAIN k = {"kind", "step", "id", "input", "stored", "bindings", "todo"},
           n = [k EXCEPT !.step = step, !.todo = todo, !.stored = stored, !.bindings = bindings]
    PROVE  /\ DOMAIN n = {"kind", "step", "id", "input", "stored", "bindings", "todo"}
           /\ n.kind = k.kind /\ n.id = k.id /\ n.input = k.input
           /\ n.step = step /\ n.todo = todo /\ n.stored = stored /\ n.bindings = bindings
OBVIOUS

\* The fields of a request that has passed a check.
LEMMA CheckedFields ==
    ASSUME NEW k, NEW todo, NEW n,
           DOMAIN k = {"kind", "step", "id", "input", "stored", "bindings", "todo"},
           n = [k EXCEPT !.todo = todo]
    PROVE  /\ DOMAIN n = {"kind", "step", "id", "input", "stored", "bindings", "todo"}
           /\ n.kind = k.kind /\ n.id = k.id /\ n.input = k.input /\ n.step = k.step
           /\ n.todo = todo /\ n.stored = k.stored /\ n.bindings = k.bindings
OBVIOUS

\* Bodies mention tuples.
LEMMA BodiesMention ==
    \A input \in Inputs : /\ Mentioned(input) \subseteq Tuples /\ DOMAIN input.bindings = RegisteredStages
                          /\ input.explore = {} \/ \E b \in input.explore : input.explore = {b}
<1> SUFFICES ASSUME NEW input \in Inputs
             PROVE  /\ Mentioned(input) \subseteq Tuples /\ DOMAIN input.bindings = RegisteredStages
                    /\ input.explore = {} \/ \E b \in input.explore : input.explore = {b}
  OBVIOUS
<1>1. Mentioned(input) \subseteq Tuples
  <2>1. Mentioned(input) \in {Mentioned(i) : i \in Inputs \cup Bootstrap}
    OBVIOUS
  <2>2. Mentioned(input) \subseteq OfBodies
    BY <2>1 DEF OfBodies
  <2> QED
    BY <2>2 DEF Tuples
<1> QED
  BY <1>1, ProfilesAssumption DEF ProfilesAssumption

\* A request starts.
LEMMA StartKeepsRequests ==
    ASSUME ProfilesInv, NEW c \in Request, NEW kind, NEW id \in Profile, NEW input,
           \/ kind \in {"create", "replace"} /\ input \in Inputs
           \/ kind \in Captures \cup {"activate"},
           StartRequest(c, kind, id, input)
    PROVE  RequestsAreChecked'
<1>0. RequestsAreChecked
  BY DEF ProfilesInv
<1> DEFINE todo == IF kind = "create" THEN StageItems(input.bindings) \o ExploreItems(input.explore) ELSE <<>>
           k    == [kind |-> kind, step |-> IF kind = "create" THEN "check" ELSE "read", id |-> id,
                    input |-> input, stored |-> {}, bindings |-> <<>>, todo |-> todo]
<1>1. call' = [call EXCEPT ![c] = k] /\ everListed' = everListed
  BY DEF StartRequest
<1>2. /\ todo \in Seq(Items)
      /\ kind = "create" => \A b \in Mentioned(input) : \E i \in 1 .. Len(todo) : todo[i].binding = b
  <2>1. CASE kind = "create"
    <3>1. /\ Mentioned(input) \subseteq Tuples /\ DOMAIN input.bindings = RegisteredStages
          /\ input.explore = {} \/ \E b \in input.explore : input.explore = {b}
      BY <2>1, BodiesMention DEF Captures
    <3>2. todo = StageItems(input.bindings) \o ExploreItems(input.explore)
      BY <2>1
    <3> HIDE DEF todo
    <3> QED
      BY <3>1, <3>2, ItemsAreTuples
  <2>2. CASE kind # "create"
    BY <2>2
  <2> QED
    BY <2>1, <2>2
<1> HIDE DEF todo
<1>3. Underway(k, everListed)
  BY <1>2 DEF Underway, Captures
<1> QED
  BY <1>0, <1>1, <1>3, OneRequestMoves

\* A request reads the profile it is about: a capture takes what is stored.
LEMMA ReadKeepsRequests ==
    ASSUME ProfilesInv, NEW c \in Request, ReadBindings(c)
    PROVE  RequestsAreChecked'
<1>0. RowsAreWhole /\ StoredWereListed /\ RequestsAreChecked
  BY DEF ProfilesInv
<1> DEFINE k == call[c]
           stored == BindingsOf(k.id)
           items == UNION {Range(StageItems(b)) : b \in stored}
           used == CASE k.kind = "replace"  -> StageItems(k.input.bindings) \o ExploreItems(k.input.explore)
                     [] k.kind = "explore"  -> ExploreItems(ExploreOf(k.id))
                     [] k.kind = "sentence" -> SetToSeq({x \in items : x.stage = "translation"})
                     [] OTHER               -> IF stored = {} THEN <<>> ELSE StageItems(CHOOSE b \in stored : TRUE)
           next == [k EXCEPT !.step = "check", !.todo = used,
                             !.stored = IF k.kind = "replace" THEN stored ELSE {},
                             !.bindings = IF k.kind \in Captures THEN used ELSE <<>>]
<1>1. /\ k.step = "read" /\ everListed' = everListed
      /\ call' = [call EXCEPT ![c] = IF k.kind \in {"explore", "sentence"} /\ used = <<>> THEN Ended ELSE next]
  BY DEF ReadBindings
<1>2. Underway(k, everListed) /\ k.id \in Profile /\ k.kind # "create"
      /\ k.kind \in Captures \cup {"replace", "activate"}
  BY <1>0, <1>1 DEF RequestsAreChecked, NotStarted, Ended, Underway
<1>3. /\ profiles[k.id] = {} => stored = {} /\ ExploreOf(k.id) = {}
      /\ \A r \in profiles[k.id] :
            /\ stored = {r.bindings} /\ ExploreOf(k.id) = r.explore
            /\ DOMAIN r.bindings = RegisteredStages /\ \E b \in r.explore : r.explore = {b}
            /\ Mentioned(r) \subseteq everListed /\ Mentioned(r) \subseteq Tuples
  <2>1. \A r \in profiles[k.id] : RowOK(r) /\ Mentioned(r) \subseteq everListed /\ Mentioned(r) \subseteq Tuples
    BY <1>0, <1>2 DEF RowsAreWhole, StoredWereListed
  <2> QED
    BY <1>0, <1>2, <2>1, StoredRow DEF RowOK
<1>4. \A b \in stored : DOMAIN b = RegisteredStages /\ Range(b) \subseteq everListed
  BY <1>3 DEF Mentioned
<1>5. /\ used \in Seq(Items)
      /\ k.kind = "replace" => \A b \in Mentioned(k.input) : \E i \in 1 .. Len(used) : used[i].binding = b
      /\ k.kind \in Captures => \A i \in DOMAIN used : used[i].binding \in everListed
  <2>1. CASE k.kind = "replace"
    <3>1. used = StageItems(k.input.bindings) \o ExploreItems(k.input.explore) /\ k.input \in Inputs
      BY <1>2, <2>1 DEF Underway
    <3> HIDE DEF used
    <3> QED
      BY <2>1, <3>1, BodiesMention, ItemsAreTuples DEF Captures
  <2>2. CASE profiles[k.id] = {} /\ k.kind # "replace"
    <3>1. used = << >>
      <4>1. CASE k.kind = "explore"
        <5>1. {Item("explore", b) : b \in ExploreOf(k.id)} = {} /\ used = ExploreItems(ExploreOf(k.id))
          BY <1>3, <2>2, <4>1
        <5> QED
          BY <5>1, SmallSets DEF ExploreItems
      <4>2. CASE k.kind = "sentence"
        <5>1. {x \in items : x.stage = "translation"} = {}
              /\ used = SetToSeq({x \in items : x.stage = "translation"})
          BY <1>3, <2>2, <4>2
        <5> HIDE DEF used, items
        <5> QED
          BY <5>1, SmallSets
      <4>3. CASE k.kind \notin {"explore", "sentence"}
        BY <1>3, <2>2, <4>3
      <4> QED
        BY <4>1, <4>2, <4>3
    <3> HIDE DEF used
    <3> QED
      BY <2>2, <3>1
  <2>3. CASE profiles[k.id] # {} /\ k.kind # "replace"
    <3>0. PICK r \in profiles[k.id] : TRUE
      BY <2>3
    <3>1. /\ stored = {r.bindings} /\ ExploreOf(k.id) = r.explore
          /\ DOMAIN r.bindings = RegisteredStages
          /\ r.explore = {} \/ \E b \in r.explore : r.explore = {b}
          /\ Mentioned(r) \subseteq everListed /\ Mentioned(r) \subseteq Tuples
      BY <1>3
    <3>2. /\ StageItems(r.bindings) \in Seq(Items) /\ ExploreItems(r.explore) \in Seq(Items)
          /\ \A i \in DOMAIN StageItems(r.bindings) : StageItems(r.bindings)[i].binding \in Mentioned(r)
          /\ \A i \in DOMAIN ExploreItems(r.explore) : ExploreItems(r.explore)[i].binding \in Mentioned(r)
          /\ {x \in Range(StageItems(r.bindings)) : x.stage = "translation"}
                = {Item("translation", r.bindings["translation"])}
      BY <3>1, ItemsAreTuples
    <3>3. CASE k.kind = "explore"
      <4>1. used = ExploreItems(r.explore)
        BY <3>1, <3>3
      <4> HIDE DEF used
      <4> QED
        BY <3>1, <3>2, <3>3, <4>1
    <3>4. CASE k.kind = "sentence"
      <4> DEFINE x == Item("translation", r.bindings["translation"])
      <4>1. used = <<x>>
        <5>1. items = Range(StageItems(r.bindings))
          BY <3>1
        <5>2. used = SetToSeq({y \in items : y.stage = "translation"})
          BY <3>4
        <5> HIDE DEF used, items
        <5> QED
          BY <3>2, <5>1, <5>2, SmallSets
      <4>2. r.bindings["translation"] \in Mentioned(r)
        BY <3>1 DEF Mentioned, Range, RegisteredStages
      <4>3. x \in Items /\ x.binding \in everListed
        BY <3>1, <4>2 DEF Item, Items, RegisteredStages
      <4> HIDE DEF used, x
      <4> QED
        BY <3>4, <4>1, <4>3
    <3>5. CASE k.kind \notin {"explore", "sentence"}
      <4>1. used = StageItems(r.bindings)
        BY <2>3, <3>1, <3>5
      <4> HIDE DEF used
      <4> QED
        BY <2>3, <3>1, <3>2, <4>1
    <3> QED
      BY <3>3, <3>4, <3>5
  <2> QED
    BY <2>1, <2>2, <2>3
<1> HIDE DEF used, stored
<1>6. /\ DOMAIN next = {"kind", "step", "id", "input", "stored", "bindings", "todo"}
      /\ next.kind = k.kind /\ next.id = k.id /\ next.input = k.input
      /\ next.step = "check" /\ next.todo = used
      /\ next.stored = IF k.kind = "replace" THEN stored ELSE {}
      /\ next.bindings = IF k.kind \in Captures THEN used ELSE <<>>
  <2>1. DOMAIN k = {"kind", "step", "id", "input", "stored", "bindings", "todo"}
    BY <1>2 DEF Underway
  <2>2. next = [k EXCEPT !.step = "check", !.todo = used,
                         !.stored = IF k.kind = "replace" THEN stored ELSE {},
                         !.bindings = IF k.kind \in Captures THEN used ELSE <<>>]
    OBVIOUS
  <2> HIDE DEF k, next
  <2> QED
    BY <2>1, <2>2, NextFields
<1>7. Underway(next, everListed)
  <2>1. k.kind \in {"create", "replace"} => k.input \in Inputs
    BY <1>2 DEF Underway
  <2> HIDE DEF k, next
  <2>2. next.stored = {} \/ next.stored = stored
    BY <1>6
  <2> QED
    BY <1>2, <1>4, <1>5, <1>6, <2>1, <2>2 DEF Underway
<1> HIDE DEF next
<1>8. Ended \in {NotStarted, Ended}
  OBVIOUS
<1> QED
  BY <1>0, <1>1, <1>7, <1>8, OneRequestMoves

\* The next binding is checked: it is listed, or stored already.
LEMMA CheckKeepsRequests ==
    ASSUME ProfilesInv, NEW c \in Request, NEW available \in BOOLEAN, CheckBinding(c, available)
    PROVE  RequestsAreChecked'
<1>0. RowsAreWhole /\ StoredWereListed /\ RequestsAreChecked
  BY DEF ProfilesInv
<1> DEFINE k    == call[c]
           item == Head(k.todo)
           next == [k EXCEPT !.todo = Tail(k.todo)]
           passes == \/ ~TupleChanged(item.binding, Before(c, item))
                     \/ available /\ item.binding \in listing
<1>1. /\ k.step = "check" /\ k.todo # <<>> /\ everListed' = everListed
      /\ call' = [call EXCEPT ![c] = IF passes THEN next ELSE Ended]
  <2>1. k.step = "check" /\ k.todo # <<>> /\ everListed' = everListed
    BY DEF CheckBinding
  <2>2. call' = [call EXCEPT ![c] = IF passes THEN next ELSE Ended]
    BY DEF CheckBinding
  <2> QED
    BY <2>1, <2>2
<1>2. Underway(k, everListed)
  BY <1>0, <1>1 DEF RequestsAreChecked, NotStarted, Ended
<1>3. /\ k.todo \in Seq(Items) /\ k.id \in Profile
      /\ \A b \in k.stored : DOMAIN b = RegisteredStages /\ Range(b) \subseteq everListed
  BY <1>2 DEF Underway
<1>4. /\ Tail(k.todo) \in Seq(Items) /\ Len(Tail(k.todo)) = Len(k.todo) - 1 /\ Len(k.todo) \in Nat \ {0}
      /\ item = k.todo[1] /\ item \in Items
      /\ \A i \in 1 .. Len(k.todo) : i = 1 \/ (i - 1 \in 1 .. Len(Tail(k.todo)) /\ Tail(k.todo)[i - 1] = k.todo[i])
  <2> DEFINE todo == k.todo
  <2>1. todo \in Seq(Items) /\ todo # << >>
    BY <1>1, <1>3
  <2> HIDE DEF todo
  <2>2. /\ Tail(todo) \in Seq(Items) /\ Len(Tail(todo)) = Len(todo) - 1 /\ Len(todo) \in Nat \ {0}
        /\ Head(todo) = todo[1] /\ Head(todo) \in Items
    BY <2>1
  <2>3. \A i \in 1 .. Len(todo) : i = 1 \/ (i - 1 \in 1 .. Len(Tail(todo)) /\ Tail(todo)[i - 1] = todo[i])
    BY <2>1
  <2> QED
    BY <2>2, <2>3 DEF todo
<1> HIDE DEF next
<1>5. /\ DOMAIN next = {"kind", "step", "id", "input", "stored", "bindings", "todo"}
      /\ next.kind = k.kind /\ next.id = k.id /\ next.input = k.input /\ next.step = k.step
      /\ next.todo = Tail(k.todo) /\ next.stored = k.stored /\ next.bindings = k.bindings
  <2>1. DOMAIN k = {"kind", "step", "id", "input", "stored", "bindings", "todo"}
    BY <1>2 DEF Underway
  <2>2. next = [k EXCEPT !.todo = Tail(k.todo)]
    BY DEF next
  <2> HIDE DEF k
  <2> QED
    BY <2>1, <2>2, CheckedFields
<1>6. passes => item.binding \in everListed
  <2>1. CASE available /\ item.binding \in listing
    BY <1>0, <2>1 DEF StoredWereListed
  <2>2. CASE ~TupleChanged(item.binding, Before(c, item))
    <3>1. item.binding \in Before(c, item)
      BY <2>2 DEF TupleChanged
    <3>2. CASE item.stage = "explore"
      <4>1. item.binding \in ExploreOf(k.id)
        BY <3>1, <3>2 DEF Before
      <4>2. PICK r \in profiles[k.id] : item.binding \in r.explore
        BY <4>1 DEF ExploreOf
      <4> QED
        BY <1>0, <1>3, <4>2 DEF StoredWereListed, Mentioned
    <3>3. CASE item.stage # "explore"
      <4>1. item.stage \in RegisteredStages
        BY <1>4, <3>3 DEF Items
      <4>2. PICK b \in k.stored : item.binding = b[item.stage]
        BY <3>1, <3>3 DEF Before
      <4> QED
        BY <1>3, <4>1, <4>2 DEF Range
    <3> QED
      BY <3>2, <3>3
  <2> QED
    BY <2>1, <2>2
<1>7. passes => Underway(next, everListed)
  <2>1. SUFFICES ASSUME passes PROVE Underway(next, everListed)
    OBVIOUS
  <2>2. item.binding \in everListed
    BY <1>6, <2>1
  <2> HIDE DEF passes
  <2>3. k.kind \in {"create", "replace"} =>
          \A b \in Mentioned(k.input) :
              b \in everListed \/ \E i \in 1 .. Len(Tail(k.todo)) : Tail(k.todo)[i].binding = b
    <3>1. SUFFICES ASSUME k.kind \in {"create", "replace"}, NEW b \in Mentioned(k.input), b \notin everListed
                   PROVE  \E i \in 1 .. Len(Tail(k.todo)) : Tail(k.todo)[i].binding = b
      OBVIOUS
    <3>2. PICK i \in 1 .. Len(k.todo) : k.todo[i].binding = b
      BY <1>1, <1>2, <3>1 DEF Underway
    <3>3. i # 1
      BY <1>4, <2>2, <3>1, <3>2
    <3> QED
      BY <1>4, <3>2, <3>3
  <2> HIDE DEF k, item
  <2> QED
    BY <1>1, <1>2, <1>4, <1>5, <2>3 DEF Underway
<1> HIDE DEF passes
<1>8. Ended \in {NotStarted, Ended}
  OBVIOUS
<1> QED
  BY <1>0, <1>1, <1>7, <1>8, OneRequestMoves

\* A request ends.
LEMMA EndKeepsRequests ==
    ASSUME RequestsAreChecked, NEW c \in Request, EndRequest(c), everListed' = everListed
    PROVE  RequestsAreChecked'
<1>1. call' = [call EXCEPT ![c] = Ended] /\ Ended \in {NotStarted, Ended}
  BY DEF EndRequest
<1> QED
  BY <1>1, OneRequestMoves

\* What is stored was listed, when rows come from stored ones and bodies
\* that were checked.
LEMMA RowsWereListed ==
    ASSUME StoredWereListed, UNCHANGED <<listing, everListed, queued>>,
           \A p \in Profile : \A s \in profiles'[p] : Mentioned(s) \subseteq everListed
    PROVE  StoredWereListed'
BY DEF StoredWereListed

\* The transaction of create and replace, of a body that is checked to its end.
LEMMA SaveKeepsProfilesInv ==
    ASSUME ProfilesInv, NEW c \in Request, SaveProfile(c)
    PROVE  ProfilesInv'
<1>0. RowsAreWhole /\ LibraryIsSeeded /\ StoredWereListed /\ RequestsAreChecked
  BY DEF ProfilesInv
<1> DEFINE k == call[c]
<1>1. /\ k.step = "check" /\ k.todo = <<>> /\ k.kind \in {"create", "replace"} /\ EndRequest(c)
      /\ UNCHANGED <<active, boot, restarts, queued, everListed, listing>>
  BY DEF SaveProfile, Checked
<1>2. Underway(k, everListed)
  BY <1>0, <1>1 DEF RequestsAreChecked, NotStarted, Ended
<1>3. k.id \in Profile /\ k.input \in Inputs /\ Mentioned(k.input) \subseteq everListed
  <2>1. Len(k.todo) = 0
    BY <1>1
  <2> QED
    BY <1>1, <1>2, <2>1 DEF Underway
<1>4. RequestsAreChecked'
  BY <1>0, <1>1, EndKeepsRequests
<1>5. boot' # "prompts" => boot # "prompts"
  BY <1>1
<1>6. boot' \in {"prompts", "profile", "activate", "up"}
  BY <1>0, <1>1 DEF RowsAreWhole
<1>7. \A p \in Profile : \A s \in profiles[p] : Mentioned(s) \subseteq everListed
  BY <1>0 DEF StoredWereListed
<1>8. CASE SavedPrompts(k.input) /\ Create(k.id, k.input)
  <2>1. /\ RowsAreWhole' /\ LibraryIsSeeded'
        /\ \A p \in Profile : \A s \in profiles'[p] : s \in profiles[p] \/ Mentioned(s) \subseteq Mentioned(k.input)
    BY <1>1, <1>3, <1>5, <1>6, <1>8, CreateKeepsRows
  <2>2. StoredWereListed'
    BY <1>0, <1>1, <1>3, <1>7, <2>1, RowsWereListed
  <2> QED
    BY <1>4, <2>1, <2>2 DEF ProfilesInv
<1>9. CASE SavedPrompts(k.input) /\ Replace(k.id, k.input)
  <2>1. /\ RowsAreWhole' /\ LibraryIsSeeded'
        /\ \A p \in Profile : \A s \in profiles'[p] :
              \/ s \in profiles[p]
              \/ \E old \in profiles[p] : Mentioned(s) \subseteq Mentioned(k.input) \cup Mentioned(old)
    BY <1>1, <1>3, <1>9, ReplaceKeepsRows
  <2>2. \A p \in Profile : \A s \in profiles'[p] : Mentioned(s) \subseteq everListed
    <3>1. SUFFICES ASSUME NEW p \in Profile, NEW s \in profiles'[p] PROVE Mentioned(s) \subseteq everListed
      OBVIOUS
    <3>2. CASE s \in profiles[p]
      BY <1>7, <3>2
    <3>3. CASE \E old \in profiles[p] : Mentioned(s) \subseteq Mentioned(k.input) \cup Mentioned(old)
      BY <1>3, <1>7, <3>3
    <3> QED
      BY <2>1, <3>2, <3>3
  <2>3. StoredWereListed'
    BY <1>0, <1>1, <2>2, RowsWereListed
  <2> QED
    BY <1>4, <2>1, <2>3 DEF ProfilesInv
<1>10. CASE UNCHANGED <<profiles, versions>>
  <2>1. active' \subseteq Stored
    BY <1>0, <1>1 DEF RowsAreWhole
  <2>2. RowsAreWhole' /\ LibraryIsSeeded'
    BY <1>5, <1>6, <1>10, <2>1, RowsStay
  <2>3. StoredWereListed'
    BY <1>0, <1>1, <1>7, <1>10, RowsWereListed
  <2> QED
    BY <1>4, <2>2, <2>3 DEF ProfilesInv
<1> QED
  BY <1>8, <1>9, <1>10 DEF SaveProfile

\* A capture queues what it read: bindings that were stored.
LEMMA CaptureKeepsProfilesInv ==
    ASSUME ProfilesInv, NEW c \in Request, Capture(c)
    PROVE  ProfilesInv'
<1>0. RowsAreWhole /\ LibraryIsSeeded /\ StoredWereListed /\ RequestsAreChecked
  BY DEF ProfilesInv
<1> DEFINE k == call[c]
           q == [id |-> k.id, kind |-> k.kind, bindings |-> k.bindings,
                 prompts |-> {x \in PromptsOf(k.id) : x[1] \in Prompts(k.kind)}]
<1>1. /\ k.step = "check" /\ k.kind \in Captures /\ EndRequest(c)
      /\ UNCHANGED <<profiles, active, versions, boot, listing, everListed>>
      /\ \E now \in {{q}, queued[c]} : queued' = [queued EXCEPT ![c] = now]
  BY DEF Capture, Checked
<1>2. Underway(k, everListed)
  BY <1>0, <1>1 DEF RequestsAreChecked, NotStarted, Ended
<1>3. \A i \in DOMAIN k.bindings : k.bindings[i].binding \in everListed
  BY <1>1, <1>2 DEF Underway
<1>4. q.bindings = k.bindings
  OBVIOUS
<1> HIDE DEF k, q
<1>5. ASSUME NEW d \in Request, NEW w \in queued'[d]
      PROVE  \A i \in DOMAIN w.bindings : w.bindings[i].binding \in everListed
  <2>1. w = q \/ w \in queued[d]
    BY <1>0, <1>1 DEF StoredWereListed
  <2> QED
    BY <1>0, <1>3, <1>4, <2>1 DEF StoredWereListed
<1>6. queued' = [d \in Request |-> queued'[d]]
  BY <1>0, <1>1 DEF StoredWereListed
<1>7. StoredWereListed'
  BY <1>0, <1>1, <1>5, <1>6 DEF StoredWereListed
<1>8. RequestsAreChecked'
  BY <1>0, <1>1, EndKeepsRequests
<1>9. RowsAreWhole' /\ LibraryIsSeeded'
  BY <1>0, <1>1, RowsStay DEF RowsAreWhole
<1> QED
  BY <1>7, <1>8, <1>9 DEF ProfilesInv

\* The steps that are no request's: the owner's single statements, a start,
\* and a refresh of the catalog.
LEMMA OtherStepsKeepProfilesInv ==
    ASSUME ProfilesInv,
           \/ \E id \in Profile : Delete(id) \/ \E name \in NewNames : Rename(id, name)
           \/ \E t \in Edited : SavePrompt(t)
           \/ SeedPrompts \/ SeedProfile \/ ActivateSeeded \/ Restart
           \/ \E tuples \in Listings : CatalogChanges(tuples)
    PROVE  ProfilesInv'
<1>0. RowsAreWhole /\ LibraryIsSeeded /\ StoredWereListed /\ RequestsAreChecked
  BY DEF ProfilesInv
<1>1. \A p \in Profile : \A s \in profiles[p] : Mentioned(s) \subseteq everListed
  BY <1>0 DEF StoredWereListed
<1>2. ASSUME UNCHANGED <<call, queued, everListed, listing>>, RowsAreWhole' /\ LibraryIsSeeded',
             \A p \in Profile : \A s \in profiles'[p] : Mentioned(s) \subseteq everListed
      PROVE  ProfilesInv'
  <2>1. RequestsAreChecked'
    BY <1>0, <1>2, RequestsStay
  <2>2. StoredWereListed'
    BY <1>0, <1>2, RowsWereListed
  <2> QED
    BY <1>2, <2>1, <2>2 DEF ProfilesInv
<1>3. ASSUME NEW id \in Profile, Delete(id) PROVE ProfilesInv'
  <2>1. UNCHANGED <<call, queued, everListed, listing>>
    BY <1>3 DEF Delete
  <2> QED
    BY <1>1, <1>2, <1>3, <2>1, DeleteKeepsRows
<1>4. ASSUME NEW id \in Profile, NEW name \in NewNames, Rename(id, name) PROVE ProfilesInv'
  <2>1. UNCHANGED <<call, queued, everListed, listing>>
    BY <1>4 DEF Rename
  <2>2. /\ RowsAreWhole' /\ LibraryIsSeeded'
        /\ \A p \in Profile : \A s \in profiles'[p] : \E old \in profiles[p] : Mentioned(s) = Mentioned(old)
    BY <1>4, RenameKeepsRows
  <2>3. \A p \in Profile : \A s \in profiles'[p] : Mentioned(s) \subseteq everListed
    BY <1>1, <2>2
  <2> QED
    BY <1>2, <2>1, <2>2, <2>3
<1>5. ASSUME NEW t \in Edited, SavePrompt(t) PROVE ProfilesInv'
  <2>1. UNCHANGED <<profiles, call, queued, everListed, listing>>
    BY <1>5 DEF SavePrompt
  <2> QED
    BY <1>1, <1>2, <1>5, <2>1, SavePromptKeepsRows
<1>6. ASSUME SeedPrompts PROVE ProfilesInv'
  <2>1. UNCHANGED <<call, queued, everListed, listing>>
    BY <1>6 DEF SeedPrompts
  <2>2. /\ RowsAreWhole' /\ LibraryIsSeeded'
        /\ \A p \in Profile : \A s \in profiles'[p] : \E old \in profiles[p] : Mentioned(s) = Mentioned(old)
    BY <1>6, SeedPromptsKeepsRows
  <2>3. \A p \in Profile : \A s \in profiles'[p] : Mentioned(s) \subseteq everListed
    BY <1>1, <2>2
  <2> QED
    BY <1>2, <2>1, <2>2, <2>3
<1>7. ASSUME SeedProfile PROVE ProfilesInv'
  <2>1. boot = "profile" /\ UNCHANGED <<active, call, queued, everListed, listing>>
    BY <1>7 DEF SeedProfile
  <2>2. CASE boot' = "up" /\ UNCHANGED <<profiles, versions>>
    <3>1. active' \subseteq Stored
      BY <1>0, <2>1 DEF RowsAreWhole
    <3>2. RowsAreWhole' /\ LibraryIsSeeded'
      BY <2>1, <2>2, <3>1, RowsStay
    <3> QED
      BY <1>1, <1>2, <2>1, <2>2, <3>2
  <2>3. ASSUME NEW input \in Bootstrap, NEW id \in Profile, Range(input.bindings) \subseteq listing,
               Create(id, input), boot' = "activate"
        PROVE  ProfilesInv'
    <3>1. input.explore = {} /\ input.prompts = {}
      BY ProfilesAssumption DEF ProfilesAssumption
    <3>2. SavedPrompts(input)
      BY <3>1 DEF SavedPrompts
    <3>3. /\ RowsAreWhole' /\ LibraryIsSeeded'
          /\ \A p \in Profile : \A s \in profiles'[p] : s \in profiles[p] \/ Mentioned(s) \subseteq Mentioned(input)
      BY <2>1, <2>3, <3>2, CreateKeepsRows
    <3>4. Mentioned(input) \subseteq everListed
      BY <1>0, <2>3, <3>1 DEF Mentioned, StoredWereListed
    <3>5. \A p \in Profile : \A s \in profiles'[p] : Mentioned(s) \subseteq everListed
      BY <1>1, <3>3, <3>4
    <3> QED
      BY <1>2, <2>1, <3>3, <3>5
  <2> QED
    BY <1>7, <2>2, <2>3 DEF SeedProfile
<1>8. ASSUME ActivateSeeded PROVE ProfilesInv'
  <2>1. /\ boot = "activate" /\ boot' = "up" /\ active' = Stored
        /\ UNCHANGED <<profiles, versions, call, queued, everListed, listing>>
    BY <1>8 DEF ActivateSeeded
  <2>2. RowsAreWhole' /\ LibraryIsSeeded'
    BY <2>1, RowsStay
  <2> QED
    BY <1>1, <1>2, <2>1, <2>2
<1>9. ASSUME Restart PROVE ProfilesInv'
  <2>1. boot' = "prompts" /\ UNCHANGED <<profiles, active, versions, call, queued, everListed, listing>>
    BY <1>9 DEF Restart
  <2>2. active' \subseteq Stored
    BY <1>0, <2>1 DEF RowsAreWhole
  <2>3. RowsAreWhole' /\ LibraryIsSeeded'
    BY <2>1, <2>2, RowsStay
  <2> QED
    BY <1>1, <1>2, <2>1, <2>3
<1>10. ASSUME NEW tuples \in Listings, CatalogChanges(tuples) PROVE ProfilesInv'
  <2>1. /\ listing' = tuples /\ everListed' = everListed \cup tuples
        /\ UNCHANGED <<profiles, active, versions, boot, call, queued>>
    BY <1>10 DEF CatalogChanges
  <2>2. RowsAreWhole' /\ LibraryIsSeeded'
    BY <1>0, <2>1, RowsStay DEF RowsAreWhole
  <2>3. RequestsAreChecked'
    BY <1>0, <2>1, RequestsStay
  <2>4. tuples \subseteq UNION Listings
    OBVIOUS
  <2>5. tuples \subseteq Tuples
    BY <2>4 DEF Tuples
  <2>6. StoredWereListed'
    BY <1>0, <2>1, <2>5 DEF StoredWereListed
  <2> QED
    BY <2>2, <2>3, <2>6 DEF ProfilesInv
<1> QED
  BY <1>3, <1>4, <1>5, <1>6, <1>7, <1>8, <1>9, <1>10

\* The steps of a request.
LEMMA RequestStepsKeepProfilesInv ==
    ASSUME ProfilesInv, NEW c \in Request,
           \/ \E kind \in {"create", "replace"}, id \in Profile, input \in Inputs : StartRequest(c, kind, id, input)
           \/ \E kind \in Captures \cup {"activate"}, id \in Profile : StartRequest(c, kind, id, {})
           \/ ReadBindings(c) \/ \E available \in BOOLEAN : CheckBinding(c, available)
           \/ SaveProfile(c) \/ Activate(c) \/ Capture(c)
    PROVE  ProfilesInv'
<1>0. RowsAreWhole /\ LibraryIsSeeded /\ StoredWereListed /\ RequestsAreChecked
  BY DEF ProfilesInv
<1>1. ASSUME UNCHANGED <<profiles, active, versions, boot, queued, everListed, listing>>, RequestsAreChecked'
      PROVE  ProfilesInv'
  <2>1. RowsAreWhole' /\ LibraryIsSeeded'
    BY <1>0, <1>1, RowsStay DEF RowsAreWhole
  <2>2. StoredWereListed'
    BY <1>0, <1>1 DEF StoredWereListed
  <2> QED
    BY <1>1, <2>1, <2>2 DEF ProfilesInv
<1>2. ASSUME NEW kind, NEW id \in Profile, NEW input, StartRequest(c, kind, id, input),
             \/ kind \in {"create", "replace"} /\ input \in Inputs
             \/ kind \in Captures \cup {"activate"}
      PROVE  ProfilesInv'
  <2>1. UNCHANGED <<profiles, active, versions, boot, queued, everListed, listing>>
    BY <1>2 DEF StartRequest
  <2>2. RequestsAreChecked'
    BY <1>2, StartKeepsRequests
  <2> QED
    BY <1>1, <2>1, <2>2
<1>3. ASSUME ReadBindings(c) PROVE ProfilesInv'
  <2>1. UNCHANGED <<profiles, active, versions, boot, queued, everListed, listing>>
    BY <1>3 DEF ReadBindings
  <2> QED
    BY <1>1, <1>3, <2>1, ReadKeepsRequests
<1>4. ASSUME NEW available \in BOOLEAN, CheckBinding(c, available) PROVE ProfilesInv'
  <2>1. UNCHANGED <<profiles, active, versions, boot, queued, everListed, listing>>
    BY <1>4 DEF CheckBinding
  <2> QED
    BY <1>1, <1>4, <2>1, CheckKeepsRequests
<1>5. ASSUME Activate(c) PROVE ProfilesInv'
  <2>1. /\ EndRequest(c) /\ UNCHANGED <<profiles, versions, boot, queued, everListed, listing>>
        /\ active' = IF call[c].id \in Stored THEN {call[c].id} ELSE active
    BY <1>5 DEF Activate
  <2>2. active' \subseteq Stored
    BY <1>0, <2>1 DEF RowsAreWhole
  <2>3. RowsAreWhole' /\ LibraryIsSeeded'
    BY <1>0, <2>1, <2>2, RowsStay DEF RowsAreWhole
  <2>4. RequestsAreChecked'
    BY <1>0, <2>1, EndKeepsRequests
  <2>5. StoredWereListed'
    BY <1>0, <2>1 DEF StoredWereListed
  <2> QED
    BY <2>3, <2>4, <2>5 DEF ProfilesInv
<1> QED
  BY <1>2, <1>3, <1>4, <1>5, SaveKeepsProfilesInv, CaptureKeepsProfilesInv

\* A database is empty or older than the prompt library.
LEMMA ProfilesInitInv == ProfilesInit => ProfilesInv
<1> SUFFICES ASSUME ProfilesInit PROVE ProfilesInv
  OBVIOUS
<1>1. /\ profiles = [id \in Profile |-> profiles[id]] /\ \A id \in Profile : profiles[id] \subseteq Legacy[id]
      /\ active = Stored /\ versions = [t \in PromptTypes |-> 0] /\ boot = "prompts"
      /\ call = [c \in Request |-> NotStarted] /\ queued = [c \in Request |-> {}]
      /\ listing \in Listings
      /\ everListed = listing \cup UNION {Range(Row(id).bindings) \cup Row(id).explore : id \in Stored}
  BY ProfilesAssumption DEF ProfilesInit, ProfilesAssumption
<1>2. ASSUME NEW id \in Profile, NEW r \in profiles[id]
      PROVE  /\ profiles[id] = {r} /\ RowOK(r) /\ SavedPrompts(r) /\ r \in Legacy[id]
             /\ \A other \in Profile \ {id} : \A q \in profiles[other] : q.name # r.name
  <2>1. /\ r \in Legacy[id] /\ Legacy[id] = {r}
        /\ r = [name |-> r.name, bindings |-> r.bindings, explore |-> r.explore, prompts |-> {}]
        /\ DOMAIN r.bindings = RegisteredStages /\ \E b \in r.explore : r.explore = {b}
        /\ \A other \in Profile \ {id} : \A q \in Legacy[other] : q.name # r.name
    BY <1>1, ProfilesAssumption DEF ProfilesAssumption
  <2>2. r.prompts = {}
    BY <2>1
  <2>3. RowOK(r) /\ SavedPrompts(r)
    BY <2>1, <2>2 DEF RowOK, SavedPrompts
  <2>4. profiles[id] = {r}
    BY <1>1, <2>1
  <2>5. \A other \in Profile \ {id} : \A q \in profiles[other] : q.name # r.name
    BY <1>1, <2>1
  <2> QED
    BY <2>1, <2>3, <2>4, <2>5
<1>3. RowsAreWhole
  BY <1>1, <1>2 DEF RowsAreWhole
<1>4. ASSUME NEW id \in Profile, NEW r \in profiles[id]
      PROVE  Mentioned(r) \subseteq everListed /\ Mentioned(r) \subseteq OfLegacy
  <2>1. id \in Stored /\ r = Row(id)
    BY <1>3, StoredRow
  <2>2. Mentioned(r) \in {Range(Row(p).bindings) \cup Row(p).explore : p \in Stored}
    BY <2>1 DEF Mentioned
  <2>3. Mentioned(r) \subseteq everListed
    BY <1>1, <2>2
  <2>4. Mentioned(r) \in {Mentioned(s) : s \in Legacy[id]}
    BY <1>2
  <2>5. Mentioned(r) \subseteq OfLegacy
    BY <2>4 DEF OfLegacy
  <2> QED
    BY <2>3, <2>5
<1>5. StoredWereListed
  <2>1. listing \subseteq UNION Listings
    BY <1>1
  <2>2. ASSUME NEW x \in everListed PROVE x \in Tuples
    <3>1. CASE x \in listing
      BY <2>1, <3>1 DEF Tuples
    <3>2. CASE x \notin listing
      <4>1. PICK id \in Stored : x \in Mentioned(Row(id))
        BY <1>1, <3>2 DEF Mentioned
      <4>2. id \in Profile /\ Row(id) \in profiles[id]
        BY <1>3, StoredRow DEF Stored
      <4> QED
        BY <1>4, <4>1, <4>2 DEF Tuples
    <3> QED
      BY <3>1, <3>2
  <2>3. listing \subseteq everListed
    BY <1>1
  <2>4. \A c \in Request : queued[c] = {}
    BY <1>1
  <2>5. queued = [c \in Request |-> queued[c]]
    BY <1>1
  <2> QED
    BY <1>4, <2>2, <2>3, <2>4, <2>5 DEF StoredWereListed
<1>6. LibraryIsSeeded
  BY <1>1 DEF LibraryIsSeeded
<1>7. RequestsAreChecked
  BY <1>1 DEF RequestsAreChecked
<1> QED
  BY <1>3, <1>5, <1>6, <1>7 DEF ProfilesInv

\* The inductive invariant of the profiles (analysis/profiles.go): rows stay
\* whole whatever commits between the reads of a request, and what a request
\* has still to check is all that was never listed.
THEOREM ProfilesCorrect == ProfilesSpec => []ProfilesInv
<1>1. ProfilesInv /\ [ProfilesNext]_profileVars => ProfilesInv'
  <2>1. ASSUME ProfilesInv, UNCHANGED profileVars PROVE ProfilesInv'
    <3>1. /\ UNCHANGED <<profiles, active, versions, boot, call, queued, everListed, listing>>
          /\ RowsAreWhole /\ StoredWereListed /\ RequestsAreChecked
      BY <2>1 DEF profileVars, ProfilesInv
    <3>2. RowsAreWhole' /\ LibraryIsSeeded'
      BY <2>1, <3>1, RowsStay DEF RowsAreWhole
    <3>3. StoredWereListed'
      BY <3>1 DEF StoredWereListed
    <3>4. RequestsAreChecked'
      BY <3>1, RequestsStay
    <3> QED
      BY <3>2, <3>3, <3>4 DEF ProfilesInv
  <2> QED
    BY <2>1, RequestStepsKeepProfilesInv, OtherStepsKeepProfilesInv DEF ProfilesNext
<1> QED
  BY <1>1, ProfilesInitInv, PTL DEF ProfilesSpec

\* A served profile is complete, named apart and, if active, stored
\* (CreateWithChoices, ReplaceWithChoices, Delete, Activate).
THEOREM ProfilesStayWhole == ProfilesSpec => []ProfilesAreWhole
<1>1. ProfilesInv => ProfilesAreWhole
  BY ProfilesInvSays
<1> QED
  BY <1>1, ProfilesCorrect, PTL

\* No binding is stored or queued that its provider never listed
\* (canonicalizeUsableBindings, seedBootstrapProfile).
THEOREM OnlyListedBindings == ProfilesSpec => []BindingsWereListed
<1>1. ProfilesInv => BindingsWereListed
  BY ProfilesInvSays
<1> QED
  BY <1>1, ProfilesCorrect, PTL

-----------------------------------------------------------------------------
(* Plugins.                                                                 *)

Entry == [load : PluginLoad, plugin : STRING, surface : {reg.surface : reg \in Registrations},
          key : {reg.key : reg \in Registrations}]
Entered == {"registration", "returned", "registered", "failed"}

Transaction == [state : {"none", "open", "rolled_back", "committed"}, err : BOOLEAN, pending : Seq(Entry)]
Answer == [acked : Seq(Entry), refused : BOOLEAN, adds : Int]
DispatchState == [observers : SUBSET Nat, left : SUBSET Nat, calling : SUBSET Nat,
                  result : {"none", "running", "nil", "failed"}]

Phases == OpenStages \cup {"idle", "sidecar_read", "schema", "checksum", "compatibility",
                            "registration", "returned", "registered", "failed"}

PluginsTypeOK ==
    /\ load \in [PluginLoad -> [phase : Phases, package : SUBSET Package]]
    /\ tx \in [PluginLoad -> Transaction]
    /\ answers \in [PluginLoad -> Answer]
    /\ registry \in Seq(Entry)
    /\ dispatch \in [Dispatch -> DispatchState]

\* Only a package that passed every check is entered.
Vetted(p) ==
    /\ p.content = p.sidecar.checksum /\ p.sidecar.graph = Host.graph
    /\ p.embedded.id = p.sidecar.id /\ Host.role \in ToSet(p.embedded.target)

\* An open transaction holds what was answered and nothing else, an error
\* closes it for good, and what a load was told is its own and claims no name
\* twice.
NamesApart(s) ==
    \A i, j \in DOMAIN s :
        i # j /\ s[i].surface = s[j].surface => ConflictKey(s[i]) # ConflictKey(s[j])
LoadIsSound(l) ==
    /\ load[l].phase \in Entered => load[l].package # {} /\ \A p \in load[l].package : Vetted(p)
    /\ load[l].phase = "registered" <=> tx[l].state = "committed"
    /\ tx[l].state = "open" => load[l].phase \in {"registration", "returned"} /\ tx[l].pending = answers[l].acked
    /\ tx[l].state = "none" <=> load[l].phase \notin Entered
    /\ tx[l].state = "none" => answers[l].acked = <<>>
    /\ tx[l].state # "open" => tx[l].pending = <<>>
    /\ tx[l].err => tx[l].state = "rolled_back"
    /\ answers[l].refused => tx[l].err
    /\ NamesApart(answers[l].acked) /\ \A i \in DOMAIN answers[l].acked : answers[l].acked[i].load = l

\* A committed transaction is one piece of the registry, and no other is in it.
CommitIsWhole(l) ==
    LET own == {i \in DOMAIN registry : registry[i].load = l} acked == answers[l].acked IN
    /\ tx[l].state = "committed" => \E n \in 0 .. Len(registry) :
          own = n + 1 .. n + Len(acked) /\ \A k \in DOMAIN acked : registry[n + k] = acked[k]
    /\ tx[l].state # "committed" => own = {}
LoadsAreSound == NamesApart(registry) /\ \A l \in PluginLoad : LoadIsSound(l) /\ CommitIsWhole(l)

\* Tuples are reserved by the one dispatch that calls.  One that a dispatch has
\* passed is reserved or done, or it failed with the dispatch that had it.
SomeFailed(v) == \E d \in Dispatch : Event[d] = v /\ dispatch[d].result = "failed"
DispatchIsHeld(d) ==
    /\ dispatch[d].left \subseteq dispatch[d].observers
    /\ dispatch[d].observers \subseteq DOMAIN registry
    /\ dispatch[d].calling # {} => dispatch[d].result = "running"
    /\ \A i, j \in dispatch[d].calling : i = j
    /\ \A i \in dispatch[d].calling : i \in dispatch[d].left /\ Tuple(d, i) \in delivering
    /\ dispatch[d].result = "none" => dispatch[d].observers = {}
    /\ dispatch[d].result = "nil" => dispatch[d].left = {}
    /\ \A i \in dispatch[d].observers \ dispatch[d].left :
          Tuple(d, i) \in delivering \cup completed \/ SomeFailed(Event[d])
DeliveriesAreHeld ==
    /\ delivering \cap completed = {} /\ DOMAIN heard = completed
    /\ \A t \in DOMAIN heard : heard[t] = 1
    /\ \A d \in Dispatch : DispatchIsHeld(d)
    /\ \A t \in delivering : \E d \in Dispatch : \E i \in dispatch[d].calling : Tuple(d, i) = t
    /\ \A d, e \in Dispatch :
          d # e => \A i \in dispatch[d].calling, j \in dispatch[e].calling : Tuple(d, i) # Tuple(e, j)

PluginsInv == PluginsTypeOK /\ LoadsAreSound /\ DeliveriesAreHeld

\* The invariant says what the properties promise.
LEMMA PluginsInvSays == PluginsInv => RegistrationsAreWhole /\ ObserversHearOnce
<1> SUFFICES ASSUME PluginsInv PROVE RegistrationsAreWhole /\ ObserversHearOnce
  OBVIOUS
<1>1. ASSUME NEW l \in PluginLoad
      PROVE LET own == {i \in DOMAIN registry : registry[i].load = l} acked == answers[l].acked IN
          /\ load[l].phase = "registered" => \E n \in 0 .. Len(registry) :
                own = n + 1 .. n + Len(acked) /\ \A k \in DOMAIN acked : registry[n + k] = acked[k]
          /\ load[l].phase # "registered" \/ answers[l].refused => own = {}
          /\ own # {} => \A p \in load[l].package :
                /\ p.content = p.sidecar.checksum /\ p.sidecar.graph = Host.graph
                /\ p.embedded.id = p.sidecar.id /\ Host.role \in ToSet(p.embedded.target)
  <2>1. LoadIsSound(l) /\ CommitIsWhole(l)
    BY DEF PluginsInv, LoadsAreSound
  <2>2. CASE tx[l].state = "committed"
    BY <2>1, <2>2 DEF LoadIsSound, CommitIsWhole, Vetted, Entered
  <2>3. CASE tx[l].state # "committed"
    BY <2>1, <2>3 DEF LoadIsSound, CommitIsWhole
  <2> QED
    BY <2>2, <2>3
<1>2. RegistrationsAreWhole
  BY <1>1 DEF RegistrationsAreWhole, PluginsInv, LoadsAreSound, NamesApart
<1>3. ASSUME NEW v \in {Event[d] : d \in Dispatch},
             \A d \in {d \in Dispatch : Event[d] = v} : dispatch[d].result = "nil",
             NEW d \in {d \in Dispatch : Event[d] = v}, NEW i \in dispatch[d].observers
      PROVE <<registry[i], v>> \in DOMAIN heard
  <2>1. d \in Dispatch /\ Event[d] = v /\ dispatch[d].result = "nil"
    BY <1>3
  <2>2. <<registry[i], v>> \in delivering \cup completed
    BY <2>1, <1>3 DEF PluginsInv, DeliveriesAreHeld, DispatchIsHeld, Tuple, SomeFailed
  <2>3. ASSUME NEW t \in delivering, t = <<registry[i], v>> PROVE FALSE
    <3>1. PICK e \in Dispatch : \E j \in dispatch[e].calling : Tuple(e, j) = t
      BY DEF PluginsInv, DeliveriesAreHeld, DispatchIsHeld
    <3>2. Event[e] = v /\ dispatch[e].result = "running"
      BY <3>1, <2>3 DEF PluginsInv, DeliveriesAreHeld, DispatchIsHeld, Tuple
    <3> QED
      BY <3>2, <1>3
  <2> QED
    BY <2>2, <2>3 DEF PluginsInv, DeliveriesAreHeld, DispatchIsHeld
<1>4. ObserversHearOnce
  BY <1>3 DEF ObserversHearOnce, PluginsInv, DeliveriesAreHeld, DispatchIsHeld
<1> QED
  BY <1>2, <1>4


\* What registers plugins is untouched where nothing of it changes.
LEMMA LoadsStay ==
    ASSUME PluginsInv, UNCHANGED <<load, tx, answers, registry>>, dispatch' \in [Dispatch -> DispatchState]
    PROVE  PluginsTypeOK' /\ LoadsAreSound'
<1>1. PluginsTypeOK'
  BY DEF PluginsInv, PluginsTypeOK
<1>2. LoadsAreSound'
  BY DEF PluginsInv, LoadsAreSound, LoadIsSound, CommitIsWhole, NamesApart, Vetted
<1> QED
  BY <1>1, <1>2

\* What a dispatch holds, where it is untouched and no failure is forgotten.
LEMMA OtherDispatchIsHeld ==
    ASSUME NEW d \in Dispatch, DispatchIsHeld(d), dispatch'[d] = dispatch[d],
           \A v : SomeFailed(v) => SomeFailed(v)', UNCHANGED registry,
           \A i \in dispatch[d].calling : Tuple(d, i) \in delivering',
           \A i \in dispatch[d].observers : Tuple(d, i) \in delivering \cup completed
               => Tuple(d, i) \in delivering' \cup completed' \/ SomeFailed(Event[d])'
    PROVE  DispatchIsHeld(d)'
  BY DEF DispatchIsHeld, Tuple

\* A dispatch takes its copy.
LEMMA DispatchEventKeeps ==
    ASSUME PluginsInv, NEW d \in Dispatch, DispatchEvent(d) PROVE PluginsInv'
<1> USE DEF DispatchEvent
<1>0. Observers \subseteq DOMAIN registry /\ DOMAIN registry \subseteq Nat
  BY DEF Observers, PluginsInv, PluginsTypeOK
<1>1. /\ dispatch[d].calling = {} /\ dispatch \in [Dispatch -> DispatchState]
      /\ dispatch[d].result = "none"
  BY DEF PluginsInv, PluginsTypeOK, DeliveriesAreHeld, DispatchIsHeld
<1>2. /\ dispatch'[d] = [observers |-> Observers, left |-> Observers, calling |-> {}, result |-> "running"]
      /\ \A e \in Dispatch : e # d => dispatch'[e] = dispatch[e]
  BY <1>1
<1>3. dispatch'[d] \in DispatchState
  BY <1>0, <1>2 DEF DispatchState
<1>4. dispatch' \in [Dispatch -> DispatchState]
  BY <1>1, <1>2, <1>3
<1>5. \A v : SomeFailed(v) => SomeFailed(v)'
  BY <1>1, <1>2 DEF SomeFailed
<1>6. ASSUME NEW e \in Dispatch PROVE DispatchIsHeld(e)'
  <2>1. CASE e = d
    BY <1>0, <1>2, <2>1 DEF DispatchIsHeld
  <2>2. CASE e # d
    BY <1>2, <1>5, <2>2, OtherDispatchIsHeld DEF PluginsInv, DeliveriesAreHeld, DispatchIsHeld
  <2> QED
    BY <2>1, <2>2
<1>7. \A e \in Dispatch : dispatch'[e].calling = dispatch[e].calling
  BY <1>1, <1>2
<1>8. DeliveriesAreHeld'
  BY <1>6, <1>7 DEF PluginsInv, DeliveriesAreHeld, Tuple
<1> QED
  BY <1>4, <1>8, LoadsStay DEF PluginsInv

\* A dispatch that ends passed all its observers.
LEMMA DispatchEndsKeeps ==
    ASSUME PluginsInv, NEW d \in Dispatch, DispatchEnds(d) PROVE PluginsInv'
<1> USE DEF DispatchEnds
<1>1. /\ dispatch[d].calling = {} /\ dispatch \in [Dispatch -> DispatchState]
      /\ dispatch[d].result = "running" /\ dispatch[d] \in DispatchState /\ dispatch[d].left = {}
  BY DEF PluginsInv, PluginsTypeOK, DeliveriesAreHeld, DispatchIsHeld
<1>2. /\ dispatch'[d] = [dispatch[d] EXCEPT !.result = "nil"]
      /\ \A e \in Dispatch : e # d => dispatch'[e] = dispatch[e]
  BY <1>1
<1>3. /\ dispatch'[d].observers = dispatch[d].observers /\ dispatch'[d].left = {}
      /\ dispatch'[d].calling = {} /\ dispatch'[d].result = "nil" /\ dispatch'[d] \in DispatchState
  BY <1>1, <1>2 DEF DispatchState
<1>4. dispatch' \in [Dispatch -> DispatchState]
  BY <1>1, <1>2, <1>3
<1>5. \A v : SomeFailed(v) => SomeFailed(v)'
  BY <1>1, <1>2 DEF SomeFailed
<1>6. ASSUME NEW e \in Dispatch PROVE DispatchIsHeld(e)'
  <2>1. CASE e = d
    BY <1>1, <1>3, <1>5, <2>1 DEF PluginsInv, DeliveriesAreHeld, DispatchIsHeld, Tuple
  <2>2. CASE e # d
    BY <1>2, <1>5, <2>2, OtherDispatchIsHeld DEF PluginsInv, DeliveriesAreHeld, DispatchIsHeld
  <2> QED
    BY <2>1, <2>2
<1>7. \A e \in Dispatch : dispatch'[e].calling = dispatch[e].calling
  BY <1>1, <1>2, <1>3
<1>8. DeliveriesAreHeld'
  BY <1>6, <1>7 DEF PluginsInv, DeliveriesAreHeld, Tuple
<1> QED
  BY <1>4, <1>8, LoadsStay DEF PluginsInv

\* A tuple is reserved by one dispatch, or passed because another has it.
LEMMA ReserveDeliveryKeeps ==
    ASSUME PluginsInv, NEW d \in Dispatch, ReserveDelivery(d) PROVE PluginsInv'
<1>1. PICK i \in dispatch[d].left :
          IF Reserves(Tuple(d, i))
          THEN /\ delivering' = delivering \cup {Tuple(d, i)}
               /\ dispatch' = [dispatch EXCEPT ![d].calling = {i}]
          ELSE /\ dispatch' = [dispatch EXCEPT ![d].left = @ \ {i}]
               /\ UNCHANGED delivering
  BY DEF ReserveDelivery
<1>2. /\ dispatch[d].result = "running" /\ dispatch[d].calling = {}
      /\ UNCHANGED <<load, tx, answers, registry, completed, heard>>
  BY DEF ReserveDelivery
<1>3. /\ dispatch \in [Dispatch -> DispatchState] /\ dispatch[d] \in DispatchState
      /\ DispatchIsHeld(d) /\ i \in Nat
  BY DEF PluginsInv, PluginsTypeOK, DeliveriesAreHeld, DispatchState
<1>4. \A e \in Dispatch : e # d => dispatch'[e] = dispatch[e]
  BY <1>1, <1>3
<1>5. \A v : SomeFailed(v) => SomeFailed(v)'
  BY <1>2, <1>4 DEF SomeFailed
<1>6. CASE Reserves(Tuple(d, i))
  <2>1. /\ dispatch'[d] = [dispatch[d] EXCEPT !.calling = {i}]
        /\ delivering' = delivering \cup {Tuple(d, i)}
    BY <1>1, <1>3, <1>6
  <2>2. /\ dispatch'[d] \in DispatchState /\ dispatch'[d].observers = dispatch[d].observers
        /\ dispatch'[d].left = dispatch[d].left /\ dispatch'[d].calling = {i}
        /\ dispatch'[d].result = "running"
    BY <1>2, <1>3, <2>1 DEF DispatchState
  <2>3. dispatch' \in [Dispatch -> DispatchState]
    BY <1>1, <1>3, <1>4, <1>6, <2>2
  <2>4. Tuple(d, i) \notin delivering /\ Tuple(d, i) \notin completed
    BY <1>6 DEF Reserves
  <2>5. \A e \in Dispatch : e # d => \A j \in dispatch[e].calling : Tuple(e, j) # Tuple(d, i)
    BY <2>4 DEF PluginsInv, DeliveriesAreHeld, DispatchIsHeld
  <2>6. ASSUME NEW e \in Dispatch PROVE DispatchIsHeld(e)'
    <3>1. CASE e = d
      BY <1>1, <1>2, <1>3, <1>5, <2>1, <2>2, <3>1 DEF DispatchIsHeld, Tuple
    <3>2. CASE e # d
      BY <1>2, <1>4, <1>5, <2>1, <3>2, OtherDispatchIsHeld DEF PluginsInv, DeliveriesAreHeld, DispatchIsHeld
    <3> QED
      BY <3>1, <3>2
  <2>7. ASSUME NEW t \in delivering' PROVE \E e \in Dispatch : \E j \in dispatch'[e].calling : Tuple(e, j)' = t
    <3>1. CASE t = Tuple(d, i)
      BY <1>2, <2>2, <3>1 DEF Tuple
    <3>2. CASE t \in delivering
      <4>1. PICK e \in Dispatch : \E j \in dispatch[e].calling : Tuple(e, j) = t
        BY <3>2 DEF PluginsInv, DeliveriesAreHeld
      <4>2. dispatch'[e] = dispatch[e]
        BY <4>1, <1>2, <1>4
      <4> QED
        BY <4>1, <4>2, <1>2 DEF Tuple
    <3> QED
      BY <2>1, <3>1, <3>2
  <2>8. ASSUME NEW e \in Dispatch, NEW f \in Dispatch, e # f,
               NEW j \in dispatch'[e].calling, NEW k \in dispatch'[f].calling
        PROVE Tuple(e, j)' # Tuple(f, k)'
    <3>1. CASE e = d
      BY <1>2, <1>4, <2>2, <2>5, <2>8, <3>1 DEF Tuple
    <3>2. CASE f = d
      BY <1>2, <1>4, <2>2, <2>5, <2>8, <3>2 DEF Tuple
    <3>3. CASE e # d /\ f # d
      BY <1>2, <1>4, <2>8, <3>3 DEF PluginsInv, DeliveriesAreHeld, Tuple
    <3> QED
      BY <3>1, <3>2, <3>3
  <2>9. DeliveriesAreHeld'
    BY <1>2, <2>1, <2>4, <2>6, <2>7, <2>8 DEF PluginsInv, DeliveriesAreHeld
  <2> QED
    BY <2>3, <2>9, <1>2, LoadsStay DEF PluginsInv
<1>7. CASE ~Reserves(Tuple(d, i))
  <2>1. dispatch'[d] = [dispatch[d] EXCEPT !.left = dispatch[d].left \ {i}] /\ delivering' = delivering
    BY <1>1, <1>3, <1>7
  <2>2. /\ dispatch'[d] \in DispatchState /\ dispatch'[d].observers = dispatch[d].observers
        /\ dispatch'[d].left = dispatch[d].left \ {i} /\ dispatch'[d].calling = {}
        /\ dispatch'[d].result = "running"
    BY <1>2, <1>3, <2>1 DEF DispatchState
  <2>3. dispatch' \in [Dispatch -> DispatchState]
    BY <1>1, <1>3, <1>4, <1>7, <2>2
  <2>4. Tuple(d, i) \in delivering \cup completed
    BY <1>7 DEF Reserves
  <2>5. ASSUME NEW e \in Dispatch PROVE DispatchIsHeld(e)'
    <3>1. CASE e = d
      BY <1>2, <1>3, <1>5, <2>1, <2>2, <2>4, <3>1 DEF DispatchIsHeld, Tuple
    <3>2. CASE e # d
      BY <1>2, <1>4, <1>5, <2>1, <3>2, OtherDispatchIsHeld DEF PluginsInv, DeliveriesAreHeld, DispatchIsHeld
    <3> QED
      BY <3>1, <3>2
  <2>6. \A e \in Dispatch : dispatch'[e].calling = dispatch[e].calling
    BY <1>2, <1>4, <2>2
  <2>7. DeliveriesAreHeld'
    BY <1>2, <2>1, <2>5, <2>6 DEF PluginsInv, DeliveriesAreHeld, Tuple
  <2> QED
    BY <2>3, <2>7, <1>2, LoadsStay DEF PluginsInv
<1> QED
  BY <1>6, <1>7

\* A call that returned is done, or free again and the dispatch over.
LEMMA DeliveredKeeps ==
    ASSUME PluginsInv, NEW d \in Dispatch, NEW ok \in BOOLEAN, Delivered(d, ok) PROVE PluginsInv'
<1>1. PICK i \in dispatch[d].calling :
        LET t == Tuple(d, i) IN
        /\ delivering' = delivering \ {t}
        /\ completed' = IF ok THEN completed \cup {t} ELSE completed
        /\ heard' = IF ok THEN [u \in DOMAIN heard \cup {t} |->
                       IF u \in DOMAIN heard THEN heard[u] + (IF u = t THEN 1 ELSE 0) ELSE 1] ELSE heard
        /\ dispatch' = [dispatch EXCEPT ![d].calling = {},
                                        ![d].left = IF ok THEN @ \ {i} ELSE @,
                                        ![d].result = IF ok THEN @ ELSE "failed"]
        /\ UNCHANGED <<load, tx, answers, registry>>
  BY DEF Delivered
<1>2. /\ dispatch[d].result = "running" /\ dispatch[d].calling = {i}
      /\ Tuple(d, i) \in delivering /\ Tuple(d, i) \notin completed
      /\ dispatch \in [Dispatch -> DispatchState] /\ dispatch[d] \in DispatchState
      /\ DispatchIsHeld(d)
  BY <1>1 DEF PluginsInv, PluginsTypeOK, DeliveriesAreHeld, DispatchIsHeld
<1>3. /\ \A e \in Dispatch : e # d => dispatch'[e] = dispatch[e]
      /\ DOMAIN dispatch' = Dispatch /\ dispatch' = [e \in Dispatch |-> dispatch'[e]]
  BY <1>1, <1>2
<1>4. /\ dispatch'[d].observers = dispatch[d].observers /\ dispatch'[d].calling = {}
      /\ dispatch'[d].left = (IF ok THEN dispatch[d].left \ {i} ELSE dispatch[d].left)
      /\ dispatch'[d].result = (IF ok THEN "running" ELSE "failed")
      /\ dispatch'[d] \in DispatchState
  <2>1. CASE ok
    BY <1>1, <1>2, <2>1 DEF DispatchState
  <2>2. CASE ~ok
    BY <1>1, <1>2, <2>2 DEF DispatchState
  <2> QED
    BY <2>1, <2>2
<1>5. dispatch' \in [Dispatch -> DispatchState]
  BY <1>2, <1>3, <1>4
<1>6. \A e \in Dispatch : e # d => \A j \in dispatch[e].calling : Tuple(e, j) # Tuple(d, i)
  BY <1>1 DEF PluginsInv, DeliveriesAreHeld
<1>7. /\ delivering' \cap completed' = {} /\ DOMAIN heard' = completed'
      /\ \A t \in DOMAIN heard' : heard'[t] = 1
  <2>1. CASE ok
    BY <1>1, <1>2, <2>1 DEF PluginsInv, DeliveriesAreHeld
  <2>2. CASE ~ok
    BY <1>1, <1>2, <2>2 DEF PluginsInv, DeliveriesAreHeld
  <2> QED
    BY <2>1, <2>2
<1>8. \A v : SomeFailed(v) => SomeFailed(v)'
  BY <1>2, <1>3 DEF SomeFailed
<1>9. ASSUME NEW e \in Dispatch, NEW j \in dispatch[e].observers, Tuple(e, j) \in delivering \cup completed
      PROVE Tuple(e, j) \in delivering' \cup completed' \/ SomeFailed(Event[e])'
  <2>1. CASE Tuple(e, j) = Tuple(d, i) /\ ~ok
    BY <1>4, <2>1 DEF SomeFailed, Tuple
  <2>2. CASE Tuple(e, j) = Tuple(d, i) /\ ok
    BY <1>1, <2>2
  <2>3. CASE Tuple(e, j) # Tuple(d, i)
    BY <1>1, <1>9, <2>3
  <2> QED
    BY <2>1, <2>2, <2>3
<1>10. ASSUME NEW e \in Dispatch PROVE DispatchIsHeld(e)'
  <2>1. CASE e = d
    <3>1. \A j \in dispatch'[d].observers \ dispatch'[d].left :
              Tuple(d, j) \in delivering \cup completed \/ SomeFailed(Event[d])
      BY <1>2, <1>4 DEF DispatchIsHeld
    <3>2. \A j \in dispatch'[d].observers \ dispatch'[d].left :
              Tuple(d, j)' \in delivering' \cup completed' \/ SomeFailed(Event[d])'
      BY <1>1, <1>4, <1>8, <1>9, <3>1 DEF Tuple
    <3> QED
      BY <1>1, <1>2, <1>4, <2>1, <3>2 DEF DispatchIsHeld
  <2>2. CASE e # d
    <3>1. \A j \in dispatch[e].calling : Tuple(e, j) \in delivering'
      BY <1>1, <1>6, <2>2 DEF PluginsInv, DeliveriesAreHeld, DispatchIsHeld
    <3>2. DispatchIsHeld(e)
      BY DEF PluginsInv, DeliveriesAreHeld
    <3> QED
      BY <1>1, <1>3, <1>8, <1>9, <2>2, <3>1, <3>2, OtherDispatchIsHeld
  <2> QED
    BY <2>1, <2>2
<1>11. ASSUME NEW t \in delivering' PROVE \E e \in Dispatch : \E j \in dispatch'[e].calling : Tuple(e, j)' = t
  <2>1. PICK e \in Dispatch : \E j \in dispatch[e].calling : Tuple(e, j) = t
    BY <1>1 DEF PluginsInv, DeliveriesAreHeld
  <2>2. e # d
    BY <2>1, <1>1, <1>2
  <2> QED
    BY <2>1, <2>2, <1>1, <1>3 DEF Tuple
<1>12. ASSUME NEW e \in Dispatch, NEW f \in Dispatch, e # f,
               NEW j \in dispatch'[e].calling, NEW k \in dispatch'[f].calling
       PROVE Tuple(e, j)' # Tuple(f, k)'
  BY <1>1, <1>3, <1>4, <1>12 DEF PluginsInv, DeliveriesAreHeld, Tuple
<1>13. DeliveriesAreHeld'
  BY <1>7, <1>10, <1>11, <1>12 DEF DeliveriesAreHeld
<1> QED
  BY <1>1, <1>5, <1>13, LoadsStay DEF PluginsInv

\* A load reaches registration only with a package that passed every check.
LEMMA StageIsEarned ==
    ASSUME NEW p \in Package
    PROVE  /\ LoadStage(p) \in Phases
           /\ LoadStage(p) \notin {"idle", "returned", "registered", "failed"}
           /\ LoadStage(p) = "registration" => Vetted(p)
<1> DEFINE m == p.sidecar e == p.embedded
<1>1. /\ m \in Manifest /\ e \in Manifest /\ p.opens \in {"opened"} \cup OpenStages
      /\ p.readable \in BOOLEAN
  BY DEF Package
<1>2. EqualExceptChecksum(e, m) => e.id = m.id /\ e.target = m.target
  <2>1. DOMAIN e = {"id", "target", "api", "build", "graph", "checksum"} /\ DOMAIN m = DOMAIN e
    BY <1>1 DEF Manifest
  <2>2. /\ [e EXCEPT !.checksum = 0]["id"] = e["id"] /\ [m EXCEPT !.checksum = 0]["id"] = m["id"]
        /\ [e EXCEPT !.checksum = 0]["target"] = e["target"] /\ [m EXCEPT !.checksum = 0]["target"] = m["target"]
    BY <2>1
  <2> QED
    BY <2>2 DEF EqualExceptChecksum
<1>3. LoadStage(p) = "registration" => m.graph = Host.graph /\ Host.role \in ToSet(m.target)
                                     /\ p.content = m.checksum /\ EqualExceptChecksum(e, m)
  BY <1>1 DEF LoadStage, Compatible, OpenStages
<1>4. LoadStage(p) \in OpenStages \cup {"sidecar_read", "schema", "checksum", "compatibility",
                                        "embedded_equality", "registration"}
  BY <1>1 DEF LoadStage
<1>5. LoadStage(p) = "registration" => Vetted(p)
  BY <1>2, <1>3 DEF Vetted
<1>6. LoadStage(p) \in Phases
  BY <1>4 DEF OpenStages, Phases
<1>7. LoadStage(p) \notin {"idle", "returned", "registered", "failed"}
  BY <1>4 DEF OpenStages
<1> QED
  BY <1>5, <1>6, <1>7

\* Deliveries are untouched by a load that commits nothing.
LEMMA DeliveriesStay ==
    ASSUME PluginsInv, UNCHANGED <<registry, dispatch, delivering, completed, heard>>
    PROVE  DeliveriesAreHeld'
<1>1. \A d \in Dispatch : DispatchIsHeld(d)'
  BY DEF PluginsInv, DeliveriesAreHeld, DispatchIsHeld, Tuple, SomeFailed
<1> QED
  BY <1>1 DEF PluginsInv, DeliveriesAreHeld, Tuple

\* So are the other loads.
LEMMA OtherLoadsStay ==
    ASSUME PluginsInv, NEW l \in PluginLoad, UNCHANGED registry,
           \A k \in PluginLoad : k # l => load'[k] = load[k] /\ tx'[k] = tx[k] /\ answers'[k] = answers[k],
           LoadIsSound(l)', CommitIsWhole(l)'
    PROVE  LoadsAreSound'
<1>1. ASSUME NEW k \in PluginLoad, k # l PROVE LoadIsSound(k)' /\ CommitIsWhole(k)'
  <2>1. LoadIsSound(k)'
    BY <1>1 DEF PluginsInv, LoadsAreSound, LoadIsSound, NamesApart, Vetted
  <2>2. CommitIsWhole(k)'
    BY <1>1 DEF PluginsInv, LoadsAreSound, CommitIsWhole
  <2> QED
    BY <2>1, <2>2
<1>2. NamesApart(registry)'
  BY DEF PluginsInv, LoadsAreSound, NamesApart
<1> QED
  BY <1>1, <1>2 DEF LoadsAreSound

\* A package is inspected, and entered if every check passed.
LEMMA LoadPluginKeeps ==
    ASSUME PluginsInv, NEW l \in PluginLoad, NEW p \in Packages[l], LoadPlugin(l, p) PROVE PluginsInv'
<1> USE DEF LoadPlugin
<1> DEFINE stage == LoadStage(p)
<1>1. p \in Package
  BY PluginsAssumption
<1>2. /\ stage \in Phases /\ stage \notin {"idle", "returned", "registered", "failed"}
      /\ stage = "registration" => Vetted(p)
  BY <1>1, StageIsEarned
<1>3. /\ LoadIsSound(l) /\ CommitIsWhole(l) /\ tx[l].state = "none"
      /\ load \in [PluginLoad -> [phase : Phases, package : SUBSET Package]]
      /\ tx \in [PluginLoad -> Transaction]
  <2>1. LoadIsSound(l) /\ CommitIsWhole(l)
    BY DEF PluginsInv, LoadsAreSound
  <2> QED
    BY <2>1 DEF PluginsInv, PluginsTypeOK, LoadIsSound, Entered
<1>4. load'[l] = [phase |-> stage, package |-> {p}] /\ \A k \in PluginLoad : k # l => load'[k] = load[k]
  BY <1>3
<1>5. /\ load' \in [PluginLoad -> [phase : Phases, package : SUBSET Package]]
      /\ tx' \in [PluginLoad -> Transaction]
  BY <1>1, <1>2, <1>3 DEF Transaction
<1>6. /\ tx'[l].state = (IF stage = "registration" THEN "open" ELSE "none")
      /\ tx'[l].err = tx[l].err /\ tx'[l].pending = tx[l].pending
      /\ \A k \in PluginLoad : k # l => tx'[k] = tx[k]
  BY <1>3
<1>7. LoadIsSound(l)'
  BY <1>2, <1>3, <1>4, <1>6 DEF LoadIsSound, NamesApart, Vetted, Entered
<1>8. CommitIsWhole(l)'
  BY <1>3, <1>6 DEF CommitIsWhole
<1>9. LoadsAreSound'
  BY <1>4, <1>6, <1>7, <1>8, OtherLoadsStay
<1> QED
  BY <1>5, <1>9, DeliveriesStay DEF PluginsInv, PluginsTypeOK

\* Fields of a transaction and of its answers.
LEMMA TransactionFields ==
    ASSUME NEW t \in Transaction, NEW s \in Seq(Entry),
           NEW st \in {"none", "open", "rolled_back", "committed"}
    PROVE  /\ [t EXCEPT !.pending = s] \in Transaction /\ [t EXCEPT !.pending = s].pending = s
           /\ [t EXCEPT !.pending = s].state = t.state /\ [t EXCEPT !.pending = s].err = t.err
           /\ [t EXCEPT !.state = st] \in Transaction /\ [t EXCEPT !.state = st].pending = t.pending
           /\ [t EXCEPT !.state = st].state = st /\ [t EXCEPT !.state = st].err = t.err
  BY DEF Transaction

\* One more call, and what it was answered.
LEMMA AnswerFields ==
    ASSUME NEW a \in Answer, NEW s \in Seq(Entry)
    PROVE  /\ [a EXCEPT !.adds = a.adds + 1] \in Answer
           /\ [a EXCEPT !.adds = a.adds + 1].acked = a.acked
           /\ [a EXCEPT !.adds = a.adds + 1].refused = a.refused
           /\ [a EXCEPT !.adds = a.adds + 1, !.refused = TRUE] \in Answer
           /\ [a EXCEPT !.adds = a.adds + 1, !.refused = TRUE].acked = a.acked
           /\ [a EXCEPT !.adds = a.adds + 1, !.refused = TRUE].refused = TRUE
           /\ [a EXCEPT !.adds = a.adds + 1, !.acked = s] \in Answer
           /\ [a EXCEPT !.adds = a.adds + 1, !.acked = s].acked = s
           /\ [a EXCEPT !.adds = a.adds + 1, !.acked = s].refused = a.refused
<1> DEFINE b == [a EXCEPT !.adds = a.adds + 1]
<1>1. b \in Answer /\ b.acked = a.acked /\ b.refused = a.refused
  BY DEF Answer
<1>2. /\ [a EXCEPT !.adds = a.adds + 1, !.refused = TRUE] = [b EXCEPT !.refused = TRUE]
      /\ [a EXCEPT !.adds = a.adds + 1, !.acked = s] = [b EXCEPT !.acked = s]
  OBVIOUS
<1>3. ASSUME NEW c \in Answer
      PROVE /\ [c EXCEPT !.refused = TRUE] \in Answer /\ [c EXCEPT !.refused = TRUE].acked = c.acked
            /\ [c EXCEPT !.refused = TRUE].refused = TRUE
            /\ [c EXCEPT !.acked = s] \in Answer /\ [c EXCEPT !.acked = s].acked = s
            /\ [c EXCEPT !.acked = s].refused = c.refused
  BY DEF Answer
<1>4. /\ [b EXCEPT !.refused = TRUE] \in Answer /\ [b EXCEPT !.refused = TRUE].acked = b.acked
      /\ [b EXCEPT !.refused = TRUE].refused = TRUE
      /\ [b EXCEPT !.acked = s] \in Answer /\ [b EXCEPT !.acked = s].acked = s
      /\ [b EXCEPT !.acked = s].refused = b.refused
  BY <1>1, <1>3
<1> QED
  BY <1>1, <1>2, <1>4

\* Where a commitment is kept.
LEMMA CommitStays ==
    ASSUME NEW l \in PluginLoad, CommitIsWhole(l), UNCHANGED registry,
           tx'[l].state = "committed" <=> tx[l].state = "committed", answers'[l].acked = answers[l].acked
    PROVE  CommitIsWhole(l)'
  BY DEF CommitIsWhole

\* A registration is collected, or fails the transaction for good, or is
\* answered by a transaction that is closed.
LEMMA RegisterKeeps ==
    ASSUME PluginsInv, NEW l \in PluginLoad, NEW reg \in Registrations, Register(l, reg) PROVE PluginsInv'
<1> DEFINE e == [load |-> l, plugin |-> PluginId(l), surface |-> reg.surface, key |-> reg.key]
           t == tx[l]
           a == answers[l]
<1>1. /\ load[l].phase \in Entered /\ UNCHANGED <<load, registry, dispatch, delivering, completed, heard>>
      /\ CASE ~TxOpen(t) ->
              /\ answers' = [answers EXCEPT ![l].adds = @ + 1]
              /\ UNCHANGED tx
         [] TxOpen(t) /\ (~LegalKey(reg) \/ Conflicts(e, t.pending)) ->
              /\ tx' = [tx EXCEPT ![l] = FailTx(@)]
              /\ answers' = [answers EXCEPT ![l].adds = @ + 1, ![l].refused = TRUE]
         [] OTHER ->
              /\ tx' = [tx EXCEPT ![l].pending = Append(@, e)]
              /\ answers' = [answers EXCEPT ![l].adds = @ + 1, ![l].acked = Append(@, e)]
  BY DEF Register, Entered
<1>2. /\ LoadIsSound(l) /\ CommitIsWhole(l) /\ load \in [PluginLoad -> [phase : Phases, package : SUBSET Package]]
      /\ tx \in [PluginLoad -> Transaction]
      /\ t \in Transaction
      /\ answers \in [PluginLoad -> Answer]
      /\ a \in Answer /\ a.acked \in Seq(Entry)
  BY DEF PluginsInv, LoadsAreSound, PluginsTypeOK, Answer
<1>3. e \in Entry
  <2>1. load[l].package # {} /\ load[l].package \subseteq Package
    BY <1>1, <1>2 DEF LoadIsSound
  <2>2. PluginId(l) \in STRING
    BY <2>1 DEF PluginId, Package, Manifest
  <2> QED
    BY <2>2 DEF Entry
<1>4. CASE ~TxOpen(t)
  <2>1. answers' = [answers EXCEPT ![l] = [a EXCEPT !.adds = a.adds + 1]] /\ tx' = tx
    BY <1>1, <1>4, <1>2
  <2>2. /\ answers'[l] \in Answer
        /\ answers'[l].acked = a.acked /\ answers'[l].refused = a.refused
        /\ \A k \in PluginLoad : k # l => answers'[k] = answers[k]
    <3>1. answers'[l] = [a EXCEPT !.adds = a.adds + 1] /\ \A k \in PluginLoad : k # l => answers'[k] = answers[k]
      BY <2>1, <1>2
    <3> QED
      BY <3>1, <1>2, AnswerFields, EmptySeq
  <2>3. answers' \in [PluginLoad -> Answer]
    BY <2>1, <2>2, <1>2
  <2>4. LoadIsSound(l)' /\ CommitIsWhole(l)'
    <3>1. LoadIsSound(l)'
      BY <1>1, <1>2, <2>1, <2>2 DEF LoadIsSound, NamesApart, Vetted
    <3>2. CommitIsWhole(l)'
      BY <1>1, <1>2, <2>1, <2>2, CommitStays
    <3> QED
      BY <3>1, <3>2
  <2> QED
    BY <1>1, <2>1, <2>2, <2>3, <2>4, OtherLoadsStay, DeliveriesStay DEF PluginsInv, PluginsTypeOK
<1>5. CASE TxOpen(t) /\ (~LegalKey(reg) \/ Conflicts(e, t.pending))
  <2>1. /\ tx' = [tx EXCEPT ![l] = [state |-> "rolled_back", err |-> TRUE, pending |-> <<>>]]
        /\ answers' = [answers EXCEPT ![l] = [a EXCEPT !.adds = a.adds + 1, !.refused = TRUE]]
    BY <1>1, <1>5, <1>2 DEF FailTx
  <2>2. /\ answers'[l] \in Answer
        /\ answers'[l].acked = a.acked /\ answers'[l].refused = TRUE /\ tx'[l] \in Transaction
        /\ tx'[l] = [state |-> "rolled_back", err |-> TRUE, pending |-> <<>>]
        /\ \A k \in PluginLoad : k # l => answers'[k] = answers[k] /\ tx'[k] = tx[k]
    <3>1. /\ answers'[l] = [a EXCEPT !.adds = a.adds + 1, !.refused = TRUE]
          /\ tx'[l] = [state |-> "rolled_back", err |-> TRUE, pending |-> <<>>]
          /\ \A k \in PluginLoad : k # l => answers'[k] = answers[k] /\ tx'[k] = tx[k]
      BY <2>1, <1>2
    <3>2. tx'[l] \in Transaction
      BY <3>1, EmptySeq DEF Transaction
    <3>3. /\ [a EXCEPT !.adds = a.adds + 1, !.refused = TRUE] \in Answer
          /\ [a EXCEPT !.adds = a.adds + 1, !.refused = TRUE].acked = a.acked
          /\ [a EXCEPT !.adds = a.adds + 1, !.refused = TRUE].refused = TRUE
      BY <1>2, AnswerFields, Zenon
    <3> HIDE DEF a
    <3> QED
      BY <3>1, <3>2, <3>3, Zenon
  <2>3. /\ answers' \in [PluginLoad -> Answer]
        /\ tx' \in [PluginLoad -> Transaction]
    BY <2>1, <2>2, <1>2
  <2>4. LoadIsSound(l)'
    BY <1>1, <1>2, <1>5, <2>2 DEF LoadIsSound, NamesApart, Vetted, TxOpen
  <2>5. CommitIsWhole(l)'
    BY <1>1, <1>2, <1>5, <2>2, CommitStays DEF TxOpen
  <2> QED
    BY <1>1, <2>2, <2>3, <2>4, <2>5, OtherLoadsStay, DeliveriesStay DEF PluginsInv, PluginsTypeOK
<1>6. CASE TxOpen(t) /\ ~(~LegalKey(reg) \/ Conflicts(e, t.pending))
  <2>1. /\ tx' = [tx EXCEPT ![l] = [t EXCEPT !.pending = Append(t.pending, e)]]
        /\ answers' = [answers EXCEPT ![l] = [a EXCEPT !.adds = a.adds + 1, !.acked = Append(a.acked, e)]]
    BY <1>1, <1>6, <1>2
  <2>2. t.state = "open" /\ ~t.err /\ t.pending = a.acked
    BY <1>2, <1>6 DEF TxOpen, LoadIsSound
  <2>3. /\ Append(a.acked, e) \in Seq(Entry) /\ Len(Append(a.acked, e)) = Len(a.acked) + 1
        /\ \A i \in 1 .. Len(a.acked) : Append(a.acked, e)[i] = a.acked[i]
        /\ Append(a.acked, e)[Len(a.acked) + 1] = e
        /\ DOMAIN a.acked = 1 .. Len(a.acked) /\ DOMAIN Append(a.acked, e) = 1 .. Len(a.acked) + 1
    BY <1>2, <1>3, AppendProperties DEF Answer
  <2>4. /\ answers'[l] \in Answer
        /\ answers'[l].acked = Append(a.acked, e) /\ answers'[l].refused = a.refused
        /\ tx'[l] \in Transaction
        /\ tx'[l].pending = Append(a.acked, e) /\ tx'[l].state = "open" /\ tx'[l].err = t.err
        /\ \A k \in PluginLoad : k # l => answers'[k] = answers[k] /\ tx'[k] = tx[k]
    <3>1. /\ answers'[l] = [a EXCEPT !.adds = a.adds + 1, !.acked = Append(a.acked, e)]
          /\ tx'[l] = [t EXCEPT !.pending = Append(a.acked, e)]
          /\ \A k \in PluginLoad : k # l => answers'[k] = answers[k] /\ tx'[k] = tx[k]
      BY <2>1, <2>2, <1>2
    <3>2. /\ [a EXCEPT !.adds = a.adds + 1, !.acked = Append(a.acked, e)] \in Answer
          /\ [a EXCEPT !.adds = a.adds + 1, !.acked = Append(a.acked, e)].acked = Append(a.acked, e)
          /\ [a EXCEPT !.adds = a.adds + 1, !.acked = Append(a.acked, e)].refused = a.refused
      BY <2>3, <1>2, AnswerFields, Zenon
    <3>3. /\ tx'[l] \in Transaction /\ tx'[l].pending = Append(a.acked, e)
          /\ tx'[l].state = t.state /\ tx'[l].err = t.err
      BY <3>1, <2>3, <1>2 DEF Transaction
    <3> HIDE DEF a, t, e
    <3> QED
      BY <3>1, <3>2, <3>3, <2>2, Zenon
  <2>5. /\ answers' \in [PluginLoad -> Answer]
        /\ tx' \in [PluginLoad -> Transaction]
    BY <2>1, <2>4, <1>2
  <2>6. \A i \in 1 .. Len(a.acked) : a.acked[i].surface = e.surface => ConflictKey(a.acked[i]) # ConflictKey(e)
    BY <1>6, <2>2, <2>3 DEF Conflicts, ToSet
  <2>7. NamesApart(Append(a.acked, e)) /\ \A i \in DOMAIN Append(a.acked, e) : Append(a.acked, e)[i].load = l
    <3>1. NamesApart(a.acked) /\ \A i \in DOMAIN a.acked : a.acked[i].load = l
      BY <1>2 DEF LoadIsSound
    <3>2. ASSUME NEW i \in 1 .. Len(a.acked) + 1, NEW j \in 1 .. Len(a.acked) + 1, i # j,
                 Append(a.acked, e)[i].surface = Append(a.acked, e)[j].surface
          PROVE ConflictKey(Append(a.acked, e)[i]) # ConflictKey(Append(a.acked, e)[j])
      <4>1. CASE i = Len(a.acked) + 1
        BY <2>3, <2>6, <3>2, <4>1
      <4>2. CASE j = Len(a.acked) + 1
        BY <2>3, <2>6, <3>2, <4>2
      <4>3. CASE i \in 1 .. Len(a.acked) /\ j \in 1 .. Len(a.acked)
        BY <2>3, <3>1, <3>2, <4>3 DEF NamesApart
      <4> QED
        BY <4>1, <4>2, <4>3, <2>3
    <3>3. NamesApart(Append(a.acked, e))
      BY <2>3, <3>2 DEF NamesApart
    <3>4. e.load = l
      OBVIOUS
    <3> QED
      BY <2>3, <3>1, <3>3, <3>4
  <2>8. LoadIsSound(l)'
    <3>1. NamesApart(answers'[l].acked) /\ \A i \in DOMAIN answers'[l].acked : answers'[l].acked[i].load = l
      BY <2>4, <2>7
    <3> QED
      BY <1>1, <1>2, <2>2, <2>4, <3>1 DEF LoadIsSound, Vetted, NamesApart
  <2>9. CommitIsWhole(l)'
    BY <1>1, <1>2, <2>2, <2>4 DEF CommitIsWhole
  <2> QED
    BY <1>1, <2>4, <2>5, <2>8, <2>9, OtherLoadsStay, DeliveriesStay DEF PluginsInv, PluginsTypeOK
<1> QED
  BY <1>4, <1>5, <1>6

\* Register returned, and a transaction it leaves open stays as it was.
LEMMA RegisterReturnsKeeps ==
    ASSUME PluginsInv, NEW l \in PluginLoad, NEW ok \in BOOLEAN, RegisterReturns(l, ok) PROVE PluginsInv'
<1> DEFINE t == tx[l]
<1>1. /\ load[l].phase = "registration"
      /\ load' = [load EXCEPT ![l].phase = IF ok THEN "returned" ELSE "failed"]
      /\ tx' = IF ok \/ t.state # "open" THEN tx
               ELSE [tx EXCEPT ![l].state = "rolled_back", ![l].pending = <<>>]
      /\ UNCHANGED <<answers, registry, dispatch, delivering, completed, heard>>
  BY DEF RegisterReturns
<1>2. /\ LoadIsSound(l) /\ CommitIsWhole(l) /\ load \in [PluginLoad -> [phase : Phases, package : SUBSET Package]]
      /\ tx \in [PluginLoad -> Transaction] /\ t \in Transaction
  BY DEF PluginsInv, LoadsAreSound, PluginsTypeOK
<1>3. /\ load'[l].phase = (IF ok THEN "returned" ELSE "failed") /\ load'[l].package = load[l].package
      /\ \A k \in PluginLoad : k # l => load'[k] = load[k]
      /\ load' \in [PluginLoad -> [phase : Phases, package : SUBSET Package]]
  BY <1>1, <1>2 DEF Phases
<1>4. CASE ok \/ t.state # "open"
  <2>1. tx' = tx
    BY <1>1, <1>4
  <2>2. LoadIsSound(l)'
    BY <1>1, <1>2, <1>3, <1>4, <2>1 DEF LoadIsSound, Vetted, NamesApart, Entered
  <2> QED
    BY <1>1, <1>2, <1>3, <2>1, <2>2, CommitStays, OtherLoadsStay, DeliveriesStay DEF PluginsInv, PluginsTypeOK
<1>5. CASE ~(ok \/ t.state # "open")
  <2>1. tx' = [tx EXCEPT ![l].state = "rolled_back", ![l].pending = <<>>]
    BY <1>1, <1>5
  <2>2. /\ tx'[l] = [state |-> "rolled_back", err |-> t.err, pending |-> <<>>]
        /\ \A k \in PluginLoad : k # l => tx'[k] = tx[k]
        /\ DOMAIN tx' = PluginLoad /\ tx' = [k \in PluginLoad |-> tx'[k]]
    BY <2>1, <1>2 DEF Transaction
  <2>3. tx'[l] \in Transaction
    BY <2>2, <1>2, EmptySeq DEF Transaction
  <2>4. tx' \in [PluginLoad -> Transaction]
    BY <2>2, <2>3, <1>2
  <2>5. LoadIsSound(l)'
    BY <1>1, <1>2, <1>3, <1>5, <2>2 DEF LoadIsSound, Vetted, NamesApart, Entered
  <2>6. CommitIsWhole(l)'
    BY <1>1, <1>2, <1>5, <2>2, CommitStays
  <2> QED
    BY <1>1, <1>3, <2>2, <2>4, <2>5, <2>6, OtherLoadsStay, DeliveriesStay DEF PluginsInv, PluginsTypeOK
<1> QED
  BY <1>4, <1>5

\* Registrations are only added.
LEMMA RegistryGrows ==
    ASSUME registry \in Seq(Entry), NEW s \in Seq(Entry), registry' = registry \o s
    PROVE  /\ registry' \in Seq(Entry) /\ Len(registry') = Len(registry) + Len(s)
           /\ Len(registry) \in Nat /\ Len(s) \in Nat
           /\ DOMAIN registry = 1 .. Len(registry) /\ DOMAIN s = 1 .. Len(s)
           /\ DOMAIN registry' = 1 .. Len(registry) + Len(s)
           /\ \A i \in 1 .. Len(registry) : registry'[i] = registry[i]
           /\ \A i \in 1 .. Len(s) : registry'[Len(registry) + i] = s[i]
<1>1. /\ registry' \in Seq(Entry) /\ Len(registry') = Len(registry) + Len(s)
      /\ \A i \in 1 .. Len(registry) + Len(s) : registry'[i] =
             IF i <= Len(registry) THEN registry[i] ELSE s[i - Len(registry)]
  BY ConcatProperties
<1>2. /\ Len(registry) \in Nat /\ Len(s) \in Nat /\ DOMAIN registry = 1 .. Len(registry)
      /\ DOMAIN s = 1 .. Len(s) /\ DOMAIN registry' = 1 .. Len(registry')
  BY <1>1
<1>3. \A i \in 1 .. Len(registry) : registry'[i] = registry[i]
  BY <1>1, <1>2
<1>4. ASSUME NEW i \in 1 .. Len(s) PROVE registry'[Len(registry) + i] = s[i]
  <2>1. Len(registry) + i \in 1 .. Len(registry) + Len(s) /\ ~(Len(registry) + i <= Len(registry))
        /\ (Len(registry) + i) - Len(registry) = i
    BY <1>2
  <2> QED
    BY <1>1, <2>1
<1> QED
  BY <1>1, <1>2, <1>3, <1>4

\* Every key is checked before anything of a transaction is applied.
LEMMA CommitTxKeeps ==
    ASSUME PluginsInv, NEW l \in PluginLoad, CommitTx(l) PROVE PluginsInv'
<1> DEFINE t == tx[l]
           s == tx[l].pending
<1>1. /\ load[l].phase = "returned"
      /\ IF TxOpen(t) /\ \A e \in ToSet(s) : ~Conflicts(e, registry)
         THEN /\ registry' = registry \o s
              /\ tx' = [tx EXCEPT ![l].state = "committed", ![l].pending = <<>>]
              /\ load' = [load EXCEPT ![l].phase = "registered"]
         ELSE /\ tx' = IF TxOpen(t) THEN [tx EXCEPT ![l] = FailTx(@)] ELSE tx
              /\ load' = [load EXCEPT ![l].phase = "failed"]
              /\ UNCHANGED registry
      /\ UNCHANGED <<answers, dispatch, delivering, completed, heard>>
  BY DEF CommitTx
<1>2. /\ LoadIsSound(l) /\ CommitIsWhole(l) /\ load \in [PluginLoad -> [phase : Phases, package : SUBSET Package]]
      /\ tx \in [PluginLoad -> Transaction] /\ t \in Transaction /\ s \in Seq(Entry) /\ registry \in Seq(Entry)
  BY DEF PluginsInv, LoadsAreSound, PluginsTypeOK, Transaction
<1>3. CASE ~(TxOpen(t) /\ \A e \in ToSet(s) : ~Conflicts(e, registry))
  <2>1. /\ load'[l].phase = "failed" /\ load'[l].package = load[l].package
        /\ \A k \in PluginLoad : k # l => load'[k] = load[k]
        /\ load' \in [PluginLoad -> [phase : Phases, package : SUBSET Package]]
        /\ registry' = registry
    BY <1>1, <1>2, <1>3 DEF Phases
  <2>2. /\ tx'[l] = (IF TxOpen(t) THEN [state |-> "rolled_back", err |-> TRUE, pending |-> <<>>] ELSE t)
        /\ \A k \in PluginLoad : k # l => tx'[k] = tx[k]
        /\ tx' \in [PluginLoad -> Transaction]
    <3>1. tx' = (IF TxOpen(t) THEN [tx EXCEPT ![l] = FailTx(@)] ELSE tx)
      BY <1>1, <1>3
    <3>2. [state |-> "rolled_back", err |-> TRUE, pending |-> <<>>] \in Transaction
      BY EmptySeq DEF Transaction
    <3> QED
      BY <3>1, <3>2, <1>2 DEF FailTx
  <2>3. t.state # "committed"
    BY <1>1, <1>2 DEF LoadIsSound
  <2>4. LoadIsSound(l)'
    BY <1>1, <1>2, <2>1, <2>2, <2>3 DEF LoadIsSound, Vetted, NamesApart, Entered, TxOpen
  <2>5. CommitIsWhole(l)'
    BY <1>1, <1>2, <2>1, <2>2, <2>3, CommitStays
  <2> QED
    BY <1>1, <2>1, <2>2, <2>4, <2>5, OtherLoadsStay, DeliveriesStay DEF PluginsInv, PluginsTypeOK
<1>4. CASE TxOpen(t) /\ \A e \in ToSet(s) : ~Conflicts(e, registry)
  <2>1. /\ load'[l].phase = "registered" /\ load'[l].package = load[l].package
        /\ \A k \in PluginLoad : k # l => load'[k] = load[k]
        /\ load' \in [PluginLoad -> [phase : Phases, package : SUBSET Package]]
    <3>1. load' = [load EXCEPT ![l].phase = "registered"]
      BY <1>1, <1>4
    <3> QED
      BY <3>1, <1>2 DEF Phases
  <2>2. tx' = [tx EXCEPT ![l].state = "committed", ![l].pending = <<>>]
    BY <1>1, <1>4
  <2>3. /\ tx'[l] = [state |-> "committed", err |-> t.err, pending |-> <<>>]
        /\ \A k \in PluginLoad : k # l => tx'[k] = tx[k]
        /\ DOMAIN tx' = PluginLoad /\ tx' = [k \in PluginLoad |-> tx'[k]]
    BY <2>2, <1>2 DEF Transaction
  <2>4. tx' \in [PluginLoad -> Transaction]
    <3>1. tx'[l] \in Transaction
      BY <2>3, <1>2, EmptySeq DEF Transaction
    <3> QED
      BY <2>3, <3>1, <1>2
  <2>5. t.state = "open" /\ ~t.err /\ s = answers[l].acked /\ ~answers[l].refused
        /\ NamesApart(s) /\ \A i \in DOMAIN s : s[i].load = l
    BY <1>2, <1>4 DEF LoadIsSound, TxOpen
  <2>6. registry' = registry \o s
    BY <1>1, <1>4
  <2>7. /\ registry' \in Seq(Entry) /\ Len(registry') = Len(registry) + Len(s)
        /\ Len(registry) \in Nat /\ Len(s) \in Nat
        /\ DOMAIN registry = 1 .. Len(registry) /\ DOMAIN s = 1 .. Len(s)
        /\ DOMAIN registry' = 1 .. Len(registry) + Len(s)
        /\ \A i \in 1 .. Len(registry) : registry'[i] = registry[i]
        /\ \A i \in 1 .. Len(s) : registry'[Len(registry) + i] = s[i]
    BY <1>2, <2>6, RegistryGrows
  <2> HIDE DEF s
  <2>8. \A i \in DOMAIN registry' : \/ i \in DOMAIN registry /\ registry'[i] = registry[i]
                                   \/ \E k \in DOMAIN s : i = Len(registry) + k /\ registry'[i] = s[k]
    <3> SUFFICES ASSUME NEW i \in 1 .. Len(registry) + Len(s), i \notin 1 .. Len(registry)
                 PROVE  \E k \in DOMAIN s : i = Len(registry) + k /\ registry'[i] = s[k]
      BY <2>7
    <3>1. i - Len(registry) \in 1 .. Len(s) /\ i = Len(registry) + (i - Len(registry))
      BY <2>7
    <3> QED
      BY <3>1, <2>7
  <2>9. NamesApart(registry')
    <3>1. NamesApart(registry)
      BY DEF PluginsInv, LoadsAreSound
    <3>2. \A k \in DOMAIN s, i \in DOMAIN registry :
              s[k].surface = registry[i].surface => ConflictKey(s[k]) # ConflictKey(registry[i])
      BY <1>4 DEF Conflicts, ToSet, s
    <3>3. ASSUME NEW i \in DOMAIN registry', NEW j \in DOMAIN registry', i # j,
                 registry'[i].surface = registry'[j].surface
          PROVE  ConflictKey(registry'[i]) # ConflictKey(registry'[j])
      <4>1. CASE i \in DOMAIN registry /\ registry'[i] = registry[i]
        <5>1. CASE j \in DOMAIN registry /\ registry'[j] = registry[j]
          BY <3>1, <3>3, <4>1, <5>1 DEF NamesApart
        <5>2. CASE \E k \in DOMAIN s : j = Len(registry) + k /\ registry'[j] = s[k]
          BY <3>2, <3>3, <4>1, <5>2
        <5> QED
          BY <2>8, <5>1, <5>2
      <4>2. CASE \E k \in DOMAIN s : i = Len(registry) + k /\ registry'[i] = s[k]
        <5>1. CASE j \in DOMAIN registry /\ registry'[j] = registry[j]
          BY <3>2, <3>3, <4>2, <5>1
        <5>2. CASE \E k \in DOMAIN s : j = Len(registry) + k /\ registry'[j] = s[k]
          BY <2>5, <3>3, <4>2, <5>2 DEF NamesApart
        <5> QED
          BY <2>8, <5>1, <5>2
      <4> QED
        BY <2>8, <4>1, <4>2
    <3> QED
      BY <3>3 DEF NamesApart
  <2>10. LoadIsSound(l)'
    BY <1>1, <1>2, <2>1, <2>3, <2>5 DEF LoadIsSound, Vetted, NamesApart, Entered
  <2>11. CommitIsWhole(l)'
    <3>1. \A i \in DOMAIN registry : registry[i].load # l
      BY <1>2, <2>5 DEF CommitIsWhole
    <3>2. \A i \in DOMAIN registry' : registry'[i].load = l <=> i \in Len(registry) + 1 .. Len(registry) + Len(s)
      BY <3>1, <2>5, <2>7, <2>8
    <3>3. {i \in DOMAIN registry' : registry'[i].load = l} = Len(registry) + 1 .. Len(registry) + Len(s)
      BY <3>2, <2>7
    <3>4. Len(registry) \in 0 .. Len(registry') /\ \A k \in DOMAIN s : registry'[Len(registry) + k] = s[k]
      BY <2>7
    <3> QED
      BY <1>1, <2>3, <2>5, <3>3, <3>4 DEF CommitIsWhole
  <2>12. ASSUME NEW k \in PluginLoad, k # l PROVE LoadIsSound(k)' /\ CommitIsWhole(k)'
    <3>1. LoadIsSound(k) /\ CommitIsWhole(k)
      BY DEF PluginsInv, LoadsAreSound
    <3>2. LoadIsSound(k)'
      BY <1>1, <2>1, <2>3, <2>12, <3>1 DEF LoadIsSound, NamesApart, Vetted
    <3>3. {i \in DOMAIN registry' : registry'[i].load = k} = {i \in DOMAIN registry : registry[i].load = k}
      BY <2>5, <2>7, <2>8, <2>12
    <3>4. CASE tx[k].state # "committed"
      <4>1. tx'[k].state # "committed"
        BY <2>3, <2>12, <3>4
      <4>2. {i \in DOMAIN registry' : registry'[i].load = k} = {}
        BY <3>1, <3>3, <3>4 DEF CommitIsWhole
      <4> QED
        BY <3>2, <4>1, <4>2 DEF CommitIsWhole
    <3>5. CASE tx[k].state = "committed"
      <4> DEFINE acked == answers[k].acked
      <4>1. PICK n \in 0 .. Len(registry) :
              /\ {i \in DOMAIN registry : registry[i].load = k} = n + 1 .. n + Len(acked)
              /\ \A m \in DOMAIN acked : registry[n + m] = acked[m]
        BY <3>1, <3>5 DEF CommitIsWhole
      <4>2. DOMAIN acked = 1 .. Len(acked) /\ Len(acked) \in Nat
        BY DEF PluginsInv, PluginsTypeOK, Answer
      <4>3. \A m \in DOMAIN acked : n + m \in DOMAIN registry
        BY <4>1, <4>2
      <4>4. n \in 0 .. Len(registry') /\ \A m \in DOMAIN acked : registry'[n + m] = acked[m]
        BY <4>1, <4>3, <2>7
      <4>5. tx'[k].state = "committed" /\ answers'[k] = answers[k]
        BY <1>1, <2>3, <2>12, <3>5
      <4>6. {i \in DOMAIN registry' : registry'[i].load = k} = n + 1 .. n + Len(acked)
        BY <3>3, <4>1
      <4>7. \E m \in 0 .. Len(registry') :
              /\ {i \in DOMAIN registry' : registry'[i].load = k} = m + 1 .. m + Len(answers'[k].acked)
              /\ \A j \in DOMAIN answers'[k].acked : registry'[m + j] = answers'[k].acked[j]
        BY <4>4, <4>5, <4>6
      <4> QED
        BY <3>2, <4>5, <4>6, <4>7 DEF CommitIsWhole
    <3> QED
      BY <3>2, <3>4, <3>5
  <2>13. DeliveriesAreHeld'
    <3>1. \A d \in Dispatch : DispatchIsHeld(d) /\ dispatch[d].observers \subseteq DOMAIN registry
      BY DEF PluginsInv, DeliveriesAreHeld, DispatchIsHeld
    <3>2. \A d \in Dispatch : \A i \in dispatch[d].observers : Tuple(d, i)' = Tuple(d, i)
      BY <1>1, <2>7, <3>1 DEF Tuple
    <3>3. \A d \in Dispatch : dispatch[d].calling \subseteq dispatch[d].observers
      BY <3>1 DEF DispatchIsHeld
    <3>4. \A d \in Dispatch : DispatchIsHeld(d)'
      BY <1>1, <2>7, <3>1, <3>2, <3>3 DEF DispatchIsHeld, SomeFailed
    <3> QED
      BY <1>1, <3>2, <3>3, <3>4 DEF PluginsInv, DeliveriesAreHeld
  <2>14. LoadsAreSound'
    BY <2>9, <2>10, <2>11, <2>12 DEF LoadsAreSound
  <2> QED
    BY <1>1, <2>1, <2>4, <2>7, <2>13, <2>14 DEF PluginsInv, PluginsTypeOK
<1> QED
  BY <1>3, <1>4

\* A host starts without plugins.
LEMMA PluginsInitInv == PluginsInit => PluginsInv
<1> SUFFICES ASSUME PluginsInit PROVE PluginsInv
  OBVIOUS
<1> USE DEF PluginsInit
<1>1. PluginsTypeOK
  BY EmptySeq DEF PluginsTypeOK, Phases, Transaction, Answer, DispatchState
<1>2. LoadsAreSound
  BY DEF LoadsAreSound, LoadIsSound, CommitIsWhole, NamesApart, Entered
<1>3. DeliveriesAreHeld
  BY DEF DeliveriesAreHeld, DispatchIsHeld
<1> QED
  BY <1>1, <1>2, <1>3 DEF PluginsInv

\* The inductive invariant of the plugin host (internal/plugins): transactions
\* answer for what they hold, commits are whole, deliveries are held by one.
THEOREM PluginsCorrect == PluginsSpec => []PluginsInv
<1>1. PluginsInv /\ [PluginsNext]_pluginVars => PluginsInv'
  <2>1. ASSUME PluginsInv, UNCHANGED pluginVars PROVE PluginsInv'
    BY <2>1, LoadsStay, DeliveriesStay DEF pluginVars, PluginsInv, PluginsTypeOK
  <2> QED
    BY <2>1, LoadPluginKeeps, RegisterKeeps, RegisterReturnsKeeps, CommitTxKeeps,
       DispatchEventKeeps, ReserveDeliveryKeeps, DispatchEndsKeeps, DeliveredKeeps DEF PluginsNext
<1> QED
  BY <1>1, PluginsInitInv, PTL DEF PluginsSpec

\* A plugin is registered whole or not at all (RegisterPlugin, commitLocked).
THEOREM WholeRegistrations == PluginsSpec => []RegistrationsAreWhole
<1>1. PluginsInv => RegistrationsAreWhole
  BY PluginsInvSays
<1> QED
  BY <1>1, PluginsCorrect, PTL

\* No observer hears of an event twice, and none is forgotten by dispatches
\* that all succeed (DispatchEvent).
THEOREM ObserversHearOfIt == PluginsSpec => []ObserversHearOnce
<1>1. PluginsInv => ObserversHearOnce
  BY PluginsInvSays
<1> QED
  BY <1>1, PluginsCorrect, PTL
==============================================================================
