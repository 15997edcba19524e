----------------------------- MODULE Dictionary -----------------------------
(***************************************************************************)
(* Explore: the dictionary entry of a lookup form, shared by every article *)
(* (internal/dictionary/service.go and store.go).  Start reads the entry,  *)
(* resolves the provider outside any transaction, and rechecks everything  *)
(* in the transaction that enqueues; two readers, or a reader and the      *)
(* runner, may be anywhere between those steps.                            *)
(***************************************************************************)
EXTENDS Generation

CONSTANTS
    Mode,       \* what each request asks for: ensure, retry or regenerate
    Reference,  \* the occurrence or annotation each request names
    Lexical,    \* forms with a letter, short enough to be looked up
    Normalized  \* the form NormalizeForm makes of each of them

VARIABLES asked     \* where a request is: idle, resolve, enqueue, answered

dictVars == <<genVars, asked>>

\* The unique key of dictionary_entry: requests name one entry exactly when
\* their references have one subject.
ASSUME DictionaryAssumption ==
    /\ Mode \in [GenJob -> {"ensure", "retry", "regenerate"}]
    /\ \A r \in GenJob : r \in Regenerate <=> Mode[r] = "regenerate"
    /\ Normalized \in [Lexical -> Lexical]

DictInit == GenInit /\ asked = [r \in GenJob |-> "idle"]

-----------------------------------------------------------------------------
(* The subject of a reference, and what a reader sees of it.               *)

\* The sense an occurrence was linked to names the entry: an expression by its
\* canonical form, a word by its lemma if there is one.  Without a sense it is
\* the source text.
ResolveArticleOccurrence(o) ==
    LET kind == IF o.role = "token" THEN "word" ELSE "expression"
        form == IF kind = "word" /\ o.lemma # None THEN o.lemma ELSE o.canonical
    IN  [kind |-> kind, form |-> IF form = None THEN o.text ELSE form]

\* A legacy annotation is looked up by its text.
ResolveArticleAnnotation(n) ==
    [kind |-> IF n.role = "word" THEN "word" ELSE "expression", form |-> n.text]

\* Dutch to English only, and only forms with a letter in them.
finishSubject(ref, subject) ==
    IF ref.pair /\ subject.form \in Lexical
    THEN [subject EXCEPT !.form = Normalized[@]] ELSE None

ResolveSubject(ref) ==
    finishSubject(ref, IF ref.source = "occurrence" THEN ResolveArticleOccurrence(ref)
                                                    ELSE ResolveArticleAnnotation(ref))

LastState(s) == IF lastJob[s] = None THEN "none" ELSE state[lastJob[s]]

\* The document wins over whatever the last job became.
Status(s) ==
    IF saved[s] # None THEN "ready"
    ELSE IF LastState(s) = "queued" THEN "queued"
    ELSE IF LastState(s) \in ActiveStates THEN "generating"
    ELSE IF LastState(s) \in {"failed", "canceled"} THEN "failed" ELSE "missing"

\* The latest attempt beside the saved document.
GenerationStatus(s) ==
    CASE Status(s) = "queued" \/ LastState(s) = "queued" -> "queued"
      [] Status(s) = "generating" \/ LastState(s) \in ActiveStates -> "running"
      [] LastState(s) \in {"failed", "canceled"} -> "failed"
      [] OTHER -> "idle"

EntryWaits(s) == GenerationStatus(s) \in {"queued", "running"}

-----------------------------------------------------------------------------
(* Requests.                                                               *)

\* Faulty: a running generation is not looked at.
AnsweredUnlessActive(s, mode) ==
    \/ saved[s] # None /\ mode # "regenerate"
    \/ LastState(s) # "none" /\ mode = "ensure"

\* The three reasons to answer with the saved state: a document that is not
\* to be replaced, an active generation, a failure nobody asked to retry.
Answered(s, mode) ==
    \/ saved[s] # None /\ mode # "regenerate"
    \/ LastState(s) \in {"queued"} \cup ActiveStates
    \/ LastState(s) # "none" /\ mode = "ensure"

Asks(r, p) == asked' = [asked EXCEPT ![r] = p]

\* The subject is what the occurrence or annotation of the article means.
Lookup(r) ==
    /\ asked[r] = "idle"
    /\ Asks(r, IF ResolveSubject(Reference[r]) = None \/ Answered(OwnerId[r], Mode[r])
               THEN "answered" ELSE "resolve")
    /\ UNCHANGED genVars

\* The active profile has a usable Explore binding, or the request is refused.
ResolveExplore(r) ==
    /\ asked[r] = "resolve"
    /\ \E p \in {"enqueue", "answered"} : Asks(r, p)
    /\ UNCHANGED genVars

\* The pointer moves from the job the transaction read.
SetLastJobTx(s, previous, j) ==
    lastJob[s] = previous /\ lastJob' = [lastJob EXCEPT ![s] = j]

\* EnsureEntryTx, the recheck, EnqueueTx and SetLastJobTx in one transaction.
Start(r) ==
    LET s == OwnerId[r] IN
    /\ asked[r] = "enqueue"
    /\ IF Answered(s, Mode[r]) THEN UNCHANGED <<vars, lastJob>>
       ELSE /\ Enqueue(r)
            /\ SetLastJobTx(s, lastJob[s], r)
    /\ Asks(r, "answered")
    /\ UNCHANGED <<saved, runOf, runJob, genRunner, deaths>>

DictRun(k) ==
    /\ Process(k) \/ PublishResult(k, TRUE)
    /\ UNCHANGED asked

DictBeat(k) == Beat(k) /\ UNCHANGED asked

\* A crash takes the requests with it.
DictCrash ==
    /\ Die
    /\ asked' = [r \in GenJob |-> IF asked[r] = "idle" THEN "idle" ELSE "answered"]

DictNext ==
    \/ \E r \in GenJob : Lookup(r) \/ ResolveExplore(r) \/ Start(r)
    \/ \E k \in Kind : DictRun(k) \/ DictBeat(k)
    \/ (GenTime \/ ReconcileElsewhere) /\ UNCHANGED asked
    \/ DictCrash

DictLeaseEnds(r) ==
    /\ Abandoned(r) /\ LeaseExpires(r)
    /\ UNCHANGED <<genRows, genRunner, deaths, asked>>

DictSpec == DictInit /\ [][DictNext]_dictVars
=============================================================================
