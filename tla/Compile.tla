------------------------------- MODULE Compile --------------------------------
(* One article through the two provider stages, paragraph by paragraph      *)
(* (internal/analysis: pipeline_runner.go, stage_cache.go;                  *)
(* internal/annotator: stage_executor.go; internal/reader:                  *)
(* chunk_publish.go).  Analysis.tla has the job, the lease and the article's*)
(* status around this; here is what the stages say, what the cache keeps    *)
(* and what is published.                                                   *)
(*                                                                          *)
(* A run is one attempt of a job.  Hashes are the values they are taken of. *)
EXTENDS Semantics

CONSTANTS
    Articles,            \* what an article may consist of: sequences of blocks from 0
    Drafts(_, _),        \* linguistic answers a provider may give (chunk, run)
    Renderings(_, _),    \* translation answers (chunk, validated linguistic artifact)
    Versions,            \* bindings and prompts a run may be configured with
    MaxRuns, MaxCorrections   \* bounds: attempts of the article; corrective turns

\* A stored article has a first paragraph, and the next one after each.
ASSUME CompileAssumption ==
    \A a \in Articles : /\ 0 \in DOMAIN a
                        /\ \A b \in DOMAIN a : b \in Nat /\ 0 .. b \subseteq DOMAIN a

VARIABLES
    article,     \* its blocks
    run,         \* number, freshness and version of the current run
    phase,       \* where it is
    block,       \* current paragraph
    turns,       \* rejected turns of the current stage
    candidates,  \* lexicon snapshot of the run
    prior,       \* senses carried forward, namespaced
    chunks,      \* accepted paragraphs with their answers
    draft,       \* validated linguistic artifact of the paragraph
    merged,      \* merged answer of the paragraph
    cache,       \* stage cache: identity -> artifact and its hash
    lexicon,     \* published senses
    published    \* per paragraph: its occurrences and the run that wrote them

stageVars == <<draft, merged, turns>>
runVars   == <<run, candidates, prior, chunks, block>>
compileVars == <<article, phase, cache, lexicon, published, stageVars, runVars>>

Stage == {"linguistic", "translation"}

CompileInit ==
    /\ article \in Articles
    /\ run = [number |-> 0, fresh |-> FALSE, version |-> Nothing]
    /\ phase = "queued" /\ block = 0 /\ turns = 0
    /\ candidates = {} /\ prior = {} /\ chunks = <<>>
    /\ draft = Nothing /\ merged = Nothing
    /\ cache = <<>> /\ lexicon = <<>>
    /\ published = [b \in DOMAIN article |-> Nothing]

\* An attempt prepares the article anew, against the lexicon as it now is.
StartCompile(fresh, version) ==
    /\ phase \in {"queued", "ready"} \cup {"provider", "stage_validation", "final_validation",
                                           "storage", "publish_refused", "lease_lost", "merge_refused"}
    /\ run.number < MaxRuns
    /\ run' = [number |-> run.number + 1, fresh |-> fresh, version |-> version]
    /\ phase' = "linguistic" /\ block' = 0 /\ turns' = 0
    /\ candidates' = LookupCandidates(lexicon, article)
    /\ prior' = {} /\ chunks' = <<>> /\ draft' = Nothing /\ merged' = Nothing
    /\ UNCHANGED <<article, cache, lexicon, published>>

Chunk == PrepareChunk(article, candidates, block, prior)

\* A failed stage ends the run; the paragraphs it published stay.
FailRun(why) ==
    /\ phase' = why /\ turns' = 0 /\ draft' = Nothing /\ merged' = Nothing
    /\ UNCHANGED runVars

-----------------------------------------------------------------------------
(* Cache identities.                                                        *)

SourceSide(s) == [f \in DOMAIN s \ {"english"} |-> s[f]]

BaseIdentity(stage) ==
    [stage |-> stage, content |-> article, block |-> block,
     candidates |-> Chunk.candidates, version |-> run.version]

LinguisticSpec ==
    BaseIdentity("linguistic") @@ [prior |-> {SourceSide(s) : s \in Chunk.prior}]

TranslationSpec ==
    BaseIdentity("translation") @@
    [prior |-> Chunk.prior, upstream |-> rawLinguisticArtifact(draft)]

\* A fresh run neither reads nor writes.
SaveStageCache(spec, artifact) ==
    cache' = IF run.fresh THEN cache ELSE (spec :> [artifact |-> artifact, hash |-> artifact]) @@ cache

\* The artifact a row holds is decoded and checked again; what is left must
\* hash as saved.
LinguisticRow ==
    IF run.fresh \/ LinguisticSpec \notin DOMAIN cache THEN {}
    ELSE LET row == cache[LinguisticSpec] IN
         {v \in Validated(Chunk, row.artifact) :
             /\ DecodeLinguisticArtifact(row.artifact)
             /\ ValidateLinguistic(Chunk, row.artifact)
             /\ v = row.hash}

TranslationRow ==
    IF run.fresh \/ TranslationSpec \notin DOMAIN cache THEN Nothing
    ELSE LET row == cache[TranslationSpec] IN
         IF ValidateTranslation(Chunk, draft, row.artifact) THEN row.artifact ELSE Nothing

-----------------------------------------------------------------------------
(* Stages.  A session takes one turn and at most MaxCorrections more; the   *)
(* cache is read before the first.                                          *)

Rejected ==
    IF turns < MaxCorrections
    THEN turns' = turns + 1 /\ UNCHANGED <<phase, draft, merged, runVars>>
    ELSE FailRun("stage_validation")

LinguisticHit ==
    /\ phase = "linguistic" /\ turns = 0
    /\ draft' \in LinguisticRow /\ phase' = "translation"
    /\ UNCHANGED <<article, merged, turns, cache, lexicon, published, runVars>>

LinguisticTurn(a) ==
    /\ phase = "linguistic" /\ (turns = 0 => LinguisticRow = {})
    /\ IF DecodeLinguisticArtifact(a) /\ ValidateLinguistic(Chunk, a)
       THEN /\ draft' \in Validated(Chunk, a)
            /\ SaveStageCache(LinguisticSpec, rawLinguisticArtifact(draft'))
            /\ phase' = "translation" /\ turns' = 0
            /\ UNCHANGED <<merged, runVars>>
       ELSE Rejected /\ UNCHANGED cache
    /\ UNCHANGED <<article, lexicon, published>>

TranslationHit ==
    /\ phase = "translation" /\ turns = 0 /\ TranslationRow # Nothing
    /\ merged' = MergeLinguisticTranslation(draft, TranslationRow)
    /\ phase' = "publish"
    /\ UNCHANGED <<article, draft, turns, cache, lexicon, published, runVars>>

\* The merged answer passes the final validator before it is kept.
TranslationTurn(a) ==
    LET answer == MergeLinguisticTranslation(draft, a) IN
    /\ phase = "translation" /\ (turns = 0 => TranslationRow = Nothing)
    /\ IF ~ValidateTranslation(Chunk, draft, a) THEN Rejected /\ UNCHANGED cache
       ELSE IF ~ValidateChunkResponse(Chunk, answer) THEN FailRun("final_validation") /\ UNCHANGED cache
       ELSE /\ merged' = answer /\ phase' = "publish" /\ turns' = 0
            /\ SaveStageCache(TranslationSpec, a)
            /\ UNCHANGED <<draft, runVars>>
    /\ UNCHANGED <<article, lexicon, published>>

\* A turn that does not decode, a provider that fails, a turn that cannot be
\* recorded, a lease that is lost while the stage runs.
MalformedTurn ==
    /\ phase \in Stage
    /\ Rejected
    /\ UNCHANGED <<article, cache, lexicon, published>>

StageFails(why) ==
    /\ phase \in Stage /\ FailRun(why)
    /\ UNCHANGED <<article, cache, lexicon, published>>

-----------------------------------------------------------------------------
(* Publication of a paragraph: one transaction.                             *)

OfRef(senses, ref) == CHOOSE s \in senses : s.ref = ref

ResolveSense(senses, x) ==
    IF x.id # Nothing THEN x.id
    ELSE IF x.ref = Nothing THEN Nothing
    ELSE SenseId(OfRef(senses, x.ref))

\* A construction without a sense is refused here and nowhere before.
Publishable(senses, r) == \A c \in ToSet(r.constructions) : ResolveSense(senses, c) # Nothing

Occurrences(senses, r) ==
    {[members |-> <<x.token>>, sense |-> ResolveSense(senses, x), shadow |-> x.shadow] : x \in ToSet(r.tokens)}
    \cup {[members |-> c.members, sense |-> ResolveSense(senses, c), shadow |-> c.shadow] :
             c \in ToSet(r.constructions)}

\* The senses carried forward are ensured again, which changes nothing: they
\* are in the lexicon since their paragraph was published.
PublishChunk ==
    LET n      == NamespaceChunkResponse(block, merged)
        senses == Chunk.prior \cup ToSet(n.senses)
    IN
    /\ phase = "publish"
    /\ IF /\ NamespaceAllowed(block, merged, prior)
          /\ ValidateChunkResponse(Chunk, n) /\ Publishable(senses, n)
       THEN /\ lexicon' = EnsureSenses(lexicon, n.senses)
            /\ published' = [published EXCEPT ![block] =
                   [occurrences |-> Occurrences(senses, n), said |-> rawLinguisticArtifact(draft), run |-> run]]
            /\ chunks' = Append(chunks, [chunk |-> Chunk, response |-> merged])
            /\ prior' = prior \cup ToSet(n.senses)
            /\ block' = block + 1
            /\ phase' = IF block + 1 \in DOMAIN article THEN "linguistic" ELSE "merge"
            /\ draft' = Nothing /\ merged' = Nothing /\ turns' = 0
            /\ UNCHANGED <<run, candidates>>
       ELSE FailRun("publish_refused") /\ UNCHANGED <<lexicon, published>>
    /\ UNCHANGED <<article, cache>>

\* The audit of the whole article; an article is ready only when it passes.
MergeArticle ==
    /\ phase = "merge"
    /\ phase' = IF MergeChunks(article, candidates, chunks) THEN "ready" ELSE "merge_refused"
    /\ UNCHANGED <<article, cache, lexicon, published, stageVars, runVars>>

CompileNext ==
    \/ \E fresh \in BOOLEAN, v \in Versions : StartCompile(fresh, v)
    \/ LinguisticHit \/ TranslationHit
    \/ phase = "linguistic" /\ \E a \in Drafts(Chunk, run.number) : LinguisticTurn(a)
    \/ phase = "translation" /\ \E a \in Renderings(Chunk, draft) : TranslationTurn(a)
    \/ MalformedTurn
    \/ \E why \in {"provider", "storage", "lease_lost"} : StageFails(why)
    \/ PublishChunk \/ MergeArticle

CompileSpec == CompileInit /\ [][CompileNext]_compileVars

-----------------------------------------------------------------------------
(* Properties.                                                              *)

\* What only the checks after both stages refuse: a construction without a
\* sense, a reference that is too long once it is prefixed, and one that
\* already looks prefixed.
Gap(r) ==
    \/ \E c \in ToSet(r.constructions) : c.id = Nothing /\ c.ref = Nothing
    \/ \E s \in ToSet(r.senses) : RefLength(Prefixed(block, s.ref)) > LocalRef \/ s.ref.blocks # <<>>

Publishes(r) ==
    LET n == NamespaceChunkResponse(block, r) IN
    /\ ValidateChunkResponse(Chunk, r)
    /\ NamespaceAllowed(block, r, prior) /\ ValidateChunkResponse(Chunk, n)
    /\ Publishable(Chunk.prior \cup ToSet(n.senses), n)

\* The stage validators, which are all a provider is corrected by, accept only
\* what can be published, except for the gaps above; and the audit of the whole
\* article, which validates the paragraphs again, finds nothing in what was
\* published (ValidateLinguistic, ValidateTranslation against
\* ValidateChunkResponse, NamespaceChunkResponse, persistAnalysisChunkTx, MergeChunks).
AcceptedAnswersPublish ==
    /\ phase = "translation" =>
          \A a \in Renderings(Chunk, draft) : ValidateTranslation(Chunk, draft, a) =>
              LET r == MergeLinguisticTranslation(draft, a) IN Publishes(r) \/ Gap(r)
    /\ phase = "publish" => Publishes(merged) \/ Gap(merged)
    /\ phase # "merge_refused"

\* What was accepted is no dead end: some answer translates an analysis, unless
\* the paragraph has no word (ValidateLinguistic, ValidateTranslation).
AcceptanceIsNoDeadEnd ==
    phase = "translation" /\ ~Untranslatable(draft) =>
        \E a \in Renderings(Chunk, draft) : ValidateTranslation(Chunk, draft, a)

\* The sense an artifact means by a reference: its own, or that of an earlier
\* paragraph of the same run.
Meant(paragraphs, said, x) ==
    IF x.id # Nothing \/ x.ref = Nothing THEN x.id
    ELSE LET own == {s \in ToSet(said.senses) : s.ref = x.ref}
             b   == x.ref.blocks[1]
         IN  SenseId(IF own # {} THEN CHOOSE s \in own : TRUE
                     ELSE CHOOSE s \in ToSet(paragraphs[b].said.senses) : Prefixed(b, s.ref) = x.ref)

Meanings(paragraphs, said) ==
    {[members |-> <<x.token>>, sense |-> Meant(paragraphs, said, x)] : x \in ToSet(said.tokens)}
    \cup {[members |-> c.members, sense |-> Meant(paragraphs, said, c)] : c \in ToSet(said.constructions)}

Written(b) == published[b] # Nothing /\ published[b].run = run

\* Every occurrence of a paragraph points to the sense its own analysis named,
\* whatever other paragraphs call theirs, and that sense is in the lexicon
\* (NamespaceChunkResponse, EnsureSenseTx, persistAnalysisChunkTx).
OccurrencesKeepTheirSense ==
    \A b \in DOMAIN article : Written(b) =>
        LET xs == Meanings(published, published[b].said) IN
        /\ xs = {[members |-> o.members, sense |-> o.sense] : o \in published[b].occurrences}
        /\ \A x \in xs : x.sense # Nothing => x.sense \in DOMAIN lexicon

\* "Valid chunks are cached independently, so a retry can reuse completed
\* paragraphs": a normal run of the same version finds the analysis of a first
\* paragraph that an earlier one completed.
RetriesReuseParagraphs ==
    (/\ phase = "linguistic" /\ block = 0 /\ turns = 0 /\ ~run.fresh
     /\ published[0] # Nothing /\ ~published[0].run.fresh
     /\ published[0].run.version = run.version) => LinguisticRow # {}
=============================================================================
