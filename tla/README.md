# A verification development for doublangu

doublangu turns articles into annotated, audible reading material. One Go server
owns a SQLite database and a directory of audio files, runs language-model stages
itself, and leases speech synthesis and relayed model calls to macOS workers.
This directory holds TLA+ modules that model the server's state machines, the TLC
instances that check them, and proofs that the TLA+ proof system checks.

Contents: [what runs](#what-runs-and-what-interleaves) ·
[inventory](#inventory) · [modules](#modules-and-how-they-correspond-to-the-code) ·
[runs](#runs) · [fairness](#fairness) · [proofs](#proofs) ·
[findings](#findings) · [limits](#what-is-not-modelled) · [plan](#plan)

## What runs, and what interleaves

The server is one process with one database connection
(`internal/store/db.go:26`, `SetMaxOpenConns(1)`). A transaction therefore
excludes every other one, and **a committed transaction is one atomic step of the
models**. What interleaves is everything between transactions:

* goroutines of HTTP handlers, each a sequence of transactions and file
  operations, which a client may abandon half-way (every statement after that fails
  with the request's context);
* three runner goroutines (article analysis, dictionary, sentence translation),
  each with a heartbeat goroutine beside the work it holds a lease for;
* workers, which hold a credential (attempt number and token) and may present
  it late, twice, or after somebody else got a newer one;
* clocks: leases of 90 seconds, retry backoffs, presence windows;
* the end of the process. Rows and files stay, all goroutines and locks go.

At start (`cmd/doublangu-server/main.go:73-215`) the server migrates, sweeps
expired leases (with the callback that fails their renders), repairs the media
directory and exits if it cannot, puts interrupted articles and runs back, and
only then starts runners and listens. The models use that order.

A sweep of expired leases runs whenever anybody asks for work. Four callers pass a
callback that carries a terminal job to its render (`main.go:128`,
`workers/service.go:58`, `analysis/pipeline_runner.go:49`, `analysis/runner.go:41`);
three do not (`dictionary/runner.go:61`, `sentencetranslation/runner.go:51`,
`llmrelay/service.go:37`). `Speech` distinguishes the two.

## Inventory

`PROJECT.json` lists every component with its sources and status; the hazards of
each, at their lines, with the properties that cover them, are in its "hazards".

| Component | State it keeps | Operations | What is hard | What makes it correct |
|---|---|---|---|---|
| **Job scheduler** `internal/jobs` | rows `job`, `job_dependency`: state, attempt, lease owner, token hash, expiry, availability | enqueue, add dependency, two kinds of claim, heartbeat, complete, fail, cancel (one, by owner), recover expired (all, one) | late and repeated reports, expiry against heartbeat, attempt budget, cycles, requeue by owners | a lease is identified by its attempt; one outcome per request; live leases are protected; bounded attempts; every job settles |
| **Worker protocol** `internal/workers`, `internal/localworker` | `worker`, its presence, leases through the scheduler | lease (long poll), heartbeat, presence, fail, upload and complete, revoke, enroll | several transactions per request, disconnects, revocation under a lease, two protocols | only the holder of the lease publishes; the render, or the relayed call, follows its job |
| **Speech store** `internal/speech` | renders, blob references, sentence bindings, narration status | ensure a render and its job, article and word queueing, ready, failed, generating, clear, recompute | renders shared between articles, clear racing with upload, status computed later | ready means audio is there; accepted audio is immutable; a status never promises more than there is |
| **Media store** `internal/media` | `blob` rows, files in `blobs/` and `temp/`, digest locks | prepare and commit a write, clean up an orphan, recover | two stores without a common transaction, crashes at any step, failing disk, failing commit that took effect, locks | referenced audio is kept; recovery converges; no lock cycle |
| **Analysis pipeline** `internal/analysis` (runner, history) | run, stage attempt and turn rows; the article and paragraph rows of the reader | claim, preflight, per-paragraph stages and publication, finish, fail, reconciliation, restart recovery | superseded jobs, lost leases, heartbeat goroutine, three transactions at the end, refused statements | ready articles are complete and of one job; the history tells the truth |
| **Article store** `internal/reader` | article, paragraphs, sentences, occurrences, reading progress | create, queue, publish paragraph, mark status, clear, read | guards by job id across transactions; anchors of text | shared with the pipeline; every text can be analysed |
| **LLM relay** `internal/llmrelay` | relay result rows, a child job per call | start, wait, lease, complete, cancel | waiter racing worker, presence, cancellation, revocation | one authoritative result; no child outlives its waiter |
| **Dictionary explore** `internal/dictionary` | subject, run, entry | look up, retry, regenerate, publish | two readers, one subject; publication and job end apart | one generation per subject; what is saved is acknowledged; every run ends |
| **Sentence translation** `internal/sentencetranslation` | run and translation rows | ensure, regenerate, publish, sweep orphans | run and job in two transactions | the same, and no run without work for ever |
| **Stage executor, provider sessions** `internal/annotator` | a session: a process with a thread, or a history | open, turn, correct, close | bounded corrections; messages out of turn | an answer belongs to its conversation |
| **Stage cache** `internal/analysis/stage_cache.go` | keyed artifacts | read, save | identity of candidates and upstream artifact | a hit is what the stage accepted for the same input |
| **Semantics validators** `internal/semantics` | the lexicon | prepare, validate both stages, resolve spans, namespace, merge, ensure a sense | two stages, references across paragraphs, homonyms | what is accepted can be published, and means what was said |
| **Profiles, prompts, catalog** `analysis/profiles.go`, `internal/prompts`, `httpapi` | profiles, active profile, prompt versions, retained models | create, replace, rename, delete, activate, save a prompt, seed, capture, refresh | requests that read before they write; a refresh under way | profiles are complete; bindings were offered; the catalog is current |
| **Plugins** `internal/plugins` | registry, deliveries | load, register, dispatch | plugin code that ignores errors, fails, panics; dispatch races | all or nothing; one delivery per event |
| **Library** `internal/library` | five levels of records | create, update, move, delete | moves against deletions; overlay updates | every parent exists, levels and timings stay legal |
| **Authentication** `internal/auth` | sessions, login bucket | login, rotate, logout, rate limit | — | not modelled |
| **Database, migrations; HTTP API, start** | schema version | migrate; order of recovery, routing | cancellation | recovery precedes service |
| **Web UI, macOS worker, build tools** | outside the server | — | — | clients may report anything they were granted, at any time |

## Modules and how they correspond to the code

`PROJECT.json` maps every definition to its lines. Definitions whose comment
begins "Faulty:" are plausible mistakes of the code; nothing in a specification
uses them, and each shows that some property would notice it.

### `Jobs` (internal/jobs/jobs.go) and `WorkLedger`

One variable per column that matters (`state`, `attempt`, `owner`, `token`,
`expiry`, `due` for `available_at <= now`, `deps`, `older` for the order of
`created_at`), and three that are outside the table: `issued`, the credentials
lease owners hold; `acked`, the completions that were acknowledged; `serial` and
`epoch`, which count drawn tokens and requests of the owner. One action per
transaction: both claims reconcile failed dependencies first and commit that even
without work; recovery does so in the same transaction; a failure is accepted from
an expired lease, a completion is not; a queued row loses its lease columns when
canceled, an active one keeps them. Time is two actions, `LeaseExpires` and
`BackoffElapses`. **Every credential ever issued may be presented at any later
step**, which is lost, late, repeated and reordered delivery in one.
`RevokeLeases` is the statement of `workers.Service.Revoke`, `Requeue` that of the
owners which ask again (`speech`, `reader`).

`WorkLedger` is what owners may rely on without knowing leases: one holder at a
time, at most `max_attempts` grants per request, delivery only by the latest grant,
no way back except by the owner. `Jobs` implements it under the mapping at its end.

### `Speech` (internal/speech/store.go, internal/workers/service.go)

Extends `Jobs`. A job is the synthesis job of one render (its idempotency key is
the render's request hash), so `Job` is also the set of renders. `render`, `ref`
(the blob reference), `bound` (the bindings of articles) and `narration` (the status
of an article) are rows. `calls` holds the requests in flight: `calls[h].steps` is
the list of transactions handler `h` still has to make, one per step
(`generate`, `prepare`, `commit`, `recompute`, `status`, `mark`, `fail`,
`respond`), so the plans of `Lease`, `Fail` and `Complete` can be read off
`Lease`, `ReportFailure`, `Upload` and `UploadCommon`. Any prefix may be all that happens
(`Disconnect`). The older protocol (`service.go`) completes by the credential alone; the
common one (`ailocals.go`, `CompleteAilocals`) verifies the lease in a step of its own
before it prepares the audio, and a refused upload only marks the render failed. The sweep with the callback is `Sweep`, without it
`ForeignSweep`.

### `MediaStore` (internal/media/media.go)

`row` and `ref` are tables, `file` the contents of `blobs/<digest>`, `stale`
the files in `temp/` that no operation owns, `lock` the digest locks, `conn` the
database connection, `task` what each goroutine is doing. Disk operations may fail
(`Fault`, at most `MaxFaults` times), a commit may report failure with or without
having taken effect, a canceled request rolls its transaction back while the code
does not know yet (`Cancel`). `Crash` loses goroutines, locks and the open
transaction and keeps rows and files; `RecoverTemp`, `ReadBlobs`, `RecoverBlob`,
`Serve` are `Recover` entry by entry, so that a crash can interrupt it.
A renamed file is durable at once.

### `Analysis` (internal/analysis/pipeline_runner.go, history.go; internal/reader)

Extends `Jobs` for an article's jobs: `Normal[a]` is the one keyed by content and
stored profile, the others are forced requests with keys of their own. `article`,
`active`, `block`, `published`, `run` are rows; `at` is the next transaction of the
single runner goroutine, `lease` its credential, `here` its paragraph, `gone` what
its heartbeat goroutine found. A job in `Malformed` has a payload the runner refuses: the
job ends and the article is not looked at. Requests supersede its job or make another one active
between any two of its steps, other components sweep and close runs of ended
jobs (`ReconcileElsewhere`), the process dies and restarts.

### `Relay` (internal/llmrelay; internal/workers; mac_relay sessions)

Extends `Jobs` for relayed calls, one child job each. `phase` is where the caller
is between enqueueing, reading the row and acting on what it read; `outcome` what
it was told; `result` the stored row; `accepted` the uploads a worker was thanked
for. `snapshot`, `seen`, `relaySeen` are a worker's presence, from which the caller
decides whether to wait at all. Both protocols upload; `polls` are workers inside a
long poll, which may claim after they were revoked.

### `Generation`, `Dictionary`, `Translation` and `OnDemand`

`Generation` extends `Jobs` with the runner that Explore and sentence translation
repeat: sweep, reconcile, claim, preflight, generate, publish, fail, each a step of
its own, a heartbeat beside it, crashes. `Dictionary` and `Translation` are the two
services that enqueue for it: the first reads, resolves a provider outside any
transaction and rechecks everything in the transaction that enqueues; the second
claims the sentence with a history run, and only then enqueues, so that a run may
be without a job. `ReconcileOrphanRuns` of `Translation` closes such runs after a
while (`RunAges`). When the runner cannot read the run of its payload, it opens another
one and points the sentence at it (`OpensReplacement`, `PointsAtReplacement`); `former` is
what becomes of the first.

`OnDemand` is what a reader relies on who knows neither jobs nor runs nor crashes: of a
subject at most one generation is open, each ends once, with a result or without, and a
result that is there is replaced only by a generation that was asked to replace it.
`Generation` maps itself to it at its end: the open generations of a subject are its jobs
that have not ended, the begun ones all jobs there are, and those that may replace a
result are the requests in `Regenerate`.

### `Text`, `Semantics`, `Compile`

`Text` has the pure functions over an article's text: paragraphs, sentences, tokens,
slices; characters are one representative per class the code tells apart. `Semantics`
has the validators of provider answers over words, tokens, senses and constructions;
`Compile` the behaviour around them: prepare a paragraph, look into the cache, let a
provider answer, correct it, keep the artifact, translate, merge, namespace, publish
into the lexicon, and do it again in a further attempt. `lexicon`, `cache`,
`published` are tables; the rest is the memory of one run. A plain spelling
lookup stands for the candidate search: lemmas, and words found inside other words,
are left out. A sense has a kind, two spellings and a discriminator; the senses of the
answers, the carried ones and the lexicon are told apart by them (`SenseIdentity`). What
the code only looks up by reference is a set (carried senses); the order in which equal
constructions of an artifact are saved is any that sorts them (`SourceOrders`). The items
of the merged answer are kept by paragraph and position (`AllItems`) instead of appended.

### `History` (internal/analysis/history.go, stage_history.go, pipeline_runner.go)

One attempt of a job as its history records it: `runRow`, `stageRow` with the turns,
and `doing`, the next statement of the runner. Storage may refuse every statement
(`MaxFaults`), the process may end before it (`MaxExits`), the lease may go at any
time. What `failRun` cannot write it passes over, as the code does. A further
attempt of the job has a run row of its own.

### `Sessions` (internal/annotator)

One session: `Codex` ones talk to a process through `stream`, in which the
app-server mixes the response, the items and the end of a turn with messages of
other threads; the others send their `messages` again with every request. The
app-server itself is external: it is assumed to write a turn's messages between the
request and the end of that turn.

### `Plugins`, `Catalog`, `Profiles`, `Library`

`Plugins`: loading up to the stage that refuses an artifact, the transaction a
plugin's registrations are collected in, and dispatch with its reserved and
completed tuples; a dispatch holds observers by their places in the registry, which only
grows. `Catalog`: a retained entry per provider, one refresh under way,
requests that find nothing current and join it in a second locked section, where it
may have ended meanwhile, or leave. `Profiles`: rows of profiles and prompt versions;
a request validates against the catalog first and writes later; captures read
bindings and prompts apart; startup seeds in three steps. `Library`: records of five
levels, with moves, overlay updates and cascades.

### Instances and proofs

`MCJobs`, `MCSpeech`, `MCMediaStore`, `MCAnalysis`, `MCRelay` define the values the
`.cfg` files give to function-valued constants. `MCServices` puts the components
beside the job table into one instance: `part` says which of them moves in a
behaviour, since they share no state but the tables each has to itself.

The theorems are in modules of their own, which extend what they are about:
`JobsProofs`, `SpeechProofs`, `AnalysisProofs`, `RelayProofs`, `MediaStoreProofs`;
`GenerationProofs` (`Generation` through the requests of `Dictionary` and of
`Translation`, and the refinement of `OnDemand`), `RecordsProofs` (`History`,
`Sessions`, `Compile` with `Semantics`), `OwnersProofs` (`Catalog`, `Library`,
`Profiles`, `Plugins`).

## Runs

Sizes are distinct states, up to the counterexample where there is one; each run
ends within four minutes on two threads.

| Run | Instance | States | What it shows |
|---|---|---|---|
| `jobs_race` | 2 jobs (2 and 1 attempts), one common-protocol worker, which may be revoked, one older worker, edges both ways, one requeue | 294k | attempts identify leases, lane exclusivity, acyclic dependencies, frozen outcomes, protected leases; and that the scheduler implements `WorkLedger` (that rows keep their types is proved) |
| `jobs_revoke_strands` | 1 job, revocation, fair | 71 | finding: `EveryJobSettles` fails |
| `speech_race` | 1 render of a sentence and 1 of a word, 2 workers that upload by either protocol, 2 digests, 2 handlers; all faults | 145k | ready means audio; accepted audio stays; nobody publishes without the lease |
| `speech_shared` | 2 renders, 2 articles with a common sentence; 1 worker, 1 handler; sweeps of every runner, retryable reports, disconnects, regeneration, fair | 181k | a ready narration plays; clearing spares shared audio; the ledger holds for speech too; every synthesis ends |
| `speech_lost_failure` | 1 render, 1 worker, sweeps of every runner | about 220 | finding: a job fails for good and its render waits on |
| `speech_late_failure` | 1 render, 2 workers | 14k | finding: a job succeeds with a failed render |
| `media_store` | 1 digest, 2 references, 3 goroutines, 2 faults, 2 crashes, cancellations, fair | 42k | referenced audio is kept, recovery converges, every operation ends |
| `analysis_race` | 1 article of 2 paragraphs, a normal (2 attempts) and a forced job (1), refused payloads, 1 crash, fair | 182k | ready articles are complete and of one job; open runs are worked on; success means published; queued rows can run; every job settles |
| `analysis_retry_strands` | 1 article, 1 job | 19 | finding: a queued article without work |
| `relay` | 1 call of 2 attempts, a worker of each protocol, 2 answers in 3 spellings, revocation | 698k | one answer per call, whoever uploads what and when; no child is left behind |
| `services` | the components beside the job table, one at a time (below) | 380k | thirteen invariants, the refinement of `OnDemand`, and the end of every generation |
| `compile_retry` | the articles of `services`, 2 attempts | about 550 | finding: a retry does not find the paragraphs its predecessor completed |

The parts of `services`:

| Part | Instance | Properties |
|---|---|---|
| dictionary, sentence | 2 requests (ensure, regenerate) of one subject, 1 runner, 1 crash, fair | `ImplementsOnDemand`, `SavedResultsAreAcknowledged`, `GenerationsEnd` |
| text | every text of 5 characters over 4 alphabets | `TextAnchorsHold` |
| compile | an article with a verb in two parts and a second use of a word, one with a paragraph without words; every shape of answer; 2 attempts | `AcceptedAnswersPublish`, `AcceptanceIsNoDeadEnd`, `OccurrencesKeepTheirSense` |
| plugins | 2 loads, of a good package and of one that fails at each stage; 4 registrations; 2 dispatches of one event | `RegistrationsAreWhole`, `ObserversHearOnce` |
| catalog | 1 provider, 2 readers, 2 refreshes | `CatalogStaysCurrent` |
| profiles | 2 profiles, 2 requests, 2 prompt versions, 1 restart; an empty and an old database | `ProfilesAreWhole`, `BindingsWereListed` |
| library | 2 libraries and one record of each level below; timings of -1 to 1 | `LibraryStaysWhole` |
| history | 2 paragraphs, 1 correction, 1 refused statement, 1 exit | `RunsTellTheTruth` |
| sessions | 2 turns, 1 foreign message | `AnswersFollowTheirConversation` |

### Why the bounds are enough

* **Jobs.** Two jobs are what ordering, lanes and a cycle need. Two attempts give
  an old and a new lease of one job. The second worker follows the older protocol, so that a lane and a worker without
  lanes are both there. One requeue is enough for a credential of an earlier
  request. The safety properties are proved for every instance besides.
* **Speech.** Two workers, two handlers and two digests give every pair of
  requests that can meet at one render; two articles, one shared sentence and one of
  an article's own give every way a render can be shared. `speech_shared` has one
  handler, one digest and whole disk operations, since its questions are about rows and
  requests of articles; what two uploads do to each other is `speech_race`. No worker
  serves words, so their renders are only queued, shared and cleared; the theorems
  (`SharedAudioStays`, `ReadyRendersAreBacked`) cover words that are ready.
* **MediaStore.** Operations on different digests meet only at the connection, so
  one digest with three goroutines (upload, upload, clean up) is the interesting
  case; two digests with two goroutines (140k states, one fault) gave the same outcome.
  Two crashes interrupt recovery once. Two faults are where the guarantee changes:
  `AudioIsKept` promises the bytes of every row with at most one refused operation, and
  those of referenced rows with any number; [Findings](#findings) has the behaviour
  with two.
* **Analysis.** Two paragraphs are a first and a last one. The forced job can
  supersede the normal one and the other way round; with two attempts each (731k states)
  the outcome is the same. The runner handles one job at a time, so one
  article suffices for what concerns its rows.
* **Relay.** Calls meet only in the job table, so one call suffices; two workers
  give every pair of uploads, two attempts a late one.
* **Dictionary, Translation.** Two requests of one subject are what can collide; jobs
  have one attempt in the code. One crash is enough for a run without a job.
* **Text.** The rules look at most two characters ahead of and behind a boundary,
  and four alphabets hold the classes that meet in them; texts of six characters
  gave the same outcome.
* **Compile.** Two paragraphs give a sense carried forward and a reference into an
  earlier paragraph; two attempts a cache of one's own making.
* **History.** Two paragraphs are a first and a last one, one correction a rejected
  and a last turn. One refused statement: after the first one the runner only fails,
  and writes what it still can.
* **Plugins, Catalog, Profiles, Library, Sessions.** Each has two of what can
  collide (loads, dispatches, readers, requests, turns) and one of what can go wrong.
  The two dispatches and the two requests are interchangeable, so the same one of
  them always starts first (`InOrder`).

The violation runs have the smallest instances that show their behaviour.
`speech_lost_failure` has one of three causes switched on, the sweep without a callback.
With that off and `RetryReports = {TRUE}`, or with `Disconnects = TRUE`, it is violated as
well, by the two other ways named in its finding; with all three off it holds.

## Fairness

* `Jobs!FairSpec`: sweeps are weakly fair because every poll sweeps; claims of each
  owner because runners and workers poll for ever; backoffs and leases because
  clocks advance. `AttemptEnds` says that no lease lasts for ever: its holder
  reports, or stops heartbeating and the lease runs out. Nobody is obliged to
  report on an expired lease.
* `Speech!FairSpeechSpec`: strong fairness for the steps of a handler, since the
  digest lock is a `sync.Mutex` other handlers take in between, and Go serves its
  waiters; strong fairness for `Lease`, since the bound on `Handler` makes a slot
  unavailable that the server would always have. Sweeps and clocks are weakly fair. No
  worker is obliged to report or to upload: its lease runs out.
* `MediaStore!FairSpec`: strong fairness for the steps of an operation for the same
  reason (mutexes and `database/sql` serve waiters in turn), weak fairness for
  `Recover`. No crash, fault or request is ever obliged to happen.
* `Analysis!FairAnalysisSpec`: weak fairness for the runner goroutine, including the
  restart of the server, and for clocks. No request is obliged to come.
* `MCServices!ServicesSpec`: weak fairness for the steps of the dictionary and
  sentence runners, which poll for ever, and for the clock: some lease that is due
  ends, some run grows old. Leases and runs are finitely many, so each of them does. Nothing else of `services` has a liveness property.

## Proofs

Every theorem holds for all values of the constants that satisfy the `ASSUME`
of the module, that is: any number of jobs, workers, credentials, dependencies,
requests, articles, paragraphs, digests, profiles, records and turns. Each safety
property follows from an inductive invariant, which says what the property alone
does not: where a credential comes from, what is left of a request in flight, how
far a goroutine is.

| Property | Theorem | Inductive invariant |
|---|---|---|
| `ExactlyOnceCompletion`, `AttemptIdentifiesLease`, `OneActiveLeasePerLane`, `DependenciesAcyclic`, `TerminalRowsAreFrozen`, `LiveLeaseIsProtected`, `QueuedRowsHaveAttemptsLeft`, `ImplementsLedger` | `CompletionIsExactlyOnce`, `AttemptsAreNotReused`, `LanesAreExclusive`, `DependencyGraphIsAcyclic`, `TerminalRowsStayFrozen`, `LiveLeasesAreProtected`, `QueuedRowsCanRun`, `SchedulerImplementsLedger` | `LeaseInv` |
| `ReadyRendersHaveAudio`, `AcceptedAudioIsImmutable`, `SharedAudioSurvivesClear`, `ReadyNarrationIsPlayable` | `ReadyRendersAreBacked`, `AcceptedAudioStays`, `SharedAudioStays`, `ReadyNarrationsPlay` | `SpeechInv` |
| `PublicationNeedsTheLease`, `SpeechKeepsLedger` | `NoStaleWorkerPublishes`, `SpeechImplementsLedger` | `RowsInv` = `SpeechInv` and `LeaseInv` |
| `ReadyArticlesAreComplete`, `OpenRunsAreWorkedOn`, `SuccessMeansPublished`, `QueuedRowsHaveAttemptsLeft` | `ReadyArticlesStayComplete`, `OpenRunsHaveARunner`, `SuccessIsPublication`, `QueuedAnalysesCanRun` | `AnalysisInv` |
| `AnswersAgree`, `ReturnedCallsLeaveNoWork` | `OneAnswerPerCall`, `NoWorkIsLeftBehind` | `RelayInv` |
| `AudioIsKept`, `RecoveryAgrees` | `AudioStaysKept`, `RecoveryRestoresAgreement` | `MediaInv` |
| `SavedResultsAreAcknowledged` (and `OneGenerationAtATime`) | `ExploreResultsAreAcknowledged`, `ExploreGeneratesOnce`; `SentenceResultsAreAcknowledged`, `SentencesGenerateOnce` | `GenInv`; `SentenceInv` |
| `ImplementsOnDemand` | `ExploreImplementsOnDemand`; `SentencesImplementOnDemand` | the same with `ReplacesOnly` |
| `RunsTellTheTruth` | `HistoryTellsTheTruth` | `HistoryInv` |
| `AnswersFollowTheirConversation` | `SessionsAreConversations` | `SessionInv` |
| `OccurrencesKeepTheirSense` | `SensesAreKept` | `CompileInv` |
| `AcceptedAnswersPublish` | `AcceptedIsPublished` | `CompileInv`, `AcceptedInv`, `AuditInv` |
| `CatalogStaysCurrent` | `CatalogIsCurrent` | `CatalogInv` |
| `LibraryStaysWhole` | `LibraryCorrect` | itself |
| `ProfilesAreWhole`, `BindingsWereListed` | `ProfilesStayWhole`, `OnlyListedBindings` | `ProfilesInv` |
| `RegistrationsAreWhole`, `ObserversHearOnce` | `WholeRegistrations`, `ObserversHearOfIt` | `PluginsInv` |

**`JobsProofs`.** An attempt number cannot be shown unique by itself: one has to
know where credentials come from. `LeaseInv` is

    TypeOK /\ RowsMatchTheirLease /\ CredentialsAreOld /\ TokenIdentifiesLease
           /\ AttemptIdentifiesLease /\ ExactlyOnceCompletion

A row that holds a token holds the latest one drawn, and its columns are one issued
credential; no credential is ahead of its row; hence the one a claim draws is new,
in its token and in its attempt; hence only one lease can be acknowledged. Cancel,
revoke and recover are all *sweeps* (`Swept`: nothing becomes active, rows keep or
lose their lease columns), and one lemma shows that a sweep keeps `LeaseInv`.
Lanes need that only claims make rows active (`OnlyClaimsActivate`); acyclicity
that what the recursive query reaches is the least closed set (`AncestorsClosed`,
`AncestorsLeast`), that reachability is transitive, and that an edge whose reverse
is not reachable closes no cycle. `QueuedRowsCanRun` **assumes `Revocable = {}`**:
without the assumption it is false, which is the finding of `jobs_revoke_strands`.
`SchedulerImplementsLedger` maps each action to `Ask`, `Grant`, `Sweep`, `Deliver`
or a stutter of `WorkLedger`.

**`SpeechProofs`.** `SpeechInv` says that every request in flight follows one of the
plans, with a credential that was issued and, from `prepare` on, a digest. That is
what makes the commit step safe: it inserts a real digest, under a credential that
belongs to the job it finishes. `SpeechRowsCorrect` adds `LeaseInv`: the commit
compares an attempt and a token, and only because these identify one lease is the
uploader the one the row names: a render gains a reference or its job succeeds only in
the step that finishes the job under its live lease (`NoStaleWorkerPublishes`). It says
nothing of the status `ready`, which a repeated upload of the accepted audio sets again
without a lease. `EnsureRefines` carries
the requests of articles over to the ledger, where starting a finished job again is
an `Ask`. A ready narration stays playable because a reference goes away only in a
clear, which purges its render in the same transaction (`ReadyRendersStay`).

**`AnalysisProofs`.** `ProgressIsKept` is the heart: in the middle of its loop the
runner has published every earlier paragraph, and while its job is the active one
those paragraphs are ready and the article is being processed; a request that took
the article over left it queued. `ForcedRequestsTakeOver` says that whoever is active
ended every older job, which is why a job that succeeds with another one active
cannot be an older one (`SuccessIsPublication`). `RunsAreClosed` follows the run row
through every way out of the runner.

**`RelayProofs`.** The caller reads the child's state and acts on it in a later step.
`CallersKnow` says that a terminal state it read is still the state, because a terminal
row is frozen and nobody asks for a child again; so the result it then loads is the
accepted one. `StepRows` gives what any step does to the rows of calls.

**`MediaStoreProofs`.** `OperationsAreOrdered` ties each operation to what its digest
lock guards: from `aside` on no reference names the digest, from `delete` on its file is
gone and the bytes are in the operation's hands, at `commit` the file is in place. Two
parts are about failure. `PlaceholdersAreHarmless` holds while at most one disk operation
was refused: a placeholder left behind never meets a row whose bytes are aside.
`RecoveryIsThorough` says that a recovery without a problem has not passed over anything.
The theorem on rows stops at one fault because more is not true (see
[Findings](#findings)); that on references has no such bound.

**`GenerationProofs`.** The assumption `MaxAttempts[j] = 1` for generation jobs is the
constant both services enqueue with (`dictionary/service.go:420`,
`sentencetranslation/service.go:432`). With it a job nobody holds never opens again
(`RoutineEnds`), and `PointersAreCurrent` can say that `last_job_id` names the newest
job and that no other is open. `RunnersAreApart` gives a held job one runner. The
invariant is proved of both services' specifications; for sentences `SentenceInv` adds
that a request whose run was claimed but not yet answered has no job, since its run is
written before its job. The refinement sorts the steps of both services into those that
close generations, open one, deliver, or change nothing a reader sees (`Closing`,
`Opening`, `Delivering`). That a delivery replaces only what it was asked to replace needs
`ReplacesOnly`: while a generation that is to replace nothing is open, its subject has no
result, because both services look at the saved result in the transaction that enqueues and
no other generation can be open beside it.

**`RecordsProofs`.** `HistoryInv` follows the runner statement by statement: whole
attempts before its place and none after (`WorkIsInOrder`), the attempt at its place
as far as the runner is (`AttemptIsCurrent`), a counter that counts whole paragraphs
(`CountIsTrue`), a blame that names no stage that succeeded (`BlameIsTrue`), and how far
the run row is (`RowFollows`). A refused statement or the end of the process at any of
them leaves the rows as they were, and the invariant is about the rows and the place.
The assumption that `Unrecorded` is no row is one on the model's "no row" value.
`SessionInv` is about the lines under way: between turns nothing of a turn is
unread; in a turn everything of the own thread belongs to it, there is at most one
response, and nothing of the thread comes after its end. It rests on what is assumed of
the external app-server (see `Sessions`).

For `Compile` there are three, each on top of the one before, and all are about every
article, any number of attempts, and whatever providers answer in the fields they are
asked for.

* `CompileInv` is about what references mean. The prefix of a reference names the paragraph
  that introduced its sense; a paragraph introduces a reference once; an accepted analysis
  refers only to candidates, to its own senses or to ones carried forward (it is
  *grounded*). So the sense that publication finds or creates for an occurrence is the one
  the analysis named, and later paragraphs, whose prefixes are larger, cannot take a
  reference over.
* `AcceptedInv` is about the two stages. A merged answer and its namespaced form are both
  *renderings* of the accepted analysis (`Renders`): the same items with other references,
  which are fresh. `RenderingIsValid` shows once that a rendering of an accepted analysis
  and translation passes the final validator, for the references as they are and for the
  namespaced ones; the named gaps are what has to be excluded for the second.
* `AuditInv` is about the run as a whole. The answers a run kept are those of its paragraphs
  as `MergeChunks` will prepare them again (`KeptIsPublished`), and validity is *local*:
  where a span is found, which tokens there are and how a construction lies depends on the
  words of its own paragraph only (`SpanIsLocal`, `ConstructionIsLocal`), and more senses do
  not change what is said of a reference (`SaidAmongMore`). What each paragraph's validator
  accepted is therefore accepted for the whole article: `merge_refused` is not reachable.

**`OwnersProofs`.** `CatalogInv` dates every answer: a reader that was woken asked
before the refresh it waited for ended. `LibraryStaysWhole` is inductive as it stands; the
proof needs that a cascade from a deleted record reaches every descendant, level by level
(`NothingIsBelowBelow`), and that moves name a stored record of the level above.
`ProfilesInv` says of a request in flight that every tuple of its body has been listed or
is still to be checked, and that what it captured was stored; of the rows, that one row
per profile has a binding for Explore and, once the prompt library is seeded, one
selection of every type. `ProfilesAssumption` says which bodies and old rows there are: a
body names one selection per type or none (`parsePromptSelections`,
`CreateWithChoices`), the bootstrap profile has neither selections nor an Explore binding
(`seedBootstrapProfile`), migration 014 gave old profiles an Explore binding and no
selections. TLC evaluates it, as it does all of the assumptions.
`PluginsInv` has a part for each half of the host. `LoadsAreSound`: an open transaction
holds what the plugin was answered, a committed one is one interval of the registry, and
whoever is in the registry passed every check of its package. `DeliveriesAreHeld`: every
tuple a dispatch has passed is completed, or held by another dispatch, or failed with the
dispatch that held it; a tuple is held by one dispatch at a time, so only that one can
complete it. `PluginsAssumption` gives packages the fields a manifest has.

The proofs changed the models.

* Some `CASE` expressions had arms that overlap, of which TLA+ picks an unspecified one
  while the code takes the first (`History!NextPlace`, `Dictionary!Status`,
  `Translation!SentenceStatus`): they are chains of conditions now.
* Assumptions that were tacit in the instances are stated and named.
* What was computed by recursion or counted, although the property only asks which or
  whether, is a set or a position now: the observers of a dispatch, carried senses, the
  paragraphs' answers in `MergeChunks`, overlapping constructions (`LayersApart`), what
  of a translation belongs to what of its analysis (`Corresponds`, `Covers`).
* Senses have their kinds and the types of their fields, as the decoder enforces them
  (`DecodeLinguisticArtifact`); before, an answer could hold what no decoder returns.
* That accepted answers publish and that an accepted analysis can be translated were one
  property. The first holds for every provider; the second depends on which answers a
  provider can give, that is on the instance (`AcceptanceIsNoDeadEnd`).

**Only model-checked.**

* Liveness (`EveryJobSettles`, `EverySynthesisEnds`, `EveryOperationEnds`,
  `GenerationsEnd`) is beyond the proof system.
* `TextAnchorsHold` is about what recursive scans compute over a text, which needs
  induction over data.
* `AcceptanceIsNoDeadEnd` says that some answer is accepted. Which answers there are is a
  constant of the instance (`Renderings`).

## Findings

Each of these is a violation run; the counterexample is the behaviour described.

1. **`jobs_revoke_strands`** (`internal/workers/service.go:346`). `Revoke` puts a
   leased row back in the queue whatever its attempt. On the last attempt no claim
   accepts it and no sweep ends it: the job is queued for ever.
2. **`speech_late_failure`** (`internal/workers/service.go:731`). The follow-up of a
   refused upload marks the render failed without looking at the lease. Between
   another worker's `SetRenderGenerating` and its commit, it makes the job succeed,
   with a reference, while the render stays failed.
3. **`analysis_retry_strands`** (`internal/reader/v2_store.go:806`). `POST /enrich` on
   an article whose normal job has ended makes the ended job active again and the
   article `queued`. Nothing runs it.
4. **`compile_retry`** (`internal/analysis/stage_cache.go:128`). `ARCHITECTURE.md:33-35`
   says that a retry can reuse completed paragraphs. The identity of a cached stage
   contains the candidate senses, which the publication of the paragraph itself
   changed; and a linguistic artifact with a construction is saved under the hash of
   another form of it than the one it is compared with.
5. **`speech_lost_failure`** (`internal/dictionary/runner.go:90`, its store at `:61`;
   `sentencetranslation/runner.go:51`, `:81`). Two of the runners the server always starts
   sweep the leases of every job type through a store without the callback. When one of
   them is the first to see that the last attempt of a synthesis ran out, the job fails and
   the render waits on, against `jobs.go:127-129` and `speech/store.go:620-622`. There are
   two further ways to the same state: a worker that reports its last attempt as retryable
   (`workers/service.go:601`; the macOS worker always does, `LeaseLoop.swift:313`), and a
   request that is cut off between the failure of the job and that of the render.

Others were seen while reading and modelling, and no run records them:

* `workers/service.go:731-732`: the follow-up of a refused upload marks the render failed
  and then fails the job. A second article that asks for the same sentence in between
  makes the render `queued` again and leaves the leased job alone; then the job ends
  failed, and the render waits for ever.
* `media.go:507`, `:659`: a cleanup that can neither move the bytes aside nor remove its
  empty placeholder leaves that in `temp/`. If a later cleanup of the digest is
  interrupted after it moved the bytes aside, recovery finds two artifacts, renames the
  one it meets first into place without looking at it, and removes the other as a
  duplicate (`:650-653`): the row is left with an empty file, which refuses every later
  upload of those bytes. Only rows without references are exposed; TLC finds it for
  `RowsKeepTheirAudio` alone, which `AudioIsKept` promises up to one fault.
* `media.go:589`: `Recover` never removes a blob that has a row, and
  `ListOrphanDigests` (`:664`) has no caller, although `reader/v2_store.go:1232-1234`
  says that a failed cleanup "remains recoverable by the normal media startup sweep".
* `llmrelay.go:554` refuses four failure codes that
  `localworker.MapFailureToProductCode` yields, although `mapping.go:33-34` says every
  mapped value passes unchanged; the job stays leased until it expires.
* `llmrelay/service.go:187`, `:206`: `Wait` returns without canceling its child when
  the context ends inside `Get` or `RecoverExpiredJob`; the comment at `:55-58` says
  otherwise.
* Accepted answers that can never be published: references of 97 to 120 scalars pass
  both stage validators and fail `ValidateChunkResponse`, those of 94 to 96 fail when
  namespaced; a construction with neither a sense nor a reference is refused only by
  `persistAnalysisChunkTx` (`chunk_publish.go:242-243`), after both stages were
  cached, so retries fail alike; a reference equal to an irrelevant carried one fails
  in `NamespaceChunkResponse`. `AcceptedAnswersPublish` leaves these out by name.
* `pipeline_runner.go:91-99` ends a job whose payload it refuses without looking at the
  article, which stays `queued`, although `:488-491` says that a failed job can never leave
  it so. `QueuedArticlesHaveWork` fails for that alone if `analysis_retry_strands` is given
  such a payload.
* A paragraph without any word can never be translated (`semantics/stages.go:596`), so
  its article fails for ever.
* `ARCHITECTURE.md:575-576` says the final audit never gates publication; a failure
  of `MergeChunks` fails the run. The proof of `AcceptedIsPublished` shows that no answers
  of providers make it fail, as long as the database returns what was written.
* A failed Codex turn sets `closed`, and the `Close` that follows returns early: the
  private directory stays and the session's context is not canceled
  (`codex_session.go:124`, `:135`).
* After a lost lease the stage attempt stays `running` until a restart;
  `reader.RecoverInterrupted` leaves the phase of the runs it closes at `running`; a
  failed merge blames the paragraph after the last one.
* `plugins/registry.go:374`: a dispatch skips an observer another dispatch is calling
  and reports success even if that call then fails. One invalid UI registration makes
  `UIContributions` fail for every plugin.
* `pipeline_articles.go:27-35` reads bindings and prompt selections apart, so a job
  may freeze the bindings of one version of a profile and the prompts of another.
* `profiles.go:399-421`: a crash between the creation and the activation of the seeded
  profile leaves none active, and the next start seeds nothing.

Behaviour that contradicts no statement of the repository: a status computed while an
article is cleared; a new article bound to a purged render stays silent; a duplicate
upload gives a purged render a reference; a
cancellation at the commit of a cleanup; an article that stays `processing` after a
lost lease until the next start; an article whose last attempt expired; an enrich
request between the three transactions that end an analysis; a run closed by another
runner's reconciliation that is then finished as succeeded.

## What is not modelled

* **Data.** Text, prompts, provider answers, audio bytes and hashes are model values;
  formatting, logging, decoding and layout are left out everywhere.
* **Jobs.** `progress_percent`, ties of `created_at`, priorities that change.
* **Speech.** Profiles, units and voices (fixed by the instance); the relay lane.
* **MediaStore.** `fsync` of directories; `Read`; the functions only tests call
  (`CommitWrite`, `StoreDB`, `Write`, `AbandonWrite`, `RemoveReference`,
  `ListOrphanDigests`, `DeleteBlobRecord`).
* **Analysis.** The stages of a paragraph are one step with their possible outcomes
  (`History` and `Compile` have them), changes of the stored profile, and the legacy
  synchronous path (`analysis/runner.go`, `reader/store.go` `QueueAnalysis`), which
  `main.go` never starts. The start's `ReconcileTerminalJobRuns` finds nothing after
  `RecoverInterrupted` and is left out there; the runners' own are actions. Database
  errors are modelled where the code goes on after one (`History`, `Translation`). The
  one at `pipeline_runner.go:195-197` leaves an open run behind until its job ends or the
  server restarts; with it, `OpenRunsAreWorkedOn` would not hold.
* **Jobs.** `AddDependency` has no caller outside tests; it is modelled because the
  scheduler exports it.
* **Semantics.** Notes, pronunciations, confidences and alternatives; lemmas; size
  limits other than those of references; the strict JSON decoders.
* **Relay.** The deadline of the whole call is the caller's cancellation.
* **Plugins.** Fingerprints, the build tool, diagnostics, the UI snapshot; neither
  `RegisterPlugin` nor `DispatchEvent` has a caller in production yet.
* **Profiles.** Provider tests and conformance results, listings of the history;
  prompt texts. Ids may be used again in the model, which they are not in the code.
* **Sessions.** Discovery of models, the wording of prompts and schemas, classification
  of errors, the private directory's contents.
* **Authentication, configuration, migrations, Web UI, build tools.** No state in
  common with the components above, or nothing that interleaves.
* **Enrollment** of workers and the requests that only read.

## Plan

Done: `Jobs`, `WorkLedger`, `Speech`, `MediaStore`, `Analysis`, `Relay`; `Generation`
with `Dictionary` and `Translation`; `Text`, `Semantics` and `Compile`; `Plugins`,
`Catalog`, `Profiles`, `Library`; `History` and `Sessions`; and the theorems above.

Every safety property of the passing runs is a theorem, except those listed under
"Only model-checked"; no theorem of the plan is left.

Parts still to model: enrollment and presence of workers of the older protocol, the
login sessions, provider tests and their results, deletion of articles.
