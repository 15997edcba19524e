------------------------------- MODULE Speech -------------------------------
(***************************************************************************)
(* Speech renders, the narration of articles and the requests of speech    *)
(* workers, on top of the scheduler: internal/speech/store.go,             *)
(* internal/workers/service.go (Lease, Heartbeat, Fail, Complete) and the  *)
(* digest lock and commit of internal/media/media.go.  Workers of the older  *)
(* protocol upload to Service.Complete, those of the common protocol to    *)
(* CompleteAilocals (internal/workers/ailocals.go).                        *)
(*                                                                         *)
(* A job of Jobs is the synthesis job of one render (its idempotency key   *)
(* is "speech.render:" + request_hash), so Job is also the set of renders. *)
(* Every HTTP handler runs in a goroutine of its own and touches the       *)
(* database in several transactions; "calls" holds what each handler in    *)
(* flight still has to do, and every step of a plan is one transaction.    *)
(***************************************************************************)
EXTENDS Jobs, Sequences

CONSTANTS
    Article,        \* articles
    Sentences,      \* narration renders of the sentences of an article
    Words,          \* lexical renders of its words; never purged
    Regenerates,    \* articles whose owner asks for the narration again
    Position,       \* the order in which an article asks for its renders
    Digest,         \* digests of audio a worker may upload
    NoBlob,         \* no row in audio_blob_reference
    Handler,        \* request handlers that may run at once
    Protocols,      \* the protocols workers upload by
    RetryReports,   \* what workers send as "retry" of a failure
    ForeignSweeps,  \* runners whose job store has no terminal callback run
    DiskFaults,     \* writing, renaming or committing a blob may fail
    Disconnects     \* a client hangs up or the server stops mid-request

ASSUME SpeechAssumption ==
    /\ Sentences \in [Article -> SUBSET Job]
    /\ Words \in [Article -> SUBSET Job]
    /\ \A a, b \in Article : Sentences[a] \cap Words[b] = {}
    /\ \A a \in Article : Sentences[a] # {}
    /\ Regenerates \subseteq Article
    /\ Position \in [Job -> Nat]
    /\ NoBlob \notin Digest
    /\ Protocols \subseteq {"older", "common"}
    /\ RetryReports \subseteq BOOLEAN
    /\ {ForeignSweeps, DiskFaults, Disconnects} \subseteq BOOLEAN

VARIABLES
    render,     \* audio_render.state, "absent" before the row exists
    ref,        \* blob_digest of the render's audio_blob_reference
    bound,      \* articles with rows in article_sentence_audio
    narration,  \* article.narration_status, "absent" before the article exists
    held,       \* credentials a worker received in a lease response
    calls       \* what every handler in flight still does

audioVars == <<render, ref, bound, narration>>
speechVars == <<vars, audioVars, held, calls>>

-----------------------------------------------------------------------------
(* Requests in flight.                                                     *)

Idle == [steps |-> <<>>]

Steps == {"respond", "verify", "generate", "prepare", "commit", "mark", "fail",
          "recompute", "status"}

Call == [steps : Seq(Steps), cred : Credential, digest : Digest \cup {NoBlob},
         retry : BOOLEAN, articles : SUBSET Article, protocol : {"older", "common"}]

Begin(h, plan, c, d, retry, protocol) ==
    /\ calls[h] = Idle
    /\ calls' = [calls EXCEPT ![h] = [steps |-> plan, cred |-> c, digest |-> d, retry |-> retry,
                                      articles |-> {}, protocol |-> protocol]]

At(h, step) == calls[h] # Idle /\ Head(calls[h].steps) = step
Rest(h)     == Tail(calls[h].steps)

\* Handler h goes on with plan; an empty plan ends the request.
Continue(h, plan, retry) ==
    calls' = [calls EXCEPT ![h] =
        IF plan = <<>> THEN Idle ELSE [@ EXCEPT !.steps = plan, !.retry = retry]]

Proceed(h) == Continue(h, Rest(h), calls[h].retry)

\* After a rejected artifact completeSpeech fails the render, then the job;
\* completeSpeechCommon fails the render only (its jobs.Fail after a failed
\* PrepareWrite has no token, which finish refuses before it reads the row).
GiveUp(h, retry) ==
    Continue(h, IF calls[h].protocol = "common" THEN <<"mark">> ELSE <<"mark", "fail">>, retry)

\* No handler in flight works on the render.
Quiet(j) == \A h \in Handler : calls[h] = Idle \/ calls[h].cred.job # j

-----------------------------------------------------------------------------
(* The narration status of an article.                                     *)

Pending == {"queued", "generating"}

Bindings(j) == {a \in bound : j \in Sentences[a]}

\* Renders R of the sentences of a, when B are the bound articles.
Status(a, B, R) ==
    LET states == {R[j] : j \in Sentences[a]} IN
    IF a \notin B THEN "not_requested"
    ELSE IF states = {"ready"} THEN "ready"
    ELSE IF "ready" \in states THEN "partial"
    ELSE IF "failed" \in states /\ states \cap Pending = {} THEN "failed"
    ELSE "queued"

-----------------------------------------------------------------------------
(* Articles ask for audio.                                                 *)

\* EnsureRenderTx: failed renders start over, purged ones only when asked.
EnsuredRender(S, reactivate) ==
    [j \in Job |->
        IF j \in S /\ \/ render[j] \in {"absent", "failed"}
                      \/ j \in reactivate /\ render[j] = "purged"
        THEN "queued" ELSE render[j]]

\* Faulty: a leased job starts over as well.
RestartedActive(S, R) ==
    {j \in S : \/ state[j] \in ActiveStates \cup {"failed", "canceled"}
               \/ state[j] = "succeeded" /\ R[j] = "queued"}

\* Finished jobs ensureSpeechJobTx starts over, R being the ensured renders.
Restarted(S, R) ==
    {j \in S : \/ state[j] \in {"failed", "canceled"}
               \/ state[j] = "succeeded" /\ R[j] = "queued"}

\* The rows of ensureSpeechJobTx for the renders S, in the order of Position.
EnsureJobs(S, R) ==
    LET new   == {j \in S : state[j] = "absent"}
        again == Restarted(S, R)
    IN  /\ \A j \in again : epoch[j] < MaxRequeues
        /\ state'   = [j \in Job |-> IF j \in new \cup again THEN "queued" ELSE state[j]]
        /\ attempt' = [j \in Job |-> IF j \in again THEN 0 ELSE attempt[j]]
        /\ due'     = [j \in Job |-> j \in again \/ due[j]]
        /\ epoch'   = [j \in Job |-> IF j \in again THEN epoch[j] + 1 ELSE epoch[j]]
        /\ acked'   = [j \in Job |-> IF j \in again THEN {} ELSE acked[j]]
        /\ older'   = older \cup {e \in Job \X new :
                            \/ state[e[1]] # "absent"
                            \/ e[1] \in new /\ Position[e[1]] < Position[e[2]]}
        /\ ClearLeases(again)
        /\ UNCHANGED <<deps, serial, issued>>

\* EnsureRenderTx and ensureSpeechJobTx for each render of S.
Ensure(S, reactivate) ==
    LET R == EnsuredRender(S, reactivate) IN
    /\ EnsureJobs(S, R)
    /\ render' = R
    /\ UNCHANGED <<ref, held, calls>>

\* A new article queues its narration and reactivates nothing.
CreateArticle(a) ==
    /\ narration[a] = "absent"
    /\ Ensure(Sentences[a], {})
    /\ bound' = bound \cup {a}
    /\ narration' = [narration EXCEPT ![a] = Status(a, bound', render')]

\* Each published paragraph queues the pronunciations of its words.
QueueBlockPronunciations(a) ==
    /\ narration[a] # "absent"
    /\ Words[a] # {}
    /\ Ensure(Words[a], {})
    /\ UNCHANGED <<bound, narration>>

\* "Generate narration": sentences reactivate what was purged, words do not.
QueueArticleAudio(a) ==
    /\ a \in Regenerates /\ narration[a] # "absent"
    /\ Ensure(Sentences[a] \cup Words[a], Sentences[a])
    /\ bound' = bound \cup {a}
    /\ narration' = [narration EXCEPT ![a] = Status(a, bound', render')]

\* Faulty: renders another article is bound to are purged as well.
UnboundByClearAll(a) == Sentences[a]

\* The renders nothing is bound to once the bindings of a are deleted.
UnboundByClear(a) == {j \in Sentences[a] : Bindings(j) = {a}}

\* Bindings go, renders without any other binding become tombstones, lose
\* their audio, and their unfinished jobs are canceled.
ClearNarration(a) ==
    LET gone == IF a \in bound THEN UnboundByClear(a) ELSE {} IN
    /\ narration[a] # "absent"
    /\ IF \E j \in gone : state[j] = "queued" \/ Active(j)
       THEN CancelRows(gone) ELSE UNCHANGED vars
    /\ bound' = bound \ {a}
    /\ ref'    = [j \in Job |-> IF j \in gone THEN NoBlob ELSE ref[j]]
    /\ render' = [j \in Job |-> IF j \in gone THEN "purged" ELSE render[j]]
    /\ narration' = [narration EXCEPT ![a] = "purged"]
    /\ UNCHANGED <<held, calls>>

-----------------------------------------------------------------------------
(* Sweeps of expired leases.                                               *)

\* ReconcileTerminalJobTx for the jobs in S, inside the sweep's transaction.
ReconcileTerminalJobs(S) ==
    /\ render' = [j \in Job |-> IF j \in S /\ render[j] \in Pending
                                THEN "failed" ELSE render[j]]
    /\ narration' = [a \in Article |->
            IF a \in bound /\ Sentences[a] \cap S # {}
            THEN Status(a, bound, render') ELSE narration[a]]

\* The sweep of Lease, of the analysis runner and of the start of the server.
Sweep ==
    /\ RecoverExpired
    /\ ReconcileTerminalJobs({j \in Expired : attempt[j] = MaxAttempts[j]})
    /\ UNCHANGED <<ref, bound, held, calls>>

\* The dictionary and sentence runners sweep with a store of their own.
ForeignSweep ==
    /\ ForeignSweeps
    /\ RecoverExpired
    /\ UNCHANGED <<audioVars, held, calls>>

-----------------------------------------------------------------------------
(* A worker asks for work, reports progress, or gives up.                  *)

\* VerifyLease: the row still names the credential, and its lease is live or
\* its job has ended or is back in the queue under the same owner.
Verified(c) ==
    /\ Matches(c)
    /\ IF Active(c.job) THEN owner[c.job] = c.owner /\ Live(c.job)
       ELSE \/ state[c.job] = "succeeded"
            \/ /\ owner[c.job] = c.owner
               /\ state[c.job] \in {"queued", "failed", "canceled"}

Lease(h, w) ==
    /\ ClaimMatching(w)
    /\ \E c \in issued' \ issued : Begin(h, <<"respond">>, c, NoBlob, FALSE, "older")
    /\ UNCHANGED <<audioVars, held>>

\* leaseResponse reads the render after the claim; rejectMalformedLease fails
\* the render and the job when the render wants no audio any more.
Respond(h) ==
    LET c == calls[h].cred IN
    /\ At(h, "respond")
    /\ IF render[c.job] \in {"queued", "failed", "generating"}
       THEN held' = held \cup {c} /\ Proceed(h)
       ELSE UNCHANGED held /\ Continue(h, <<"mark", "recompute", "fail">>, FALSE)
    /\ UNCHANGED <<vars, audioVars>>

WorkerHeartbeat(c) ==
    /\ c \in held /\ Heartbeat(c)
    /\ UNCHANGED <<audioVars, held, calls>>

\* Service.Fail touches the render only when the worker asks for no retry.
ReportFailure(h, c, retry) ==
    /\ c \in held /\ Verified(c)
    /\ Begin(h, IF retry THEN <<"fail">> ELSE <<"fail", "mark", "recompute">>,
             c, NoBlob, retry, "older")
    /\ UNCHANGED <<vars, audioVars, held>>

-----------------------------------------------------------------------------
(* A worker uploads audio.                                                 *)

\* Service.Complete: the check of the lease returns the row it looked at.
Upload(h, c, d) ==
    /\ "older" \in Protocols
    /\ c \in held /\ Verified(c) /\ state[c.job] # "canceled"
    /\ Begin(h, <<"generate", "prepare", "commit", "recompute">>, c, d, TRUE, "older")
    /\ UNCHANGED <<vars, audioVars, held>>

\* CompleteAilocals reads the row, whoever holds it, and goes on while it is
\* leased or running (an upload for a job that succeeded is only compared) ...
UploadCommon(h, c, d) ==
    /\ "common" \in Protocols
    /\ c \in held /\ Active(c.job)
    /\ Begin(h, <<"verify", "generate", "prepare", "commit", "recompute">>, c, d, TRUE, "common")
    /\ UNCHANGED <<vars, audioVars, held>>

\* ... and checks the lease in a transaction of its own.
VerifyLease(h) ==
    /\ At(h, "verify")
    /\ IF Verified(calls[h].cred) THEN Proceed(h) ELSE Continue(h, <<>>, FALSE)
    /\ UNCHANGED <<vars, audioVars, held>>

\* Faulty: a ready render is rendered again.
SetRenderGeneratingAgain(h) ==
    LET j == calls[h].cred.job IN
    /\ At(h, "generate")
    /\ render' = [render EXCEPT ![j] = IF @ = "purged" THEN @ ELSE "generating"]
    /\ IF render[j] = "purged" THEN Continue(h, <<>>, FALSE) ELSE Proceed(h)
    /\ UNCHANGED <<vars, ref, bound, narration, held>>

\* A purged render ends the request and leaves the job leased.
SetRenderGenerating(h) ==
    LET j == calls[h].cred.job
        open == render[j] \in {"queued", "failed", "generating"}
    IN  /\ At(h, "generate")
        /\ render' = [render EXCEPT ![j] = IF open THEN "generating" ELSE @]
        /\ IF open \/ render[j] = "ready" THEN Proceed(h) ELSE Continue(h, <<>>, FALSE)
        /\ UNCHANGED <<vars, ref, bound, narration, held>>

\* The digest lock: held from a successful PrepareWrite to the end of the commit.
DigestFree(h) ==
    \A g \in Handler \ {h} : At(g, "commit") => calls[g].digest # calls[h].digest

PrepareWrite(h) ==
    /\ At(h, "prepare") /\ DigestFree(h)
    /\ Proceed(h) \/ (DiskFaults /\ GiveUp(h, TRUE))
    /\ UNCHANGED <<vars, audioVars, held>>

\* MarkRenderReadyTx accepts d for j, and leaves the render in state R.
Acceptable(j, d) == \/ ref[j] = d
                    \/ ref[j] = NoBlob /\ render[j] # "ready"

\* Faulty: the render becomes ready without a row of its own for the digest.
AcceptedNoReference(j, d) ==
    /\ UNCHANGED ref
    /\ render' = [render EXCEPT ![j] = "ready"]

\* The insert of the reference is unconditional, the update of the render is not.
Accepted(j, d) ==
    /\ ref' = [ref EXCEPT ![j] = d]
    /\ render' = [render EXCEPT ![j] =
           IF ref[j] = d \/ @ \in {"queued", "generating", "ready"} THEN "ready" ELSE @]

\* CompleteTx finishes the job or repeats an earlier success.
CompletionAccepted(c) ==
    \/ CompletionApplies(c)
    \/ Matches(c) /\ state[c.job] = "succeeded"

\* Faulty: a different digest replaces the accepted one.
CommitPreparedReplaces(h) ==
    LET c == calls[h].cred
        d == calls[h].digest
    IN  /\ At(h, "commit")
        /\ IF CompletionAccepted(c)
           THEN Complete(c) /\ Accepted(c.job, d) /\ Proceed(h)
           ELSE GiveUp(h, TRUE) /\ UNCHANGED <<vars, ref, render>>
        /\ UNCHANGED <<bound, narration, held>>

\* Faulty: the job is finished in a transaction of its own.
CommitPreparedAlone(h) ==
    LET c == calls[h].cred
        d == calls[h].digest
    IN  /\ At(h, "commit")
        /\ \/ Acceptable(c.job, d) /\ Accepted(c.job, d) /\ Proceed(h)
           \/ ~Acceptable(c.job, d) /\ GiveUp(h, FALSE) /\ UNCHANGED <<ref, render>>
        /\ UNCHANGED <<vars, bound, narration, held>>

\* One transaction: reference, render and job, or nothing.  A commit may report
\* a failure and have taken effect, and discarding a duplicate temporary file
\* may fail after it: the handler gives up what is there.
CommitPrepared(h) ==
    LET c == calls[h].cred
        d == calls[h].digest
        accepted == Acceptable(c.job, d) /\ CompletionAccepted(c)
    IN  /\ At(h, "commit")
        /\ \/ /\ accepted /\ Complete(c) /\ Accepted(c.job, d)
              /\ Proceed(h) \/ (DiskFaults /\ GiveUp(h, TRUE))
           \/ /\ ref[c.job] \notin {NoBlob, d}
              /\ GiveUp(h, FALSE) /\ UNCHANGED <<vars, ref, render>>
           \/ /\ DiskFaults \/ (~accepted /\ ref[c.job] \in {NoBlob, d})
              /\ GiveUp(h, TRUE) /\ UNCHANGED <<vars, ref, render>>
        /\ UNCHANGED <<bound, narration, held>>

\* MarkRenderFailed knows nothing of leases.
MarkRenderFailed(h) ==
    /\ At(h, "mark")
    /\ render' = [render EXCEPT ![calls[h].cred.job] = IF @ \in Pending THEN "failed" ELSE @]
    /\ Proceed(h)
    /\ UNCHANGED <<vars, ref, bound, narration, held>>

\* jobs.Fail; only an unknown credential is an error, which ends Service.Fail.
FailJob(h) ==
    LET c == calls[h].cred IN
    /\ At(h, "fail")
    /\ IF FailureApplies(c) THEN Fail(c, calls[h].retry) ELSE UNCHANGED vars
    /\ IF Matches(c) THEN Proceed(h) ELSE Continue(h, <<>>, FALSE)
    /\ UNCHANGED <<audioVars, held>>

\* recomputeRenderArticles lists the bound articles ...
Recompute(h) ==
    LET articles == Bindings(calls[h].cred.job) IN
    /\ At(h, "recompute")
    /\ IF articles = {} THEN Proceed(h)
       ELSE calls' = [calls EXCEPT ![h] = [@ EXCEPT !.steps = <<"status">> \o Rest(h),
                                                    !.articles = articles]]
    /\ UNCHANGED <<vars, audioVars, held>>

\* ... and updates them one transaction at a time.
UpdateStatus(h) ==
    /\ At(h, "status")
    /\ \E a \in calls[h].articles :
          /\ narration' = [narration EXCEPT ![a] = Status(a, bound, render)]
          /\ IF calls[h].articles = {a} THEN Proceed(h)
             ELSE calls' = [calls EXCEPT ![h].articles = @ \ {a}]
    /\ UNCHANGED <<vars, render, ref, bound, held>>

\* Every later statement of the handler fails with its context, or the server
\* stopped: what was committed stays, the rest never happens.
Disconnect(h) ==
    /\ Disconnects
    /\ calls[h] # Idle
    /\ calls' = [calls EXCEPT ![h] = Idle]
    /\ UNCHANGED <<vars, audioVars, held>>

-----------------------------------------------------------------------------

SpeechInit ==
    /\ Init
    /\ render    = [j \in Job |-> "absent"]
    /\ ref       = [j \in Job |-> NoBlob]
    /\ bound     = {}
    /\ narration = [a \in Article |-> "absent"]
    /\ held      = {}
    /\ calls     = [h \in Handler |-> Idle]

\* What a handler does on its own once it began.
HandlerStep(h) ==
    \/ Respond(h) \/ VerifyLease(h)
    \/ SetRenderGenerating(h) \/ PrepareWrite(h) \/ CommitPrepared(h)
    \/ MarkRenderFailed(h) \/ FailJob(h) \/ Recompute(h) \/ UpdateStatus(h)

Request(h) ==
    \/ \E w \in Owner : Lease(h, w)
    \/ \E c \in held : \/ \E retry \in RetryReports : ReportFailure(h, c, retry)
                       \/ \E d \in Digest : Upload(h, c, d) \/ UploadCommon(h, c, d)

\* Scheduler steps that touch no speech row: clocks and a revocation.
SchedulerStep ==
    /\ \/ \E j \in Job : LeaseExpires(j) \/ BackoffElapses(j)
       \/ \E w \in Owner : RevokeLeases(w)
    /\ UNCHANGED <<audioVars, held, calls>>

SpeechNext ==
    \/ \E a \in Article : \/ CreateArticle(a) \/ QueueBlockPronunciations(a)
                          \/ QueueArticleAudio(a) \/ ClearNarration(a)
    \/ \E h \in Handler : Request(h) \/ HandlerStep(h) \/ Disconnect(h)
    \/ \E c \in held : WorkerHeartbeat(c)
    \/ Sweep \/ ForeignSweep \/ SchedulerStep

SpeechSpec == SpeechInit /\ [][SpeechNext]_speechVars

\* Goroutines are scheduled and digest locks are granted; there is always room
\* for one more request, which the bound on Handler takes away, so a request
\* that can begin again and again does begin (strong fairness).  The server
\* sweeps, workers poll, clocks advance.
SpeechFairness ==
    /\ \A h \in Handler : SF_speechVars(HandlerStep(h))
    /\ \A w \in Owner : SF_speechVars(\E h \in Handler : Lease(h, w))
    /\ WF_speechVars(Sweep)
    /\ \A j \in Job : WF_speechVars(/\ LeaseExpires(j) \/ BackoffElapses(j)
                                    /\ UNCHANGED <<audioVars, held, calls>>)

FairSpeechSpec == SpeechSpec /\ SpeechFairness

-----------------------------------------------------------------------------
(* Correctness.                                                            *)

\* What a handler may still have to do: the tails of the plans above.
Plans == {<<>>, <<"respond">>, <<"fail">>, <<"mark", "fail">>,
          <<"status">>, <<"recompute">>, <<"mark", "recompute">>,
          <<"fail", "mark", "recompute">>, <<"status", "fail">>,
          <<"recompute", "fail">>, <<"mark", "recompute", "fail">>,
          <<"commit", "recompute">>, <<"prepare", "commit", "recompute">>,
          <<"generate", "prepare", "commit", "recompute">>, <<"mark">>,
          <<"verify", "generate", "prepare", "commit", "recompute">>}

\* Rows hold the values the schema allows and handlers follow their plans.
SpeechTypeOK ==
    /\ render \in [Job -> {"absent", "queued", "generating", "ready", "failed", "purged"}]
    /\ ref \in [Job -> Digest \cup {NoBlob}]
    /\ bound \subseteq Article
    /\ narration \in [Article -> {"absent", "not_requested", "queued", "partial",
                                  "ready", "failed", "purged"}]
    /\ held \subseteq issued
    /\ calls \in [Handler -> {Idle} \cup Call]
    /\ \A h \in Handler : calls[h].steps \in Plans

\* A reader is never offered audio that is not there: the render is ready only
\* while its blob reference exists (MarkRenderReadyTx, ClearNarration).
ReadyRendersHaveAudio == \A j \in Job : render[j] = "ready" => ref[j] # NoBlob

\* No request of an article or worker shows the owners of synthesis jobs more
\* than WorkLedger allows: ensureSpeechJobTx reopens closed jobs only.
SpeechKeepsLedger == ImplementsLedger

\* An article whose narration is ready plays from the first sentence to the
\* last, although its status was computed in an earlier transaction
\* (recomputeRenderArticles, after the commit).
ReadyNarrationIsPlayable ==
    \A a \in Article : narration[a] = "ready" =>
        a \in bound /\ \A j \in Sentences[a] : render[j] = "ready" /\ ref[j] # NoBlob

\* The first accepted digest of a render stays: later uploads of other bytes
\* are refused (NondeterministicResultError, "accepted render remains immutable").
AcceptedAudioIsImmutable ==
    [][\A j \in Job : ref[j] # NoBlob => ref'[j] \in {ref[j], NoBlob}]_speechVars

\* Audio is given up only by clearing a narration, never a lexical render's,
\* and never while another article is bound to it (ClearNarration).
SharedAudioSurvivesClear ==
    [][\A j \in Job : ref[j] # NoBlob /\ ref'[j] = NoBlob =>
          /\ \A a \in bound' : j \notin Sentences[a]
          /\ \A a \in Article : j \notin Words[a]]_speechVars

\* A job succeeds only while its lease is live, and only in the commit of an
\* upload whose credential the row names at that moment and whose audio is
\* referenced from then on.  Audio appears in no other way, except that an upload
\* repeated under that credential may put back what a clear took away.
PublicationNeedsTheLease ==
    [][\A j \in Job :
          /\ state[j] # "succeeded" /\ state'[j] = "succeeded" => Active(j) /\ Live(j)
          /\ \/ ref[j] = NoBlob /\ ref'[j] # NoBlob
             \/ state[j] # "succeeded" /\ state'[j] = "succeeded"
             => /\ ref'[j] # NoBlob /\ state'[j] = "succeeded"
                /\ \E h \in Handler : /\ At(h, "commit")
                                      /\ calls[h].cred = RowCredential(j)
                                      /\ calls[h].digest = ref'[j]]_speechVars

\* When the synthesis job failed for good and no request is at work on it, its
\* render says so, and the reader's "waiting" state ends (ReconcileTerminalJobTx,
\* Service.Fail, completeSpeech).
FailedJobsFailTheirRenders ==
    \A j \in Job : state[j] = "failed" /\ Quiet(j) => render[j] \notin Pending

\* The synthesis of a render some worker can run comes to an end, however often
\* a lease is lost, a request is cut off, a worker fails or the owner asks
\* again (ensureSpeechJobTx, RecoverExpired, Lease).
EverySynthesisEnds ==
    \A j \in Job : (\E w \in Owner : JobType[j] \in Serves[w]) =>
        (state[j] = "queued" \/ Active(j)) ~> state[j] \in TerminalStates

\* A job succeeds together with its render: the blob, the reference, the render
\* and the job outcome are committed atomically (ARCHITECTURE.md).
SuccessMakesTheRenderReady ==
    [][\A j \in Job : state[j] # "succeeded" /\ state'[j] = "succeeded"
                         => render'[j] = "ready"]_speechVars

=============================================================================
