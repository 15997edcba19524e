------------------------------ MODULE Analysis ------------------------------
(***************************************************************************)
(* The analysis of an article: the pipeline runner (internal/analysis/     *)
(* pipeline_runner.go), the article, paragraph and run rows it writes      *)
(* (internal/reader, internal/analysis/history.go), and the requests and   *)
(* restarts that interleave with it.                                       *)
(*                                                                         *)
(* The server runs one pipeline goroutine.  It leases a job, then takes    *)
(* one transaction after another; between any two of them a request may    *)
(* supersede its job, its lease may run out and be swept, its heartbeat    *)
(* goroutine may give the run up, and the process may die.                 *)
(***************************************************************************)
EXTENDS Jobs

CONSTANTS
    Article,        \* articles; OwnerId says whose analysis a job is
    Normal,         \* the job of an article's stored profile and content hash;
                    \* its other jobs are forced requests, each with a fresh key
    Blocks,         \* number of paragraphs of an article
    Suspends,       \* whether a lease may run out under a living holder
    Malformed,      \* jobs whose stored payload the runner may not accept
    MaxCrashes      \* bound: crashes of the server

ASSUME AnalysisAssumption ==
    /\ None \notin Job
    /\ OwnerId \in [Job -> Article]
    /\ Normal \in [Article -> Job]
    /\ \A a \in Article : OwnerId[Normal[a]] = a
    /\ Blocks \in Nat \ {0}
    /\ Suspends \in BOOLEAN
    /\ Malformed \subseteq Job
    /\ MaxCrashes \in Nat

VARIABLES
    article,    \* article.analysis_status
    active,     \* article.analysis_job_id, which its paragraphs repeat
    block,      \* article_block.analysis_status of each paragraph
    published,  \* article_block.published_analysis_job_id
    run,        \* analysis_run.status of each attempt of a job
    at,         \* what the runner does next
    lease,      \* the credential it works under
    here,       \* the paragraph it is at
    gone,       \* its heartbeat goroutine found the job canceled or lost
    crashes

rows         == <<article, active, block, published, run>>
runner       == <<at, lease, here, gone>>
analysisVars == <<vars, rows, runner, crashes>>

Paragraph == 1..Blocks
Attempt   == 1..3

\* A run is open from StartRun until process returns.
Working == {"own", "mark", "stage", "failing", "owned", "publish", "beat", "audit",
            "finish", "lost", "failblock", "failrun", "failarticle"}
           \cup {"ready", "verified"}
Steps   == {"down", "sweep", "reconcile", "claim", "start", "reset", "open", "complete",
            "fail", "preflight", "preflightblock"} \cup Working

Served == OwnerId[lease.job]

\* The job the runner works for is the article's active job.
Current == active[Served] = lease.job

\* checkOwnership: the heartbeat goroutine has not given up, and VerifyLease
\* finds the lease live.
Owned == /\ ~gone
         /\ Matches(lease) /\ Active(lease.job) /\ Live(lease.job)
         /\ owner[lease.job] = lease.owner

LastAttempt == lease.attempt = MaxAttempts[lease.job]

SetBlock(b, status) == block' = [block EXCEPT ![Served][b] = status]
SetArticle(status)  == article' = [article EXCEPT ![Served] = status]
SetRun(status)      == run' = [run EXCEPT ![lease.job][lease.attempt] = status]
Go(step)            == at' = step /\ UNCHANGED <<lease, here, gone, crashes>>

AnalysisInit ==
    /\ Init
    /\ article   = [a \in Article |-> "absent"]
    /\ active    = [a \in Article |-> None]
    /\ block     = [a \in Article |-> [b \in Paragraph |-> "pending"]]
    /\ published = [a \in Article |-> [b \in Paragraph |-> None]]
    /\ run       = [j \in Job |-> [n \in Attempt |-> "none"]]
    /\ at = "sweep" /\ lease = None /\ here = 0 /\ gone = FALSE
    /\ crashes = 0

-----------------------------------------------------------------------------
(* Requests.                                                               *)

\* activateJobTx: j becomes the active job and every paragraph is pending.
Activate(a, j) ==
    /\ active' = [active EXCEPT ![a] = j]
    /\ block'  = [block EXCEPT ![a] = [b \in Paragraph |-> "pending"]]

\* A new article queues its analysis.
CreateArticle(a) ==
    /\ at # "down"
    /\ article[a] = "absent"
    /\ Enqueue(Normal[a])
    /\ article' = [article EXCEPT ![a] = "queued"]
    /\ Activate(a, Normal[a])
    /\ UNCHANGED <<published, run, runner, crashes>>

\* Without a usable profile it is stored as failed, without a job.
CreateArticleUnavailable(a) ==
    /\ at # "down"
    /\ article[a] = "absent"
    /\ article' = [article EXCEPT ![a] = "failed"]
    /\ block'   = [block EXCEPT ![a][1] = "failed"]
    /\ UNCHANGED <<vars, active, published, run, runner, crashes>>

\* CancelOwnerJobsTx and EnqueueTx in one transaction: the unfinished jobs S
\* are canceled, and j is inserted unless its row exists already.
Supersede(S, j) ==
    /\ state' = [i \in Job |-> IF i \in S THEN "canceled"
                               ELSE IF i = j /\ state[i] = "absent" THEN "queued"
                               ELSE state[i]]
    /\ older' = IF state[j] = "absent"
                THEN older \cup {<<i, j>> : i \in {k \in Job : state[k] # "absent"}}
                ELSE older
    /\ ClearLeases({i \in S : state[i] = "queued"})
    /\ UNCHANGED <<attempt, due, deps, serial, epoch, issued, acked>>

\* Faulty: a forced request leaves the older jobs alone.
UnfinishedNone(a) == {}

Unfinished(a) == {i \in Job : OwnerId[i] = a /\ (state[i] = "queued" \/ Active(i))}

\* POST /reanalyze: always a job of its own; POST /enrich: the job of the
\* stored profile, unless the analysis is already on its way.
QueueAnalysis(a, j) ==
    LET force == j # Normal[a] IN
    /\ at # "down"
    /\ OwnerId[j] = a
    /\ article[a] # "absent"
    /\ IF force THEN state[j] = "absent" ELSE article[a] \notin {"queued", "processing"}
    /\ Supersede(IF force THEN Unfinished(a) ELSE {}, j)
    /\ article' = [article EXCEPT ![a] = "queued"]
    /\ Activate(a, j)
    /\ UNCHANGED <<published, run, runner, crashes>>

-----------------------------------------------------------------------------
(* The runner looks for work.                                              *)

Recovered == IF Expired = {} /\ Doomed(state) = {} THEN UNCHANGED vars ELSE RecoverExpired

RunnerSweep == at = "sweep" /\ Recovered /\ Go("reconcile") /\ UNCHANGED rows

\* Runs of jobs that ended without them are closed.
CloseAbandonedRuns ==
    run' = [j \in Job |-> [n \in Attempt |->
        IF run[j][n] = "running" /\ state[j] \in TerminalStates THEN "failed"
        ELSE run[j][n]]]

ReconcileTerminalJobRuns ==
    /\ at = "reconcile"
    /\ CloseAbandonedRuns
    /\ Go("claim")
    /\ UNCHANGED <<vars, article, active, block, published>>

\* The dictionary and sentence runners do so too, in the middle of a run.
ReconcileElsewhere ==
    /\ at # "down"
    /\ CloseAbandonedRuns
    /\ UNCHANGED <<vars, article, active, block, published, runner, crashes>>

ClaimWork ==
    /\ at = "claim"
    /\ \/ \E w \in Owner : ClaimMatching(w)
          /\ \E c \in issued' \ issued : lease' = c
          /\ at' = "start"
       \/ /\ Claimable(state) = {}
          /\ at' = "sweep"
          /\ UNCHANGED <<vars, lease>>
    /\ UNCHANGED <<rows, here, gone, crashes>>

-----------------------------------------------------------------------------
(* Failing.                                                                *)

\* failJob: the job may be retried while it has attempts left.  A credential
\* that no longer matches changes nothing.
FailLease == IF FailureApplies(lease) THEN Fail(lease, ~LastAttempt) ELSE UNCHANGED vars

\* The process function returns; its heartbeat goroutine stops.
Return == /\ at' = "sweep" /\ lease' = None /\ here' = 0 /\ gone' = FALSE
          /\ UNCHANGED crashes

FailJob == at = "fail" /\ FailLease /\ Return /\ UNCHANGED rows

\* A payload that cannot be decoded, or is for another text, ends the job for
\* good; the article is not looked at.
RejectPayload ==
    /\ at = "start" /\ lease.job \in Malformed
    /\ IF FailureApplies(lease) THEN Fail(lease, FALSE) ELSE UNCHANGED vars
    /\ Return
    /\ UNCHANGED rows

\* A provider, prompt or source is not what the job was queued with.
PreflightFail ==
    /\ at = "start"
    /\ FailLease
    /\ IF LastAttempt THEN Go("preflight") ELSE Return
    /\ UNCHANGED rows

\* When that ended the job, the article fails with it, ...
PreflightFailArticle ==
    /\ at = "preflight"
    /\ IF state[lease.job] = "failed" /\ Current
       THEN SetArticle("failed") /\ Go("preflightblock")
       ELSE UNCHANGED article /\ Return
    /\ UNCHANGED <<vars, active, block, published, run>>

\* ... and so does its first paragraph still pending.
PreflightFailBlock ==
    /\ at = "preflightblock"
    /\ \/ \E b \in Paragraph :
              /\ Current /\ block[Served][b] = "pending"
              /\ \A c \in 1..(b - 1) : block[Served][c] # "pending"
              /\ SetBlock(b, "failed")
       \/ /\ Current => \A b \in Paragraph : block[Served][b] # "pending"
          /\ UNCHANGED block
    /\ Return
    /\ UNCHANGED <<vars, article, active, published, run>>

\* leaseLostPath: the run and the job end, the article is not touched.
LeaseLost ==
    /\ at = "lost"
    /\ SetRun("failed")
    /\ Go("fail")
    /\ UNCHANGED <<vars, article, active, block, published>>

\* failRun: the paragraph, the run and the article fail before the job does.
FailBlock ==
    /\ at = "failblock"
    /\ IF here \in Paragraph /\ Current THEN SetBlock(here, "failed") ELSE UNCHANGED block
    /\ Go("failrun")
    /\ UNCHANGED <<vars, article, active, published, run>>

FinishFailedRun ==
    /\ at = "failrun"
    /\ SetRun("failed")
    /\ Go("failarticle")
    /\ UNCHANGED <<vars, article, active, block, published>>

FailArticle ==
    /\ at = "failarticle"
    /\ IF Current THEN SetArticle("failed") ELSE UNCHANGED article
    /\ Go("fail")
    /\ UNCHANGED <<vars, active, block, published, run>>

-----------------------------------------------------------------------------
(* Working through an article.                                             *)

\* MarkAnalysisProcessing: not while it is processing or ready.
Waiting(a) == article[a] \in {"queued", "failed"}

StartAnalysis ==
    /\ at = "start"
    /\ IF Current /\ Waiting(Served)
       THEN SetArticle("processing") /\ Go("reset")
       ELSE UNCHANGED article /\ Go("fail")
    /\ UNCHANGED <<vars, active, block, published, run>>

ResetBlocks ==
    /\ at = "reset"
    /\ block' = [block EXCEPT ![Served] =
                    IF Current THEN [b \in Paragraph |-> "pending"] ELSE @]
    /\ Go("open")
    /\ UNCHANGED <<vars, article, active, published, run>>

StartRun ==
    /\ at = "open"
    /\ SetRun("running")
    /\ at' = "own" /\ here' = 1
    /\ UNCHANGED <<vars, article, active, block, published, lease, gone, crashes>>

\* checkOwnership, before a paragraph, after its stages and before the end.
CheckOwnership ==
    /\ \/ at = "own"      /\ Go(IF Owned THEN "mark" ELSE "lost")
       \/ at = "failing"  /\ Go(IF Owned THEN "failblock" ELSE "lost")
       \/ at = "owned"    /\ Go(IF Owned THEN "publish" ELSE "lost")
       \/ at = "verified" /\ Go(IF Owned THEN "ready" ELSE "lost")
    /\ UNCHANGED <<vars, rows>>

MarkBlockProcessing ==
    /\ at = "mark"
    /\ IF Current /\ block[Served][here] = "pending"
       THEN SetBlock(here, "processing") /\ Go("stage")
       ELSE UNCHANGED block /\ Go("failblock")
    /\ UNCHANGED <<vars, article, active, published, run>>

\* The two stages of a paragraph end in a valid result or in an error; an
\* error around them fails the run without looking at the lease.
RunStages ==
    /\ at = "stage"
    /\ \E outcome \in {"owned", "failing", "failblock"} : Go(outcome)
    /\ UNCHANGED <<vars, rows>>

\* Faulty: the active job is not looked at.
PublishableByAnyone(b) == block[Served][b] \in {"pending", "processing"}

Publishable(b) == Current /\ block[Served][b] \in {"pending", "processing"}

\* PersistAnalysisChunk: paragraph, occurrences and provenance in one
\* transaction; the rows may turn out not to be valid.
Publish ==
    /\ at = "publish"
    /\ \/ /\ Publishable(here)
          /\ SetBlock(here, "ready")
          /\ published' = [published EXCEPT ![Served][here] = lease.job]
          /\ Go("beat")
       \/ Go("failblock") /\ UNCHANGED <<block, published>>
    /\ UNCHANGED <<vars, article, active, run>>

NextParagraph ==
    IF here < Blocks THEN at' = "own" /\ here' = here + 1
    ELSE at' = "audit" /\ here' = Blocks + 1

\* The heartbeat of a live lease renews it; a canceled or failed job only
\* says so, which this caller does not look at.
Beats == Matches(lease) /\ Active(lease.job) /\ Live(lease.job)
Renew == state' = [state EXCEPT ![lease.job] = "running"]
         /\ UNCHANGED <<leaseVars, due, older, deps, serial, epoch, issued, acked>>

HeartbeatParagraph ==
    /\ at = "beat"
    /\ \/ Beats /\ Renew /\ NextParagraph
       \/ Matches(lease) /\ state[lease.job] \in TerminalStates
          /\ UNCHANGED vars /\ NextParagraph
       \/ ~Beats /\ ~(Matches(lease) /\ state[lease.job] \in TerminalStates)
          /\ at' = "lost" /\ UNCHANGED <<vars, here>>
    /\ UNCHANGED <<rows, lease, gone, crashes>>

\* MergeChunks audits the whole response.
Audit ==
    /\ at = "audit"
    /\ \E outcome \in {"verified", "failblock"} : Go(outcome)
    /\ UNCHANGED <<vars, rows>>

MarkAnalysisReady ==
    /\ at = "ready"
    /\ IF Current THEN SetArticle("ready") /\ Go("finish")
       ELSE UNCHANGED article /\ Go("failblock")
    /\ UNCHANGED <<vars, active, block, published, run>>

FinishRun ==
    /\ at = "finish"
    /\ SetRun("succeeded")
    /\ Go("complete")
    /\ UNCHANGED <<vars, article, active, block, published>>

CompleteJob ==
    /\ at = "complete"
    /\ IF CompletionApplies(lease) THEN Complete(lease) ELSE UNCHANGED vars
    /\ Return
    /\ UNCHANGED rows

\* The heartbeat goroutine renews the lease, or gives the run up: the job is
\* canceled, the lease lost, or the database did not answer.
HeartbeatGoroutine ==
    /\ at \in Working /\ ~gone
    /\ \/ Beats /\ state[lease.job] = "leased" /\ Renew /\ UNCHANGED gone
       \/ gone' = TRUE /\ UNCHANGED vars
    /\ UNCHANGED <<rows, at, lease, here, crashes>>

-----------------------------------------------------------------------------
(* The other sweeps, crashes, time.                                        *)

\* Workers and the other runners sweep whenever they ask for work.
Sweep == at # "down" /\ RecoverExpired /\ UNCHANGED <<rows, runner, crashes>>

Crash ==
    /\ at # "down" /\ crashes < MaxCrashes
    /\ at' = "down" /\ lease' = None /\ here' = 0 /\ gone' = FALSE
    /\ crashes' = crashes + 1
    /\ UNCHANGED <<vars, rows>>

\* Faulty: open runs are left for the first reconciliation.
RecoverInterruptedRowsOnly ==
    /\ article' = [a \in Article |-> IF article[a] = "processing" THEN "queued" ELSE article[a]]
    /\ block' = [a \in Article |-> [b \in Paragraph |->
                    IF block[a][b] = "processing" THEN "failed" ELSE block[a][b]]]
    /\ UNCHANGED run

RecoverInterrupted ==
    /\ article' = [a \in Article |-> IF article[a] = "processing" THEN "queued" ELSE article[a]]
    /\ block' = [a \in Article |-> [b \in Paragraph |->
                    IF block[a][b] = "processing" THEN "failed" ELSE block[a][b]]]
    /\ run' = [j \in Job |-> [n \in Attempt |->
                    IF run[j][n] = "running" THEN "failed" ELSE run[j][n]]]

\* The start of the server sweeps, then puts interrupted rows back, before
\* anything else runs; a lease its predecessor held stays until it expires.
Restart ==
    /\ at = "down"
    /\ Recovered
    /\ RecoverInterrupted
    /\ Go("sweep")
    /\ UNCHANGED <<active, published>>

Held(j) == at # "down" /\ lease # None /\ lease.job = j

Time(j) ==
    /\ \/ LeaseExpires(j) /\ (Suspends \/ ~Held(j))
       \/ BackoffElapses(j)
    /\ UNCHANGED <<rows, runner, crashes>>

RunnerStep ==
    \/ RunnerSweep \/ ReconcileTerminalJobRuns \/ ClaimWork
    \/ RejectPayload \/ PreflightFail \/ PreflightFailArticle \/ PreflightFailBlock
    \/ StartAnalysis \/ ResetBlocks \/ StartRun \/ CheckOwnership
    \/ MarkBlockProcessing \/ RunStages \/ Publish \/ HeartbeatParagraph
    \/ Audit \/ MarkAnalysisReady \/ FinishRun \/ CompleteJob
    \/ LeaseLost \/ FailBlock \/ FinishFailedRun \/ FailArticle \/ FailJob
    \/ Restart

AnalysisNext ==
    \/ \E a \in Article : \/ CreateArticle(a) \/ CreateArticleUnavailable(a)
                          \/ \E j \in Job : QueueAnalysis(a, j)
    \/ RunnerStep
    \/ HeartbeatGoroutine
    \/ Sweep \/ ReconcileElsewhere
    \/ Crash
    \/ \E j \in Job : Time(j)

AnalysisSpec == AnalysisInit /\ [][AnalysisNext]_analysisVars

\* The goroutine runs and the server is started again after a crash; clocks
\* advance.  No request is ever obliged to come.
AnalysisFairness ==
    /\ WF_analysisVars(RunnerStep)
    /\ \A j \in Job : WF_analysisVars(Time(j))

FairAnalysisSpec == AnalysisSpec /\ AnalysisFairness

-----------------------------------------------------------------------------
(* Correctness.                                                            *)

\* What a reader is shown belongs together, although paragraphs are published
\* one by one and MarkAnalysisReady looks at the article only: a ready article
\* has every paragraph ready, and a paragraph shown as ready is what the ACTIVE
\* job published, also when the runner of the job it superseded was past its
\* last look at the lease (activateJobTx: "a force/fresh request therefore
\* cannot publish a late paragraph through an old job id").
ReadyArticlesAreComplete ==
    \A a \in Article, b \in Paragraph :
        /\ article[a] = "ready" => block[a][b] = "ready"
        /\ block[a][b] = "ready" => published[a][b] = active[a]

\* The diagnostics tell the truth: a run shown as running is the one the runner
\* is at, or the server is down (leaseLostPath, failRun, RecoverInterrupted).
OpenRunsAreWorkedOn ==
    \A j \in Job, n \in Attempt : run[j][n] = "running" =>
        at = "down" \/ (at \in Working /\ lease.job = j /\ lease.attempt = n)

\* An analysis job succeeds only while its article shows, in every paragraph,
\* what that job published, and no newer forced request has taken the article
\* over: a job superseded in its last moments does not succeed
\* (CancelOwnerJobsTx, Complete).
SuccessMeansPublished ==
    [][\A j \in Job : state[j] # "succeeded" /\ state'[j] = "succeeded" =>
          LET a == OwnerId[j] IN
          /\ active[a] = Normal[a] \/ <<j, active[a]>> \notin older
          /\ \A b \in Paragraph : published[a][b] = j]_analysisVars

\* An article that says queued has a job that can still run, or the runner is
\* about to fail it with its job (preflightFail); stated for jobs whose payload
\* is in order.
QueuedArticlesHaveWork ==
    \A a \in Article : article[a] = "queued" =>
        \/ \E j \in Job : active[a] = j /\ state[j] \notin TerminalStates
        \/ lease # None /\ lease.job = active[a]
=============================================================================
