---------------------------- MODULE Translation ----------------------------
(***************************************************************************)
(* The translation of a sentence on demand (internal/sentencetranslation/  *)
(* service.go, runner.go).  Ensure opens the history run BEFORE there is a *)
(* job, claims the sentence by moving last_run_id to it, resolves the      *)
(* provider and only then enqueues.  A run is named by its request, like   *)
(* the job.  What the runner does differently from Generation is here.     *)
(***************************************************************************)
EXTENDS Generation

VARIABLES
    lastRun,    \* last_run_id of the sentence
    former,     \* the status of a request's run, once a replacement was opened
    row,        \* the sentence's row: absent or present
    step,       \* where Ensure is
    sawRun,     \* last_run_id phase 1 read
    sawJob,     \* last_job_id phase 1 read
    aged        \* the run was opened more than orphanRunMaxAge ago

runRows == <<lastRun, former>>
ensureVars == <<step, sawRun, sawJob, aged>>
sentenceVars == <<genVars, runRows, row, ensureVars>>

SentenceInit ==
    /\ GenInit
    /\ lastRun = [s \in Subject |-> None]
    /\ former  = [r \in GenJob |-> "none"]
    /\ row     = [s \in Subject |-> "absent"]
    /\ step    = [r \in GenJob |-> "idle"]
    /\ sawRun  = [r \in GenJob |-> None]
    /\ sawJob  = [r \in GenJob |-> None]
    /\ aged    = [r \in GenJob |-> FALSE]

Steps(r, p) == step' = [step EXCEPT ![r] = p]

\* Ensure keeps what it read until it answers.
Sees(r, run, j) == sawRun' = [sawRun EXCEPT ![r] = run] /\ sawJob' = [sawJob EXCEPT ![r] = j]
Answers(r) == Steps(r, "answered") /\ Sees(r, None, None)
KeepsReading(r, p) == Steps(r, p) /\ UNCHANGED <<sawRun, sawJob>>

JobOpen(j) == j # None /\ Open(j)

\* What last_run_id points at: the run a request opened, or the one its runner
\* opened in its place, which is the run runOf is about from then on.
Run(r)         == [of |-> r, replaces |-> FALSE]
Replacement(r) == [of |-> r, replaces |-> TRUE]
StatusOf(run)  == IF ~run.replaces /\ former[run.of] # "none" THEN former[run.of]
                  ELSE runOf[run.of]
RunIs(run, status) == run # None /\ StatusOf(run) = status
Readable(s) == row[s] = "present" /\ saved[s] # None

SentenceJob(s) == IF lastJob[s] = None THEN "none" ELSE state[lastJob[s]]

\* renderEnvelope.  A saved translation stays readable; a run without a job is
\* on its way to one.
SentenceStatus(s) ==
    IF Readable(s) THEN "ready"
    ELSE IF SentenceJob(s) = "queued" THEN "queued"
    ELSE IF SentenceJob(s) \in ActiveStates THEN "running"
    ELSE IF RunIs(lastRun[s], "running") THEN "queued"
    ELSE IF RunIs(lastRun[s], "failed") \/ SentenceJob(s) \in {"failed", "canceled"} THEN "failed"
    ELSE "missing"

SentenceWaits(s) ==
    \/ SentenceStatus(s) \in {"queued", "running"}
    \/ Readable(s) /\ (JobOpen(lastJob[s]) \/ RunIs(lastRun[s], "running"))

\* settledState of the pointers in c: nothing new is needed, or somebody is at
\* it, or it failed and nobody asked for a replacement.
Settled(s, j, run, regenerate) ==
    \/ Readable(s) /\ ~regenerate
    \/ JobOpen(j) \/ RunIs(run, "running")
    \/ ~regenerate /\ RunIs(run, "failed")
    \/ ~regenerate /\ j # None /\ state[j] \in {"failed", "canceled"}

-----------------------------------------------------------------------------
(* Ensure.                                                                 *)

\* Phase 1: the row exists from now on; its pointers are read.
Inspect(r) ==
    LET s == OwnerId[r] IN
    /\ step[r] = "idle"
    /\ row' = [row EXCEPT ![s] = "present"]
    /\ Sees(r, lastRun[s], lastJob[s])
    /\ Steps(r, "settle")
    /\ UNCHANGED <<genVars, runRows, aged>>

\* refreshClaim reads the statuses again, outside; StartRun inserts a row
\* nobody else can see yet.
OpenRun(r) ==
    LET s == OwnerId[r] IN
    /\ step[r] = "settle"
    /\ IF Settled(s, sawJob[r], sawRun[r], r \in Regenerate)
       THEN Answers(r) /\ UNCHANGED runOf
       ELSE KeepsReading(r, "claim") /\ EndRun(r, "running")
    /\ UNCHANGED <<vars, saved, lastJob, runJob, genRunner, deaths, runRows, row, aged>>

\* Phase 2: the compare-and-set of last_run_id.  A lost race is followed by
\* finishing the run that lost.
ClaimRun(r) ==
    LET s == OwnerId[r] IN
    /\ step[r] = "claim"
    /\ IF row[s] = "present" /\ lastRun[s] = sawRun[r]
       THEN lastRun' = [lastRun EXCEPT ![s] = Run(r)] /\ KeepsReading(r, "resolve")
       ELSE KeepsReading(r, "drop") /\ UNCHANGED lastRun
    /\ UNCHANGED <<genVars, former, row, aged>>

\* FinishRun of a superseded claim, or failClaim after the provider was refused.
DropRun(r) ==
    /\ step[r] \in {"drop", "resolve"}
    /\ EndRun(r, "failed")
    /\ Answers(r)
    /\ UNCHANGED <<vars, saved, lastJob, runJob, genRunner, deaths, runRows, row, aged>>

\* The claim of phase 2 holds, and nothing was settled since.
StillMine(r) ==
    LET s == OwnerId[r] IN
    /\ lastRun[s] = Run(r) /\ row[s] = "present" /\ runOf[r] = "running"
    /\ Readable(s) => r \in Regenerate
    /\ ~JobOpen(lastJob[s])

\* setLastJobTx
MoveLastJob(s, previous, j) ==
    lastJob[s] = previous /\ lastJob' = [lastJob EXCEPT ![s] = j]

\* Phase 3.  A claim another request or the orphan sweep took away ends the
\* run in the same transaction, unless it has ended already.
EnqueueSentence(r) ==
    LET s == OwnerId[r] IN
    /\ step[r] = "resolve"
    /\ IF StillMine(r)
       THEN /\ Enqueue(r)
            /\ MoveLastJob(s, lastJob[s], r)
            /\ runJob' = [runJob EXCEPT ![r] = TRUE]
            /\ UNCHANGED runOf
       ELSE EndRun(r, "failed") /\ UNCHANGED <<vars, lastJob, runJob>>
    /\ Answers(r)
    /\ UNCHANGED <<saved, genRunner, deaths, runRows, row, aged>>

\* The reader leaves: whatever statement comes next fails and nothing closes
\* the run.
EnsureCanceled(r) ==
    /\ step[r] \in {"settle", "claim", "resolve", "drop"}
    /\ Answers(r)
    /\ UNCHANGED <<genVars, runRows, row, aged>>

-----------------------------------------------------------------------------
(* The runner, and what happens to runs and sentences.                     *)

\* Faulty: claims that never got a job are kept.
KeepOrphanRuns == UNCHANGED runOf

\* Runs without a job that are older than five minutes.
ReconcileOrphanRuns ==
    runOf' = [r \in GenJob |-> IF runOf[r] = "running" /\ ~runJob[r] /\ aged[r]
                               THEN "failed" ELSE runOf[r]]

\* The runs of terminal jobs, also those that were replaced.
ReconcileSentenceRuns ==
    /\ ReconcileTerminalJobRuns
    /\ former' = [r \in GenJob |-> IF former[r] = "running" /\ state[r] \in TerminalStates
                                  THEN "failed" ELSE former[r]]

SentenceReconciles(k) ==
    /\ stage[k] = "reconcile"
    /\ ReconcileSentenceRuns
    /\ Goto(k, "orphans")
    /\ UNCHANGED <<vars, saved, lastJob, runJob, held, lost, deaths, lastRun, row, ensureVars>>

SentencesReconciledElsewhere ==
    /\ ReconcileSentenceRuns
    /\ <<runOf, former>>' # <<runOf, former>>
    /\ UNCHANGED <<vars, saved, lastJob, runJob, genRunner, deaths, lastRun, row, ensureVars>>

SentenceOrphans(k) ==
    /\ stage[k] = "orphans"
    /\ ReconcileOrphanRuns
    /\ Goto(k, "claim")
    /\ UNCHANGED <<vars, saved, lastJob, runJob, held, lost, deaths, runRows, row, ensureVars>>

\* The run of the payload is used as it is; an ended one means the request was
\* superseded.
SentenceStarts(k) ==
    /\ stage[k] = "start"
    /\ \/ runOf[held[k].job] = "running" /\ Goto(k, "preflight")
       \/ Goto(k, "fail")
    /\ UNCHANGED <<vars, genRows, held, lost, deaths, runRows, row, ensureVars>>

\* A run the database does not return is replaced by one with the job set, ...
OpensReplacement(k) ==
    LET j == held[k].job IN
    /\ stage[k] = "start"
    /\ former' = [former EXCEPT ![j] = runOf[j]]
    /\ EndRun(j, "running")
    /\ Goto(k, "point")
    /\ UNCHANGED <<vars, saved, lastJob, runJob, held, lost, deaths, lastRun, row, ensureVars>>

\* ... and SetLastRun moves last_run_id to it, from whatever run is there by
\* then, or fails and leaves the replacement open.
PointsAtReplacement(k) ==
    LET j == held[k].job IN
    /\ stage[k] = "point"
    /\ \/ lastRun' = [lastRun EXCEPT ![OwnerId[j]] = Replacement(j)] /\ Goto(k, "preflight")
       \/ UNCHANGED lastRun /\ Goto(k, "fail")
    /\ UNCHANGED <<vars, genRows, held, lost, deaths, former, row, ensureVars>>

\* The anchor is the one of the payload: no production code changes or deletes
\* the sentences of a stored article, so only the row is looked at.
verifyPublishAnchor(s) == row[s] = "present"

SentencePublishes(k) ==
    /\ PublishResult(k, verifyPublishAnchor(OwnerId[held[k].job]))
    /\ UNCHANGED <<runRows, row, ensureVars>>

SentenceRun(k) ==
    \/ SentenceReconciles(k) \/ SentenceOrphans(k) \/ SentenceStarts(k)
    \/ OpensReplacement(k) \/ PointsAtReplacement(k) \/ SentencePublishes(k)
    \/ /\ SweepJobs(k) \/ ClaimJob(k) \/ Preflight(k) \/ Generate(k) \/ FailJob(k)
       /\ UNCHANGED <<runRows, row, ensureVars>>

RunAges(r) ==
    /\ runOf[r] = "running" /\ ~aged[r]
    /\ aged' = [aged EXCEPT ![r] = TRUE]
    /\ UNCHANGED <<genVars, runRows, row, step, sawRun, sawJob>>

SentenceCrash ==
    /\ Die
    /\ step' = [r \in GenJob |-> IF step[r] = "idle" THEN "idle" ELSE "answered"]
    /\ sawRun' = [r \in GenJob |-> None] /\ sawJob' = [r \in GenJob |-> None]
    /\ UNCHANGED <<runRows, row, aged>>

SentenceNext ==
    \/ \E r \in GenJob : \/ Inspect(r) \/ OpenRun(r) \/ ClaimRun(r) \/ DropRun(r)
                         \/ EnqueueSentence(r) \/ EnsureCanceled(r) \/ RunAges(r)
    \/ \E k \in Kind : \/ SentenceRun(k)
                       \/ Beat(k) /\ UNCHANGED <<runRows, row, ensureVars>>
    \/ GenTime /\ UNCHANGED <<runRows, row, ensureVars>>
    \/ SentencesReconciledElsewhere
    \/ SentenceCrash

SentenceLeaseEnds(r) ==
    /\ Abandoned(r) /\ LeaseExpires(r)
    /\ UNCHANGED <<genRows, genRunner, deaths, runRows, row, ensureVars>>

SentenceSpec == SentenceInit /\ [][SentenceNext]_sentenceVars
=============================================================================
