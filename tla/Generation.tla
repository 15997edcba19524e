----------------------------- MODULE Generation -----------------------------
(***************************************************************************)
(* Generation on demand: a reader asks for the dictionary entry of a form  *)
(* or the translation of a sentence, the server enqueues a job of one      *)
(* attempt, and a runner goroutine of that kind generates and publishes.   *)
(* This module is the runner (internal/dictionary/runner.go, which         *)
(* internal/sentencetranslation/runner.go repeats but for what Translation *)
(* adds) with the history rows and the saved results; Dictionary and       *)
(* Translation are the requests.                                           *)
(*                                                                         *)
(* Every request that enqueues makes a job of its own, so a job is named   *)
(* by its request.  Each statement or transaction is one step.             *)
(***************************************************************************)
EXTENDS Jobs

CONSTANTS
    Kind,           \* the runners, each the owner of the leases it takes
    GenJob,         \* requests, and the job each may enqueue
    Subject,        \* dictionary entries and sentences; OwnerId of a job
    Regenerate,     \* the requests that ask for a replacement
    MaxDeaths       \* bound: crashes of the server

ASSUME GenerationAssumption ==
    /\ Kind \subseteq Owner \ CapabilityOwner
    /\ GenJob \subseteq Job
    /\ \A j \in GenJob : OwnerId[j] \in Subject
    /\ \A j \in GenJob : MaxAttempts[j] = 1
    /\ None \notin GenJob
    /\ MaxDeaths \in Nat

VARIABLES
    saved,      \* the job whose result the subject's row holds
    lastJob,    \* last_job_id of the subject
    runOf,      \* analysis_run.status of the run opened for a job
    runJob,     \* the run's job_id is set
    stage,      \* what the runner does next
    held,       \* the credential it works under
    lost,       \* its heartbeat goroutine found the lease lost
    deaths

genRows   == <<saved, lastJob, runOf, runJob>>
genRunner == <<stage, held, lost>>
genVars   == <<vars, genRows, genRunner, deaths>>

InFlight == {"start", "point", "preflight", "generate", "publish", "fail"}
Stages   == {"sweep", "reconcile", "orphans", "claim"} \cup InFlight

GenInit ==
    /\ Init
    /\ saved   = [s \in Subject |-> None]
    /\ lastJob = [s \in Subject |-> None]
    /\ runOf   = [j \in GenJob |-> "none"]
    /\ runJob  = [j \in GenJob |-> FALSE]
    /\ stage   = [k \in Kind |-> "sweep"]
    /\ held    = [k \in Kind |-> None]
    /\ lost    = [k \in Kind |-> FALSE]
    /\ deaths  = 0

Open(j)    == state[j] = "queued" \/ Active(j)
Goto(k, s) == stage' = [stage EXCEPT ![k] = s]
EndRun(j, status) == runOf' = [runOf EXCEPT ![j] = status]
Idle(k)    == Goto(k, "sweep") /\ UNCHANGED <<held, lost>>

-----------------------------------------------------------------------------
(* RunOnce.                                                                *)

\* RecoverExpired, of the jobs of every kind.
SweepJobs(k) ==
    /\ stage[k] = "sweep"
    /\ IF Expired \cup Doomed(state) # {} THEN RecoverExpired ELSE UNCHANGED vars
    /\ Goto(k, "reconcile")
    /\ UNCHANGED <<genRows, held, lost, deaths>>

\* Faulty: jobs that failed are left out.
ReconcileSucceeded ==
    runOf' = [j \in GenJob |-> IF runOf[j] = "running" /\ runJob[j] /\ state[j] = "succeeded"
                               THEN "failed" ELSE runOf[j]]

\* The runs of terminal jobs that are still open end as interrupted.
ReconcileTerminalJobRuns ==
    runOf' = [j \in GenJob |-> IF /\ runOf[j] = "running" /\ runJob[j]
                                  /\ state[j] \in TerminalStates
                               THEN "failed" ELSE runOf[j]]

ReconcileRuns(k) ==
    /\ stage[k] = "reconcile"
    /\ ReconcileTerminalJobRuns
    /\ Goto(k, "claim")
    /\ UNCHANGED <<vars, saved, lastJob, runJob, held, lost, deaths>>

ClaimJob(k) ==
    /\ stage[k] = "claim"
    /\ \/ /\ ClaimMatching(k)
          /\ IF issued' = issued THEN Goto(k, "sweep") /\ UNCHANGED held
             ELSE /\ Goto(k, "start")
                  /\ held' = [held EXCEPT ![k] = CHOOSE c \in issued' \ issued : TRUE]
       \/ /\ {j \in Claimable(state) : JobType[j] \in Serves[k]} = {}
          /\ Goto(k, "sweep") /\ UNCHANGED <<vars, held>>
    /\ lost' = [lost EXCEPT ![k] = FALSE]
    /\ UNCHANGED <<genRows, deaths>>

-----------------------------------------------------------------------------
(* process.                                                                *)

\* The payload decodes or not; then the run is opened, and the entry pointed
\* at it, or that fails and leaves the run behind.
StartGeneration(k) ==
    LET j == held[k].job IN
    /\ stage[k] = "start"
    /\ \/ Goto(k, "fail") /\ UNCHANGED <<runOf, runJob>>
       \/ /\ EndRun(j, "running")
          /\ runJob' = [runJob EXCEPT ![j] = TRUE]
          /\ \E s \in {"preflight", "fail"} : Goto(k, s)
    /\ UNCHANGED <<vars, saved, lastJob, held, lost, deaths>>

\* The snapshotted provider, binding and prompts are those of the payload, or
\* finalizeFailed; a stage attempt is recorded.
Preflight(k) ==
    /\ stage[k] = "preflight"
    /\ \/ Goto(k, "generate") /\ UNCHANGED runOf
       \/ Goto(k, "fail") /\ EndRun(held[k].job, "failed")
    /\ UNCHANGED <<vars, saved, lastJob, runJob, held, lost, deaths>>

\* The provider answered, with a valid document or an error; a runner that
\* lost its lease leaves run and job to the scheduler.
Generate(k) ==
    /\ stage[k] = "generate"
    /\ IF lost[k] THEN Goto(k, "sweep") /\ UNCHANGED runOf
       ELSE \/ Goto(k, "publish") /\ UNCHANGED runOf
            \/ Goto(k, "fail") /\ EndRun(held[k].job, "failed")
    /\ UNCHANGED <<vars, saved, lastJob, runJob, held, lost, deaths>>

\* failJob.  A lease that is gone makes it fail, and that is only logged.
FailJob(k) ==
    /\ stage[k] = "fail"
    /\ IF FailureApplies(held[k]) THEN Fail(held[k], FALSE) ELSE UNCHANGED vars
    /\ Idle(k)
    /\ UNCHANGED <<genRows, deaths>>

\* Faulty: the acknowledgement does not look at the lease.
AcknowledgeAny(c) == state[c.job] # "succeeded"

Acknowledges(c) == CompletionApplies(c)

PublishTx(s, j) == lastJob[s] = j /\ saved' = [saved EXCEPT ![s] = j]

\* Document, job, attempt and run in one transaction, or nothing at all: the
\* row must still point at this job and the lease must be live.
PublishResult(k, alive) ==
    LET j == held[k].job
        s == OwnerId[j] IN
    /\ stage[k] = "publish"
    /\ IF alive /\ lastJob[s] = j /\ Acknowledges(held[k])
       THEN /\ PublishTx(s, j)
            /\ IF CompletionApplies(held[k]) THEN Complete(held[k]) ELSE UNCHANGED vars
            /\ EndRun(j, "succeeded")
       ELSE UNCHANGED <<vars, saved, runOf>>
    /\ Idle(k)
    /\ UNCHANGED <<lastJob, runJob, deaths>>

\* The heartbeat goroutine: the first beat makes the job running, a refused
\* one cancels the generation.
Beat(k) ==
    /\ stage[k] \in {"generate", "publish"} /\ ~lost[k]
    /\ \/ Heartbeat(held[k]) /\ UNCHANGED lost
       \/ /\ ~(Matches(held[k]) /\ Active(held[k].job) /\ Live(held[k].job))
          /\ lost' = [lost EXCEPT ![k] = TRUE] /\ UNCHANGED vars
    /\ UNCHANGED <<genRows, stage, held, deaths>>

Process(k) ==
    \/ SweepJobs(k) \/ ReconcileRuns(k) \/ ClaimJob(k) \/ StartGeneration(k)
    \/ Preflight(k) \/ Generate(k) \/ FailJob(k)

-----------------------------------------------------------------------------
(* Around the runner.                                                      *)

\* Leases run out when beats stop; another runner may sweep and reconcile
\* while this one is at work.
GenTime ==
    /\ \/ \E j \in GenJob : LeaseExpires(j)
       \/ RecoverExpired
    /\ UNCHANGED <<genRows, genRunner, deaths>>

ReconcileElsewhere ==
    /\ ReconcileTerminalJobRuns
    /\ runOf' # runOf
    /\ UNCHANGED <<vars, saved, lastJob, runJob, genRunner, deaths>>

\* Rows survive, goroutines do not.
Die ==
    /\ deaths < MaxDeaths
    /\ deaths' = deaths + 1
    /\ stage' = [k \in Kind |-> "sweep"]
    /\ lost' = [k \in Kind |-> FALSE]
    /\ UNCHANGED <<vars, genRows, held>>

\* Nobody beats for a lease whose holder died or gave up.
Abandoned(j) == \A k \in Kind : stage[k] \in InFlight => held[k].job # j

-----------------------------------------------------------------------------
(* Correctness.                                                            *)

\* Concurrent requests converge on one generation of a subject, also when one
\* of them read the subject long ago or a crash left a lease behind
\* (dictionary Start, sentencetranslation Ensure).
OneGenerationAtATime ==
    \A i, j \in GenJob : Open(i) /\ Open(j) /\ OwnerId[i] = OwnerId[j] => i = j

\* A saved result, its acknowledged job and its history agree: nothing saved
\* without an acknowledgement, no acknowledged job whose result was lost or is
\* older than the saved one, and no run that tells another story (the publish
\* transactions of both runners).
SavedResultsAreAcknowledged ==
    /\ \A s \in Subject : saved[s] # None => state[saved[s]] = "succeeded"
    /\ \A j \in GenJob :
        LET s == OwnerId[j] IN
        /\ state[j] = "succeeded" <=> runOf[j] = "succeeded"
        /\ state[j] = "succeeded" /\ saved[s] # None
               => saved[s] = j \/ <<j, saved[s]>> \in older

OpenOf == [s \in Subject |-> {j \in GenJob : OwnerId[j] = s /\ Open(j)}]
Begun  == {j \in GenJob : state[j] # "absent"}
Demand == INSTANCE OnDemand WITH
    Request <- GenJob, Of <- OwnerId, Replacing <- Regenerate,
    open <- OpenOf, result <- saved, begun <- Begun

\* A reader sees OnDemand: through jobs, leases, crashes and requests that race,
\* also when one of them read the subject long ago or a crash left a lease
\* behind, a subject has one generation at a time, and a result is replaced only
\* by one that was asked to (dictionary Start, sentencetranslation Ensure, both
\* runners).
ImplementsOnDemand == Demand!Spec
=============================================================================
