--------------------------- MODULE AnalysisProofs ---------------------------
(* Proofs about Analysis. *)
EXTENDS Analysis, JobsProofs

-----------------------------------------------------------------------------
(* The inductive invariant.                                                *)

\* Where the runner works through the paragraphs, where it is done with them,
\* and where its article waits for the outcome.
Loop     == {"own", "mark", "stage", "failing", "owned", "publish"}
Through  == {"audit", "verified", "ready"}
Underway == {"reset", "open", "beat", "failblock"} \cup Loop \cup Through

\* Before a claim the runner holds no credential.
Free == {"down", "sweep", "reconcile", "claim"}

AnalysisTypeOK ==
    /\ article \in [Article -> {"absent", "queued", "processing", "ready", "failed"}]
    /\ active \in [Article -> Job \cup {None}]
    /\ block \in [Article -> [Paragraph -> {"pending", "processing", "ready", "failed"}]]
    /\ published \in [Article -> [Paragraph -> Job \cup {None}]]
    /\ run \in [Job -> [Attempt -> {"none", "running", "failed", "succeeded"}]]
    /\ at \in Steps

\* The runner works under a credential it was issued, for a job that exists,
\* and in the loop it is at a paragraph.
RunnerHoldsItsLease ==
    /\ at \notin Free => lease \in issued /\ state[lease.job] # "absent"
    /\ at \in Loop \cup {"beat"} => here \in Paragraph

\* The number of paragraphs the runner has published in this run.
Finished == IF at \in Loop THEN here - 1
            ELSE IF at = "beat" THEN here
            ELSE IF at \in Through \cup {"finish", "complete"} THEN Blocks
            ELSE 0

\* What it published is its own, and while its job is the active one those
\* paragraphs are ready and the article says that they are being processed; a
\* request that took the article over has left it queued.
ProgressIsKept ==
    /\ \A b \in 1..Finished : published[Served][b] = lease.job
    /\ at \in Underway => /\ article[Served] = IF Current THEN "processing" ELSE "queued"
                          /\ Current => \A b \in 1..Finished : block[Served][b] = "ready"

\* The active job belongs to its article; a forced one ended every older job of it.
ForcedRequestsTakeOver ==
    /\ \A a \in Article : active[a] # None => OwnerId[active[a]] = a
    /\ \A e \in older : state[e[1]] # "absent" /\ state[e[2]] # "absent"
    /\ \A a \in Article : active[a] \notin {None, Normal[a]} =>
          \A i \in Job : OwnerId[i] = a /\ <<i, active[a]>> \in older
                            => state[i] \in TerminalStates

\* A run the runner is at is closed before the runner leaves it.
RunsAreClosed ==
    \A j \in Job, n \in Attempt : run[j][n] = "running" =>
        \/ at = "down"
        \/ at \in Working \ {"failarticle"} /\ lease.job = j /\ lease.attempt = n

AnalysisInv ==
    /\ TypeOK /\ AnalysisTypeOK
    /\ RunnerHoldsItsLease
    /\ ReadyArticlesAreComplete
    /\ ProgressIsKept
    /\ ForcedRequestsTakeOver
    /\ RunsAreClosed

-----------------------------------------------------------------------------
(* The jobs of the articles.                                               *)

\* A forced request ends unfinished jobs and adds one row.
LEMMA SupersedeRows ==
    ASSUME TypeOK, NEW a \in Article, NEW S \in {{}, Unfinished(a)}, NEW j \in Job,
           Supersede(S, j)
    PROVE  /\ TypeOK'
           /\ UNCHANGED <<attempt, issued>>
           /\ \A i \in Job : /\ state[i] \in TerminalStates => state'[i] = state[i]
                             /\ state[i] # "absent" => state'[i] # "absent"
                             /\ state'[i] = "succeeded" => state[i] = "succeeded"
                             /\ state'[i] = "queued" => state[i] \in {"queued", "absent"}
           /\ state'[j] # "absent"
           /\ \A i \in S : state'[i] = "canceled"
<1> USE DEF States, ActiveStates, TerminalStates
<1>1. S \subseteq Job /\ \A i \in S : state[i] \in {"queued", "leased", "running"}
  BY DEF Unfinished, Active
<1>2. /\ state' = [i \in Job |-> IF i \in S THEN "canceled"
                                 ELSE IF i = j /\ state[i] = "absent" THEN "queued"
                                 ELSE state[i]]
      /\ UNCHANGED <<attempt, due, deps, serial, epoch, issued, acked>>
      /\ ClearLeases({i \in S : state[i] = "queued"})
  BY DEF Supersede
<1>3. state' \in [Job -> States]
  BY <1>2 DEF TypeOK
<1>4. older' \subseteq Job \X Job
  BY DEF Supersede, TypeOK
<1>5. /\ owner' \in [Job -> Owner \cup {None}] /\ token' \in [Job -> Nat]
      /\ expiry' \in [Job -> {"none", "live", "past"}]
  BY <1>2 DEF ClearLeases, TypeOK
<1>6. TypeOK'
  BY <1>2, <1>3, <1>4, <1>5 DEF TypeOK
<1> QED
  BY <1>1, <1>2, <1>6 DEF TypeOK

\* The success of a job, and the requests that change rows.
Completes == CompleteJob /\ CompletionApplies(lease) /\ Complete(lease)

Requests == \E a \in Article : CreateArticle(a) \/ \E j \in Job : QueueAnalysis(a, j)

\* The runner, its heartbeats and the sweeps only take routine steps, and the
\* one step that completes a job.
LEMMA AnalysisRows ==
    ASSUME TypeOK, RunnerHoldsItsLease, [AnalysisNext]_analysisVars
    PROVE  RoutineStep \/ Completes \/ Requests
<1> USE DEF RoutineStep, Free
<1>1. RecoverExpired => \E S \in SUBSET Expired : RecoverRows(S)
  BY DEF RecoverExpired
<1>2. Recovered => RoutineStep
  BY <1>1 DEF Recovered
<1>3. ASSUME lease \in issued, FailLease PROVE RoutineStep
  BY <1>3 DEF FailLease
<1>4. ASSUME lease \in issued, Beats, Renew PROVE RoutineStep
  <2>1. lease.job \in Job
    BY <1>4 DEF TypeOK, Credential
  <2>2. CASE state[lease.job] = "leased"
    BY <1>4, <2>2 DEF Beats, Renew, Heartbeat
  <2>3. CASE state[lease.job] = "running"
    <3>1. state' = state
      BY <1>4, <2>1, <2>3 DEF Renew, TypeOK
    <3> QED
      BY <1>4, <3>1 DEF Renew, leaseVars, vars
  <2> QED
    BY <1>4, <2>2, <2>3 DEF Beats, Active, ActiveStates
<1>5. ASSUME NEW a \in Article,
             \/ CreateArticle(a) \/ CreateArticleUnavailable(a)
             \/ \E j \in Job : QueueAnalysis(a, j)
      PROVE  RoutineStep \/ Requests
  BY <1>5 DEF CreateArticleUnavailable, Requests
<1>6. CASE RunnerSweep \/ Restart \/ Sweep
  BY <1>1, <1>2, <1>6 DEF RunnerSweep, Restart, Sweep
<1>7. CASE ClaimWork
  BY <1>7 DEF ClaimWork, Claim
<1>8. CASE PreflightFail \/ RejectPayload \/ FailJob
  <2>1. lease \in issued
    BY <1>8 DEF PreflightFail, RejectPayload, FailJob, RunnerHoldsItsLease
  <2>2. FailLease \/ (\E retry \in BOOLEAN : Fail(lease, retry)) \/ UNCHANGED vars
    BY <1>8 DEF PreflightFail, RejectPayload, FailJob
  <2> QED
    BY <1>3, <2>1, <2>2
<1>9. CASE HeartbeatParagraph \/ HeartbeatGoroutine
  <2>1. lease \in issued
    BY <1>9 DEF HeartbeatParagraph, HeartbeatGoroutine, Working, RunnerHoldsItsLease
  <2>2. (Beats /\ Renew) \/ UNCHANGED vars
    BY <1>9 DEF HeartbeatParagraph, HeartbeatGoroutine
  <2> QED
    BY <1>4, <2>1, <2>2
<1>10. CASE CompleteJob
  BY <1>10 DEF CompleteJob, Completes
<1>11. CASE \/ ReconcileTerminalJobRuns \/ ReconcileElsewhere \/ PreflightFailArticle
            \/ PreflightFailBlock \/ StartAnalysis \/ ResetBlocks \/ StartRun
            \/ CheckOwnership \/ MarkBlockProcessing \/ RunStages \/ Publish
            \/ Audit \/ MarkAnalysisReady \/ FinishRun
            \/ LeaseLost \/ FailBlock \/ FinishFailedRun \/ FailArticle \/ Crash
  BY <1>11 DEF ReconcileTerminalJobRuns, ReconcileElsewhere, PreflightFailArticle,
     PreflightFailBlock, StartAnalysis, ResetBlocks, StartRun, CheckOwnership,
     MarkBlockProcessing, RunStages, Publish, Audit, MarkAnalysisReady, FinishRun,
     LeaseLost, FailBlock, FinishFailedRun, FailArticle, Crash
<1>12. ASSUME NEW j \in Job, Time(j) PROVE RoutineStep
  BY <1>12 DEF Time
<1>13. CASE UNCHANGED analysisVars
  BY <1>13 DEF analysisVars
<1> QED
  BY <1>5, <1>6, <1>7, <1>8, <1>9, <1>10, <1>11, <1>12, <1>13 DEF AnalysisNext, RunnerStep

\* A row that exists stays, one that ended keeps its outcome, credentials are
\* never taken back.
RowsStay ==
    /\ TypeOK'
    /\ issued \subseteq issued'
    /\ \A j \in Job : /\ state[j] \in TerminalStates => state'[j] = state[j]
                      /\ state[j] # "absent" => state'[j] # "absent"

\* What the jobs of the articles go through, step by step.
LEMMA AnalysisRowsStay ==
    ASSUME TypeOK, RunnerHoldsItsLease, [AnalysisNext]_analysisVars
    PROVE  /\ RowsStay
           /\ Requests \/ older' = older
           /\ \/ \A j \in Job : state'[j] = "succeeded" => state[j] = "succeeded"
              \/ Completes
<1>1. CASE RoutineStep
  BY <1>1, RoutineSteps DEF RoutineEffect, RowsStay
<1>2. CASE Completes
  <2>1. lease \in issued /\ lease.job \in Job
    BY <1>2 DEF Completes, CompleteJob, RunnerHoldsItsLease, Free, TypeOK, Credential
  <2>2. TypeOK' /\ Frozen
    BY <1>2, <2>1, StepTypeOK, StepFrozen DEF Completes, Next, CredentialNext
  <2>3. UNCHANGED <<older, issued, epoch>>
    BY <1>2 DEF Completes, Complete
  <2>4. \A j \in Job : state[j] \in TerminalStates => state'[j] = state[j]
    BY <2>2, <2>3 DEF Frozen, TypeOK
  <2>5. \A j \in Job : state[j] # "absent" => state'[j] # "absent"
    BY <1>2, <2>1 DEF Completes, Complete, TypeOK
  <2> QED
    BY <1>2, <2>2, <2>3, <2>4, <2>5 DEF RowsStay
<1>3. ASSUME NEW a \in Article, CreateArticle(a) PROVE RowsStay /\ Requests
                /\ \A j \in Job : state'[j] = "succeeded" => state[j] = "succeeded"
  <2>1. Enqueue(Normal[a]) /\ Normal[a] \in Job
    BY <1>3, AnalysisAssumption DEF CreateArticle
  <2>2. TypeOK'
    BY <2>1, StepTypeOK DEF Next
  <2> QED
    BY <1>3, <2>1, <2>2 DEF Enqueue, RowsStay, Requests, TypeOK, TerminalStates
<1>4. ASSUME NEW a \in Article, NEW j \in Job, QueueAnalysis(a, j) PROVE RowsStay /\ Requests
                /\ \A i \in Job : state'[i] = "succeeded" => state[i] = "succeeded"
  <2>1. \E S \in {{}, Unfinished(a)} : Supersede(S, j)
    BY <1>4 DEF QueueAnalysis
  <2> QED
    BY <1>4, <2>1, SupersedeRows DEF RowsStay, Requests
<1> QED
  BY <1>1, <1>2, <1>3, <1>4, AnalysisRows, RoutineSteps DEF Requests, RoutineEffect

-----------------------------------------------------------------------------
(* Types, and the credential of the runner.                                *)

\* A table of tables with one entry changed.
Changed(g, f, D, E, V, x, y, v) ==
    /\ g \in [D -> [E -> V]]
    /\ \A d \in D, e \in E : g[d][e] = IF d = x /\ e = y THEN v ELSE f[d][e]

\* What [f EXCEPT ![x][y] = v] is.
LEMMA NestedUpdate ==
    ASSUME NEW D, NEW E, NEW V, NEW f \in [D -> [E -> V]], NEW x, NEW y, NEW v \in V,
           NEW g, g = [f EXCEPT ![x][y] = v]
    PROVE  Changed(g, f, D, E, V, x, y, v)
<1>1. \A d \in D : g[d] = IF d = x THEN [f[d] EXCEPT ![y] = v] ELSE f[d]
  OBVIOUS
<1>2. \A d \in D : [f[d] EXCEPT ![y] = v] \in [E -> V]
  OBVIOUS
<1> QED
  BY <1>1, <1>2 DEF Changed

BlockStates == {"pending", "processing", "ready", "failed"}
RunStates   == {"none", "running", "failed", "succeeded"}

\* The updates of a paragraph and of a run.
LEMMA BlockUpdate ==
    ASSUME AnalysisTypeOK, NEW s, NEW b, NEW status \in BlockStates,
           block' = [block EXCEPT ![s][b] = status]
    PROVE  Changed(block', block, Article, Paragraph, BlockStates, s, b, status)
<1>1. block \in [Article -> [Paragraph -> BlockStates]]
  BY DEF AnalysisTypeOK, BlockStates
<1> QED
  BY <1>1, NestedUpdate, Zenon

\* The run of the runner's lease gets another status.
LEMMA RunUpdate ==
    ASSUME AnalysisTypeOK, NEW status \in RunStates, SetRun(status)
    PROVE  Changed(run', run, Job, Attempt, RunStates, lease.job, lease.attempt, status)
<1>1. run \in [Job -> [Attempt -> RunStates]]
  BY DEF AnalysisTypeOK, RunStates
<1>2. run' = [run EXCEPT ![lease.job][lease.attempt] = status]
  BY DEF SetRun
<1> QED
  BY <1>1, <1>2, NestedUpdate, Zenon

\* A paragraph is published by another job.
LEMMA PublishedUpdate ==
    ASSUME AnalysisTypeOK, NEW s, NEW b, NEW j \in Job,
           published' = [published EXCEPT ![s][b] = j]
    PROVE  Changed(published', published, Article, Paragraph, Job \cup {None}, s, b, j)
<1>1. published \in [Article -> [Paragraph -> Job \cup {None}]] /\ j \in Job \cup {None}
  BY DEF AnalysisTypeOK
<1> QED
  BY <1>1, NestedUpdate, Zenon

\* The values of the rows the runner and the requests write.
LEMMA StepAnalysisTypes ==
    ASSUME TypeOK, AnalysisTypeOK, RunnerHoldsItsLease, [AnalysisNext]_analysisVars
    PROVE  AnalysisTypeOK'
<1> USE DEF AnalysisTypeOK, Steps, Working
<1>1. ASSUME NEW a \in Article,
             \/ CreateArticle(a) \/ CreateArticleUnavailable(a)
             \/ \E j \in Job : QueueAnalysis(a, j)
      PROVE  AnalysisTypeOK'
  <2>1. Normal[a] \in Job
    BY AnalysisAssumption
  <2>2. UNCHANGED <<published, run, at>>
    BY <1>1 DEF CreateArticle, CreateArticleUnavailable, QueueAnalysis, runner
  <2>3. article' \in [Article -> {"absent", "queued", "processing", "ready", "failed"}]
    BY <1>1 DEF CreateArticle, CreateArticleUnavailable, QueueAnalysis
  <2>4. active' \in [Article -> Job \cup {None}]
    BY <1>1, <2>1 DEF CreateArticle, CreateArticleUnavailable, QueueAnalysis, Activate
  <2>5. block' \in [Article -> [Paragraph -> {"pending", "processing", "ready", "failed"}]]
    <3>1. [b \in Paragraph |-> "pending"]
             \in [Paragraph -> {"pending", "processing", "ready", "failed"}]
      OBVIOUS
    <3>2. \/ block' = [block EXCEPT ![a] = [b \in Paragraph |-> "pending"]]
          \/ block' = [block EXCEPT ![a][1] = "failed"]
      BY <1>1 DEF CreateArticle, CreateArticleUnavailable, QueueAnalysis, Activate
    <3>3. CASE block' = [block EXCEPT ![a][1] = "failed"]
      BY <3>3, BlockUpdate DEF Changed, BlockStates
    <3> QED
      BY <3>1, <3>2, <3>3
  <2> QED
    BY <2>2, <2>3, <2>4, <2>5
<1>2. CASE \/ RunnerSweep \/ ClaimWork \/ CheckOwnership \/ RunStages \/ HeartbeatParagraph
           \/ Audit \/ CompleteJob \/ FailJob \/ PreflightFail \/ RejectPayload \/ HeartbeatGoroutine
           \/ Sweep \/ Crash \/ (\E j \in Job : Time(j)) \/ UNCHANGED analysisVars
  BY <1>2 DEF RunnerSweep, ClaimWork, CheckOwnership, RunStages, HeartbeatParagraph, Audit,
     CompleteJob, FailJob, PreflightFail, RejectPayload, HeartbeatGoroutine, Sweep, Crash, Time,
     analysisVars, rows, runner, Go, Return, NextParagraph
<1>3. CASE \/ ReconcileTerminalJobRuns \/ ReconcileElsewhere \/ StartRun \/ FinishRun
           \/ LeaseLost \/ FinishFailedRun
  <2>1. UNCHANGED <<article, active, block, published>> /\ at' \in Steps
    BY <1>3 DEF ReconcileTerminalJobRuns, ReconcileElsewhere, StartRun, FinishRun, LeaseLost,
       FinishFailedRun, Go, runner
  <2>2. run' \in [Job -> [Attempt -> {"none", "running", "failed", "succeeded"}]]
    <3>1. CASE CloseAbandonedRuns
      BY <3>1 DEF CloseAbandonedRuns
    <3>2. ASSUME NEW status \in {"none", "running", "failed", "succeeded"}, SetRun(status)
          PROVE  run' \in [Job -> [Attempt -> {"none", "running", "failed", "succeeded"}]]
      BY <3>2, RunUpdate DEF Changed, RunStates
    <3> QED
      BY <1>3, <3>1, <3>2 DEF ReconcileTerminalJobRuns, ReconcileElsewhere, StartRun,
         FinishRun, LeaseLost, FinishFailedRun
  <2> QED
    BY <2>1, <2>2
<1>4. CASE \/ PreflightFailArticle \/ FailArticle \/ StartAnalysis \/ MarkAnalysisReady
  BY <1>4 DEF PreflightFailArticle, FailArticle, StartAnalysis, MarkAnalysisReady, SetArticle,
     Go, Return
<1>5. CASE \/ PreflightFailBlock \/ FailBlock \/ ResetBlocks \/ MarkBlockProcessing
  <2>1. UNCHANGED <<article, active, published, run>> /\ at' \in Steps
    BY <1>5 DEF PreflightFailBlock, FailBlock, ResetBlocks, MarkBlockProcessing, Go, Return
  <2>2. block' \in [Article -> [Paragraph -> {"pending", "processing", "ready", "failed"}]]
    <3>1. ASSUME NEW b, NEW status \in {"pending", "processing", "ready", "failed"},
                 SetBlock(b, status)
          PROVE  block' \in [Article -> [Paragraph -> {"pending", "processing", "ready", "failed"}]]
      BY <3>1, BlockUpdate DEF SetBlock, Changed, BlockStates
    <3>2. CASE ResetBlocks
      BY <3>2 DEF ResetBlocks
    <3> QED
      BY <1>5, <3>1, <3>2 DEF PreflightFailBlock, FailBlock, MarkBlockProcessing
  <2> QED
    BY <2>1, <2>2
<1>6. CASE Publish
  <2>1. lease.job \in Job
    BY <1>6 DEF Publish, RunnerHoldsItsLease, Free, TypeOK, Credential
  <2>2. UNCHANGED <<article, active, run>> /\ at' \in Steps
    BY <1>6 DEF Publish, Go
  <2>3. CASE UNCHANGED <<block, published>>
    BY <2>2, <2>3
  <2>4. CASE SetBlock(here, "ready") /\ published' = [published EXCEPT ![Served][here] = lease.job]
    <3>1. block' \in [Article -> [Paragraph -> {"pending", "processing", "ready", "failed"}]]
      BY <2>4, BlockUpdate DEF SetBlock, Changed, BlockStates
    <3>2. published' \in [Article -> [Paragraph -> Job \cup {None}]]
      BY <2>1, <2>4, PublishedUpdate DEF Changed
    <3> QED
      BY <2>2, <3>1, <3>2
  <2> QED
    BY <1>6, <2>3, <2>4 DEF Publish
<1>7. CASE Restart
  BY <1>7 DEF Restart, RecoverInterrupted, Go
<1> QED
  BY <1>1, <1>2, <1>3, <1>4, <1>5, <1>6, <1>7 DEF AnalysisNext, RunnerStep

\* The runner keeps its credential from the claim to the end of the run.
LEMMA StepHoldsLease ==
    ASSUME AnalysisInv, RowsStay, [AnalysisNext]_analysisVars
    PROVE  RunnerHoldsItsLease'
<1> USE DEF AnalysisInv, RunnerHoldsItsLease, Free, Loop
<1>1. \A c \in issued : c \in issued' /\ (state[c.job] # "absent" => state'[c.job] # "absent")
  BY DEF RowsStay, TypeOK, Credential
<1>2. CASE ClaimWork
  <2>1. CASE at' = "sweep"
    BY <2>1
  <2>2. CASE at' = "start" /\ \E w \in Owner : ClaimMatching(w) /\ \E c \in issued' \ issued : lease' = c
    <3>1. PICK w \in Owner, c \in issued' \ issued : ClaimMatching(w) /\ lease' = c
      BY <2>2
    <3>2. \E j \in Job, st \in [Job -> States] : Grant(j, w, st)
      <4>1. issued' # issued
        BY <3>1
      <4>2. reconcileDependencyFailures(state) \in [Job -> States]
        BY ReconcileEffect DEF TypeOK
      <4> QED
        BY <3>1, <4>1, <4>2 DEF ClaimMatching, ClaimFrom, First, Claimable
    <3>3. PICK j \in Job, st \in [Job -> States] : Grant(j, w, st)
      BY <3>2
    <3>4. c = Fresh(j, w) /\ state'[j] = "leased"
      BY <3>1, <3>3 DEF Grant
    <3> QED
      BY <2>2, <3>1, <3>4 DEF Fresh
  <2> QED
    BY <1>2, <2>1, <2>2 DEF ClaimWork
<1>3. CASE at' \in {"down", "sweep", "reconcile", "claim"}
  BY <1>3
<1>4. CASE StartRun
  BY <1>1, <1>4, AnalysisAssumption DEF StartRun, Paragraph
<1>5. CASE HeartbeatParagraph
  <2>1. lease' = lease /\ at = "beat" /\ here \in Paragraph
    BY <1>5 DEF HeartbeatParagraph
  <2>2. CASE NextParagraph
    BY <1>1, <2>1, <2>2, AnalysisAssumption DEF NextParagraph, Paragraph
  <2>3. CASE at' = "lost"
    BY <1>1, <2>1, <2>3
  <2> QED
    BY <1>5, <2>2, <2>3 DEF HeartbeatParagraph
<1>6. CASE UNCHANGED <<at, lease, here>>
  BY <1>1, <1>6
<1>7. ASSUME at \notin Free, UNCHANGED <<lease, here>>,
             at' \in Loop \cup {"beat"} => at \in Loop
      PROVE  RunnerHoldsItsLease'
  BY <1>1, <1>7
<1>8. \/ UNCHANGED <<at, lease, here>> \/ at' \in {"down", "sweep", "reconcile", "claim"}
      \/ ClaimWork \/ StartRun \/ HeartbeatParagraph
      \/ /\ at \notin Free /\ UNCHANGED <<lease, here>>
         /\ at' \in Loop \cup {"beat"} => at \in Loop
  <2>1. ASSUME \/ RunnerSweep \/ ReconcileTerminalJobRuns \/ Restart \/ Crash
               \/ CompleteJob \/ FailJob \/ PreflightFailBlock
        PROVE  at' \in {"down", "sweep", "reconcile", "claim"}
    BY <2>1 DEF RunnerSweep, ReconcileTerminalJobRuns, Restart, Crash, CompleteJob, FailJob,
       PreflightFailBlock, Go, Return
  <2>2. ASSUME \/ PreflightFail \/ RejectPayload \/ PreflightFailArticle
        PROVE  \/ at' \in {"down", "sweep", "reconcile", "claim"}
               \/ at \notin Free /\ UNCHANGED <<lease, here>> /\ at' \notin Loop \cup {"beat"}
    BY <2>2 DEF PreflightFail, RejectPayload, PreflightFailArticle, Go, Return
  <2>3. ASSUME \/ StartAnalysis \/ ResetBlocks \/ CheckOwnership \/ MarkBlockProcessing
               \/ RunStages \/ Publish \/ Audit \/ MarkAnalysisReady \/ FinishRun
               \/ LeaseLost \/ FailBlock \/ FinishFailedRun \/ FailArticle
        PROVE  /\ at \notin Free /\ UNCHANGED <<lease, here>>
               /\ at' \in Loop \cup {"beat"} => at \in Loop
    BY <2>3 DEF StartAnalysis, ResetBlocks, CheckOwnership, MarkBlockProcessing, RunStages,
       Publish, Audit, MarkAnalysisReady, FinishRun, LeaseLost, FailBlock, FinishFailedRun,
       FailArticle, Go
  <2>4. ASSUME \/ \E a \in Article : \/ CreateArticle(a) \/ CreateArticleUnavailable(a)
                                     \/ \E j \in Job : QueueAnalysis(a, j)
               \/ HeartbeatGoroutine \/ Sweep \/ ReconcileElsewhere
               \/ (\E j \in Job : Time(j)) \/ UNCHANGED analysisVars
        PROVE  UNCHANGED <<at, lease, here>>
    BY <2>4 DEF CreateArticle, CreateArticleUnavailable, QueueAnalysis, HeartbeatGoroutine,
       Sweep, ReconcileElsewhere, Time, analysisVars, runner
  <2> QED
    BY <2>1, <2>2, <2>3, <2>4 DEF AnalysisNext, RunnerStep
<1> QED
  BY <1>2, <1>3, <1>4, <1>5, <1>6, <1>7, <1>8

\* The article the runner works on.
LEMMA RunnerJob ==
    ASSUME TypeOK, RunnerHoldsItsLease, at \notin Free
    PROVE  lease.job \in Job /\ Served \in Article
BY AnalysisAssumption DEF RunnerHoldsItsLease, TypeOK, Credential, Served

-----------------------------------------------------------------------------
(* What is shown as ready is complete.                                     *)

\* Requests reset what they take over; the runner touches an article that says
\* ready only to make it so, after its last paragraph.
LEMMA StepKeepsComplete ==
    ASSUME AnalysisInv, [AnalysisNext]_analysisVars
    PROVE  ReadyArticlesAreComplete'
<1>0. /\ TypeOK /\ AnalysisTypeOK /\ RunnerHoldsItsLease
      /\ ReadyArticlesAreComplete /\ ProgressIsKept
  BY DEF AnalysisInv
<1> DEFINE Complete1(a, b) == /\ article'[a] = "ready" => block'[a][b] = "ready"
                              /\ block'[a][b] = "ready" => published'[a][b] = active'[a]
           Goal == \A a \in Article, b \in Paragraph : Complete1(a, b)
<1>1. \A a \in Article, b \in Paragraph : /\ article[a] = "ready" => block[a][b] = "ready"
                                          /\ block[a][b] = "ready" => published[a][b] = active[a]
  BY <1>0 DEF ReadyArticlesAreComplete
<1>2. /\ article \in [Article -> {"absent", "queued", "processing", "ready", "failed"}]
      /\ block \in [Article -> [Paragraph -> {"pending", "processing", "ready", "failed"}]]
      /\ published \in [Article -> [Paragraph -> Job \cup {None}]]
      /\ active \in [Article -> Job \cup {None}]
  BY <1>0 DEF AnalysisTypeOK
<1> SUFFICES Goal
  BY DEF ReadyArticlesAreComplete
<1>3. ASSUME NEW o \in Article, CreateArticle(o) \/ \E j \in Job : QueueAnalysis(o, j)
      PROVE  Goal
  <2>1. /\ UNCHANGED published
        /\ article' = [article EXCEPT ![o] = "queued"]
        /\ block' = [block EXCEPT ![o] = [b \in Paragraph |-> "pending"]]
        /\ \A a \in Article : a # o => active'[a] = active[a]
    BY <1>2, <1>3 DEF CreateArticle, QueueAnalysis, Activate
  <2>2. \A b \in Paragraph : block'[o][b] = "pending" /\ article'[o] = "queued"
    BY <1>2, <2>1
  <2>3. \A a \in Article : a # o => article'[a] = article[a] /\ block'[a] = block[a]
    BY <1>2, <2>1
  <2> QED
    BY <1>1, <2>1, <2>2, <2>3
<1>4. ASSUME NEW o \in Article, CreateArticleUnavailable(o) PROVE Goal
  <2>1. /\ UNCHANGED <<published, active>>
        /\ article' = [article EXCEPT ![o] = "failed"]
        /\ block' = [block EXCEPT ![o][1] = "failed"]
    BY <1>4 DEF CreateArticleUnavailable
  <2>2. \A a \in Article, b \in Paragraph :
           block'[a][b] = IF a = o /\ b = 1 THEN "failed" ELSE block[a][b]
    BY <1>0, <2>1, BlockUpdate DEF Changed, BlockStates
  <2> QED
    BY <1>1, <1>2, <2>1, <2>2
<1>5. CASE UNCHANGED <<article, active, block, published>>
  BY <1>1, <1>5
<1>6. CASE PreflightFailArticle \/ FailArticle \/ StartAnalysis
  <2>1. UNCHANGED <<active, block, published>>
    BY <1>6 DEF PreflightFailArticle, FailArticle, StartAnalysis
  <2>2. \A a \in Article : article'[a] = "ready" => article[a] = "ready"
    BY <1>2, <1>6 DEF PreflightFailArticle, FailArticle, StartAnalysis, SetArticle
  <2> QED
    BY <1>1, <2>1, <2>2
<1>7. CASE MarkAnalysisReady
  <2>1. UNCHANGED <<active, block, published>>
    BY <1>7 DEF MarkAnalysisReady
  <2>2. CASE Current /\ SetArticle("ready")
    <3>1. \A b \in Paragraph : block[Served][b] = "ready"
      BY <1>0, <1>7, <2>2 DEF MarkAnalysisReady, ProgressIsKept, Underway, Through, Loop, Finished,
         Paragraph
    <3> QED
      BY <1>1, <1>2, <2>1, <2>2, <3>1 DEF SetArticle
  <2> QED
    BY <1>1, <1>7, <2>1, <2>2 DEF MarkAnalysisReady
<1>8. CASE PreflightFailBlock \/ FailBlock \/ MarkBlockProcessing
  <2>1. UNCHANGED <<article, active, published>>
    BY <1>8 DEF PreflightFailBlock, FailBlock, MarkBlockProcessing
  <2>2. CASE UNCHANGED block
    BY <1>1, <2>1, <2>2
  <2>3. ASSUME NEW c \in Paragraph, NEW status \in {"processing", "failed"},
               SetBlock(c, status), article[Served] # "ready"
        PROVE  Goal
    BY <1>0, <1>1, <2>1, <2>3, BlockUpdate DEF SetBlock, Changed, BlockStates
  <2>4. UNCHANGED block \/ \E c \in Paragraph, status \in {"processing", "failed"} :
                              SetBlock(c, status) /\ article[Served] # "ready"
    <3>1. at \notin Free
      BY <1>8 DEF PreflightFailBlock, FailBlock, MarkBlockProcessing, Free
    <3>2. CASE PreflightFailBlock
      BY <1>0, <1>1, <3>1, <3>2, RunnerJob DEF PreflightFailBlock
    <3>3. CASE MarkBlockProcessing
      <4>1. here \in Paragraph
        BY <1>0, <3>3 DEF MarkBlockProcessing, RunnerHoldsItsLease, Loop
      <4> QED
        BY <1>0, <1>1, <3>1, <3>3, <4>1, RunnerJob DEF MarkBlockProcessing
    <3>4. CASE FailBlock
      BY <1>0, <3>4 DEF FailBlock, ProgressIsKept, Underway
    <3> QED
      BY <1>8, <3>2, <3>3, <3>4
  <2> QED
    BY <2>2, <2>3, <2>4
<1>9. CASE ResetBlocks
  <2>1. UNCHANGED <<article, active, published>>
    BY <1>9 DEF ResetBlocks
  <2>2. CASE Current
    <3>1. article[Served] = "processing"
      BY <1>0, <1>9, <2>2 DEF ResetBlocks, ProgressIsKept, Underway
    <3>2. block' = [block EXCEPT ![Served] = [b \in Paragraph |-> "pending"]]
      BY <1>9, <2>2 DEF ResetBlocks
    <3>3. \A a \in Article, b \in Paragraph :
             block'[a][b] = IF a = Served THEN "pending" ELSE block[a][b]
      BY <1>2, <3>2
    <3> QED
      BY <1>1, <2>1, <3>1, <3>3
  <2>3. CASE ~Current
    <3>1. block' = block
      BY <1>2, <1>9, <2>3 DEF ResetBlocks
    <3> QED
      BY <1>1, <2>1, <3>1
  <2> QED
    BY <2>2, <2>3
<1>10. CASE Publish
  <2>1. CASE UNCHANGED <<block, published>>
    BY <1>1, <1>10, <2>1 DEF Publish
  <2>2. CASE /\ Publishable(here)
             /\ SetBlock(here, "ready")
             /\ published' = [published EXCEPT ![Served][here] = lease.job]
    <3>1. /\ UNCHANGED <<article, active>>
          /\ lease.job \in Job
          /\ active[Served] = lease.job
      BY <1>0, <1>10, <2>2, RunnerJob DEF Publish, Publishable, Current, Free
    <3>2. \A a \in Article, b \in Paragraph :
             block'[a][b] = IF a = Served /\ b = here THEN "ready" ELSE block[a][b]
      BY <1>0, <2>2, BlockUpdate DEF SetBlock, Changed, BlockStates
    <3>3. \A a \in Article, b \in Paragraph :
             published'[a][b] = IF a = Served /\ b = here THEN lease.job ELSE published[a][b]
      BY <1>0, <2>2, <3>1, PublishedUpdate DEF Changed
    <3> QED
      BY <1>1, <3>1, <3>2, <3>3
  <2> QED
    BY <1>10, <2>1, <2>2 DEF Publish
<1>11. CASE Restart
  <2>1. /\ UNCHANGED <<active, published>>
        /\ \A a \in Article : article'[a] = "ready" <=> article[a] = "ready"
        /\ \A a \in Article, b \in Paragraph : block'[a][b] = "ready" <=> block[a][b] = "ready"
    BY <1>2, <1>11 DEF Restart, RecoverInterrupted
  <2> QED
    BY <1>1, <2>1
<1>12. ASSUME \/ RunnerSweep \/ ReconcileTerminalJobRuns \/ ClaimWork \/ PreflightFail
              \/ RejectPayload \/ StartRun \/ CheckOwnership \/ RunStages \/ HeartbeatParagraph \/ Audit
              \/ FinishRun \/ CompleteJob \/ LeaseLost \/ FinishFailedRun \/ FailJob
              \/ HeartbeatGoroutine \/ Sweep \/ ReconcileElsewhere \/ Crash
              \/ (\E j \in Job : Time(j)) \/ UNCHANGED analysisVars
       PROVE  UNCHANGED <<article, active, block, published>>
  BY <1>12 DEF RunnerSweep, ReconcileTerminalJobRuns, ClaimWork, PreflightFail, RejectPayload,
     StartRun, CheckOwnership, RunStages, HeartbeatParagraph, Audit, FinishRun, CompleteJob, LeaseLost,
     FinishFailedRun, FailJob, HeartbeatGoroutine, Sweep, ReconcileElsewhere, Crash, Time,
     analysisVars, rows
<1> QED
  BY <1>3, <1>4, <1>5, <1>6, <1>7, <1>8, <1>9, <1>10, <1>11, <1>12 DEF AnalysisNext, RunnerStep

-----------------------------------------------------------------------------
(* The progress of a run.                                                  *)

\* From one point of a run to the next the runner adds a paragraph to what it
\* has published, or starts over, and a request that takes its article over
\* leaves the article queued for another job.
LEMMA StepKeepsProgress ==
    ASSUME AnalysisInv, [AnalysisNext]_analysisVars
    PROVE  ProgressIsKept'
<1> DEFINE Points == Underway \cup {"finish", "complete"}
<1>0. /\ TypeOK /\ AnalysisTypeOK /\ RunnerHoldsItsLease /\ ProgressIsKept
      /\ Blocks \in Nat \ {0}
  BY AnalysisAssumption DEF AnalysisInv
<1>1. CASE at' \notin Points
  BY <1>1 DEF ProgressIsKept, Finished, Underway
<1> SUFFICES ASSUME at' \in Points PROVE ProgressIsKept'
  BY <1>1
<1> USE DEF Underway, Loop, Through
<1>2. at \notin Free /\ lease' = lease
  <2>1. ASSUME \/ \E a \in Article : \/ CreateArticle(a) \/ CreateArticleUnavailable(a)
                                     \/ \E j \in Job : QueueAnalysis(a, j)
               \/ Sweep \/ ReconcileElsewhere \/ HeartbeatGoroutine \/ (\E j \in Job : Time(j))
               \/ UNCHANGED analysisVars
        PROVE  UNCHANGED <<at, lease>>
    BY <2>1 DEF CreateArticle, CreateArticleUnavailable, QueueAnalysis, Sweep,
       ReconcileElsewhere, HeartbeatGoroutine, Time, analysisVars, runner
  <2>2. ASSUME \/ RunnerSweep \/ ReconcileTerminalJobRuns \/ ClaimWork
               \/ PreflightFail \/ RejectPayload \/ PreflightFailArticle \/ PreflightFailBlock \/ CompleteJob \/ FailJob \/ Crash
               \/ LeaseLost \/ FailBlock \/ FinishFailedRun \/ FailArticle \/ Restart
        PROVE  at' \notin Points
    BY <2>2 DEF RunnerSweep, ReconcileTerminalJobRuns, ClaimWork, PreflightFail, RejectPayload,
       PreflightFailArticle, PreflightFailBlock, CompleteJob, FailJob, Crash, LeaseLost,
       FailBlock, FinishFailedRun, FailArticle, Restart, Go, Return
  <2>3. ASSUME \/ StartAnalysis \/ ResetBlocks \/ StartRun \/ CheckOwnership
               \/ MarkBlockProcessing \/ RunStages \/ Publish \/ HeartbeatParagraph \/ Audit
               \/ MarkAnalysisReady \/ FinishRun
        PROVE  at \notin Free /\ lease' = lease
    BY <2>3 DEF StartAnalysis, ResetBlocks, StartRun, CheckOwnership, MarkBlockProcessing,
       RunStages, Publish, HeartbeatParagraph, Audit, MarkAnalysisReady, FinishRun, Go, Free
  <2> QED
    BY <2>1, <2>2, <2>3 DEF AnalysisNext, RunnerStep, Free
<1> DEFINE a == Served
<1>3. a \in Article /\ lease.job \in Job /\ Served' = a /\ lease.job' = lease.job
  BY <1>0, <1>2, RunnerJob DEF Served
<1>4. /\ \A b \in 1..Finished : published[a][b] = lease.job
      /\ at \in Underway => /\ article[a] = IF active[a] = lease.job THEN "processing" ELSE "queued"
                            /\ active[a] = lease.job => \A b \in 1..Finished : block[a][b] = "ready"
  BY <1>0 DEF ProgressIsKept, Current
<1>5. SUFFICES
        /\ \A b \in 1..(Finished') : published'[a][b] = lease.job
        /\ at' \in Underway =>
              /\ article'[a] = IF active'[a] = lease.job THEN "processing" ELSE "queued"
              /\ active'[a] = lease.job => \A b \in 1..(Finished') : block'[a][b] = "ready"
  BY <1>3 DEF ProgressIsKept, Current
<1> DEFINE Kept(n) ==
        /\ \A b \in 1..n : published'[a][b] = lease.job
        /\ at' \in Underway =>
              /\ article'[a] = IF active'[a] = lease.job THEN "processing" ELSE "queued"
              /\ active'[a] = lease.job => \A b \in 1..n : block'[a][b] = "ready"
<1> SUFFICES Kept(Finished')
  BY <1>5
<1> HIDE DEF a
<1>6. ASSUME NEW o \in Article,
             \/ CreateArticle(o) \/ CreateArticleUnavailable(o)
             \/ \E j \in Job : QueueAnalysis(o, j)
      PROVE  Kept(Finished')
  <2>1. UNCHANGED <<published, at, here>>
    BY <1>6 DEF CreateArticle, CreateArticleUnavailable, QueueAnalysis, runner
  <2>2. Finished' = Finished
    BY <2>1 DEF Finished
  <2>3. CASE o # a
    <3>1. /\ article'[a] = article[a] /\ active'[a] = active[a] /\ block'[a] = block[a]
      BY <1>0, <1>3, <1>6, <2>3 DEF CreateArticle, CreateArticleUnavailable, QueueAnalysis,
         Activate, AnalysisTypeOK
    <3> QED
      BY <1>4, <2>1, <2>2, <3>1
  <2>4. CASE o = a /\ at \in Underway
    <3>1. state[lease.job] # "absent"
      BY <1>0, <1>2 DEF RunnerHoldsItsLease
    <3>2. article[a] \in {"processing", "queued"}
      BY <1>4, <2>4
    <3>3. PICK j \in Job : QueueAnalysis(a, j)
      BY <1>6, <2>4, <3>2 DEF CreateArticle, CreateArticleUnavailable
    <3>4. active'[a] = j /\ article'[a] = "queued"
      BY <1>0, <1>3, <3>3 DEF QueueAnalysis, Activate, AnalysisTypeOK
    <3>5. j # lease.job
      BY <3>1, <3>2, <3>3 DEF QueueAnalysis
    <3> QED
      BY <1>4, <2>1, <2>2, <3>4, <3>5
  <2> QED
    BY <1>4, <2>1, <2>2, <2>3, <2>4
<1>7. ASSUME UNCHANGED <<article, active, block, published>>,
             Finished' \in {0, Finished}, at' \in Underway => at \in Underway
      PROVE  Kept(Finished')
  BY <1>4, <1>7
<1>8. CASE StartAnalysis
  <2>1. Finished' = 0
    BY <1>8 DEF StartAnalysis, Go, Finished
  <2>2. Current /\ SetArticle("processing") /\ UNCHANGED active
    BY <1>8 DEF StartAnalysis, Go
  <2>3. active'[a] = lease.job /\ article'[a] = "processing"
    BY <1>0, <1>3, <2>2 DEF Current, SetArticle, AnalysisTypeOK, a
  <2> QED
    BY <2>1, <2>3
<1>9. CASE ResetBlocks
  <2>1. Finished' = 0 /\ at \in Underway
    BY <1>9 DEF ResetBlocks, Go, Finished
  <2> QED
    BY <1>4, <1>9, <2>1 DEF ResetBlocks
<1>10. CASE MarkBlockProcessing
  <2>1. UNCHANGED <<article, active, published>> /\ at \in Underway
    BY <1>10 DEF MarkBlockProcessing
  <2>2. CASE SetBlock(here, "processing") /\ Go("stage")
    <3>1. Finished' = Finished /\ Finished = here - 1 /\ here \in Paragraph
      BY <1>0, <1>10, <2>2 DEF MarkBlockProcessing, Go, Finished, RunnerHoldsItsLease
    <3>2. \A b \in 1..(here - 1) : block'[a][b] = block[a][b]
      BY <1>0, <1>3, <2>2, <3>1, BlockUpdate
         DEF SetBlock, Changed, BlockStates, Paragraph, a
    <3> QED
      BY <1>4, <2>1, <3>1, <3>2
  <2>3. CASE UNCHANGED block /\ Go("failblock")
    BY <1>7, <2>1, <2>3 DEF Go, Finished
  <2> QED
    BY <1>10, <2>2, <2>3 DEF MarkBlockProcessing
<1>11. CASE Publish
  <2>1. UNCHANGED <<article, active>> /\ at \in Underway
    BY <1>11 DEF Publish
  <2>2. CASE /\ Publishable(here)
             /\ SetBlock(here, "ready")
             /\ published' = [published EXCEPT ![Served][here] = lease.job]
             /\ Go("beat")
    <3>1. Finished' = here /\ Finished = here - 1 /\ here \in Paragraph
      BY <1>0, <1>11, <2>2 DEF Publish, Go, Finished, RunnerHoldsItsLease
    <3>2. \A b \in Paragraph : block'[a][b] = IF b = here THEN "ready" ELSE block[a][b]
      BY <1>0, <1>3, <2>2, BlockUpdate DEF SetBlock, Changed, BlockStates, a
    <3>3. \A b \in Paragraph : published'[a][b] = IF b = here THEN lease.job ELSE published[a][b]
      BY <1>0, <1>3, <2>2, PublishedUpdate DEF Changed, a
    <3>4. \A b \in 1..here : b \in Paragraph /\ (b = here \/ b \in 1..(here - 1))
      BY <1>0, <3>1 DEF Paragraph
    <3> QED
      BY <1>4, <2>1, <3>1, <3>2, <3>3, <3>4
  <2>3. CASE UNCHANGED <<block, published>> /\ Go("failblock")
    BY <1>7, <2>1, <2>3 DEF Go, Finished
  <2> QED
    BY <1>11, <2>2, <2>3 DEF Publish
<1>12. CASE MarkAnalysisReady
  <2>1. UNCHANGED <<active, block, published>> /\ at = "ready"
    BY <1>12 DEF MarkAnalysisReady
  <2>2. CASE Go("finish")
    <3>1. Finished' = Finished /\ at' \notin Underway
      BY <2>1, <2>2 DEF Go, Finished
    <3> QED
      BY <1>4, <2>1, <3>1
  <2>3. CASE UNCHANGED article /\ Go("failblock")
    BY <1>7, <2>1, <2>3 DEF Go, Finished
  <2> QED
    BY <1>12, <2>2, <2>3 DEF MarkAnalysisReady
<1>13. CASE HeartbeatParagraph
  <2>1. UNCHANGED <<article, active, block, published>> /\ at = "beat" /\ here \in Paragraph
    BY <1>0, <1>13 DEF HeartbeatParagraph, rows, RunnerHoldsItsLease
  <2>2. CASE NextParagraph
    <3>1. Finished' = Finished
      BY <1>0, <2>1, <2>2 DEF NextParagraph, Finished, Paragraph
    <3> QED
      BY <1>7, <2>1, <3>1
  <2> QED
    BY <1>7, <1>13, <2>1, <2>2 DEF HeartbeatParagraph, Finished
<1>14. CASE StartRun \/ CheckOwnership \/ RunStages \/ Audit \/ FinishRun
  <2>1. UNCHANGED <<article, active, block, published>>
    BY <1>14 DEF StartRun, CheckOwnership, RunStages, Audit, FinishRun, rows
  <2>2. Finished' \in {0, Finished} /\ (at' \in Underway => at \in Underway)
    BY <1>14 DEF StartRun, CheckOwnership, RunStages, Audit, FinishRun, Go, Finished
  <2> QED
    BY <1>7, <2>1, <2>2
<1>15. CASE \/ HeartbeatGoroutine \/ Sweep \/ ReconcileElsewhere
            \/ (\E j \in Job : Time(j)) \/ UNCHANGED analysisVars
  <2>1. UNCHANGED <<article, active, block, published, at, here>>
    BY <1>15 DEF HeartbeatGoroutine, Sweep, ReconcileElsewhere, Time, analysisVars, rows, runner
  <2> QED
    BY <1>7, <2>1 DEF Finished
<1>16. CASE \/ RunnerSweep \/ ReconcileTerminalJobRuns \/ ClaimWork
            \/ PreflightFail \/ RejectPayload \/ PreflightFailArticle \/ PreflightFailBlock \/ CompleteJob \/ FailJob \/ Crash
            \/ LeaseLost \/ FailBlock \/ FinishFailedRun \/ FailArticle \/ Restart
  <2>1. at' \notin Points
    BY <1>16 DEF RunnerSweep, ReconcileTerminalJobRuns, ClaimWork, PreflightFail, RejectPayload,
       PreflightFailArticle, PreflightFailBlock, CompleteJob, FailJob, Crash, LeaseLost,
       FailBlock, FinishFailedRun, FailArticle, Restart, Go, Return
  <2> QED
    BY <2>1
<1> QED
  BY <1>6, <1>8, <1>9, <1>10, <1>11, <1>12, <1>13, <1>14, <1>15, <1>16 DEF AnalysisNext, RunnerStep

-----------------------------------------------------------------------------
(* Requests that take over.                                                *)

\* Only a request changes the active job of an article.
LEMMA OnlyRequestsActivate ==
    ASSUME [AnalysisNext]_analysisVars
    PROVE  Requests \/ active' = active
<1>1. ASSUME NEW a \in Article,
             \/ CreateArticle(a) \/ CreateArticleUnavailable(a)
             \/ \E j \in Job : QueueAnalysis(a, j)
      PROVE  Requests \/ active' = active
  BY <1>1 DEF CreateArticleUnavailable, Requests
<1>2. ASSUME RunnerStep PROVE active' = active
  BY <1>2 DEF RunnerStep, RunnerSweep, ReconcileTerminalJobRuns, ClaimWork, PreflightFail,
     RejectPayload, PreflightFailArticle, PreflightFailBlock, StartAnalysis, ResetBlocks, StartRun,
     CheckOwnership, MarkBlockProcessing, RunStages, Publish, HeartbeatParagraph, Audit,
     MarkAnalysisReady, FinishRun, CompleteJob, LeaseLost, FailBlock, FinishFailedRun,
     FailArticle, FailJob, Restart, rows
<1>3. ASSUME \/ HeartbeatGoroutine \/ Sweep \/ ReconcileElsewhere \/ Crash
             \/ (\E j \in Job : Time(j)) \/ UNCHANGED analysisVars
      PROVE  active' = active
  BY <1>3 DEF HeartbeatGoroutine, Sweep, ReconcileElsewhere, Crash, Time, analysisVars, rows
<1> QED
  BY <1>1, <1>2, <1>3 DEF AnalysisNext

\* A request that makes the row of a job orders it after every row there is.
LEMMA RequestOrders ==
    ASSUME TypeOK, ForcedRequestsTakeOver, NEW a \in Article, NEW j \in Job,
           OwnerId[j] = a, RowsStay, state'[j] # "absent",
           active' = [active EXCEPT ![a] = j],
           active \in [Article -> Job \cup {None}],
           older' = older \/ older' = older \cup {<<i, j>> : i \in {k \in Job : state[k] # "absent"}},
           j # Normal[a] => \A i \in Job : OwnerId[i] = a /\ <<i, j>> \in older'
                                              => state'[i] \in TerminalStates
    PROVE  ForcedRequestsTakeOver'
<1> USE DEF ForcedRequestsTakeOver
<1>1. \A e \in older' : e \in older \/ (\E i \in Job : state[i] # "absent" /\ e = <<i, j>>)
  OBVIOUS
<1>2. \A e \in older : e[1] \in Job /\ e[2] \in Job
  BY DEF TypeOK
<1>3. \A e \in older' : state'[e[1]] # "absent" /\ state'[e[2]] # "absent"
  BY <1>1, <1>2 DEF RowsStay
<1>4. \A o \in Article : active'[o] = IF o = a THEN j ELSE active[o]
  OBVIOUS
<1>5. ASSUME NEW o \in Article, o # a, active[o] \notin {None, Normal[o]},
             NEW i \in Job, OwnerId[i] = o, <<i, active[o]>> \in older'
      PROVE  state'[i] \in TerminalStates
  <2>1. active[o] # j
    BY <1>5
  <2>2. <<i, active[o]>> \in older
    BY <1>1, <1>5, <2>1
  <2> QED
    BY <1>5, <2>2 DEF RowsStay
<1>6. \A o \in Article : active'[o] # None => OwnerId[active'[o]] = o
  BY <1>4
<1>7. ASSUME NEW o \in Article, active'[o] \notin {None, Normal[o]},
             NEW i \in Job, OwnerId[i] = o, <<i, active'[o]>> \in older'
      PROVE  state'[i] \in TerminalStates
  BY <1>4, <1>5, <1>7
<1> QED
  BY <1>3, <1>6, <1>7

\* A forced request ends the older jobs of its article in the same step.
LEMMA StepTakesOver ==
    ASSUME AnalysisInv, RowsStay, older' = older \/ Requests, [AnalysisNext]_analysisVars
    PROVE  ForcedRequestsTakeOver'
<1>0. /\ TypeOK /\ ForcedRequestsTakeOver
      /\ active \in [Article -> Job \cup {None}]
      /\ \A a \in Article : Normal[a] \in Job /\ OwnerId[Normal[a]] = a
  BY AnalysisAssumption DEF AnalysisInv, AnalysisTypeOK
<1>1. CASE older' = older /\ active' = active
  BY <1>0, <1>1 DEF ForcedRequestsTakeOver, RowsStay, TypeOK
<1>2. ASSUME NEW a \in Article, CreateArticle(a) PROVE ForcedRequestsTakeOver'
  <2>1. Enqueue(Normal[a]) /\ active' = [active EXCEPT ![a] = Normal[a]]
    BY <1>2 DEF CreateArticle, Activate
  <2>2. /\ older' = older \cup {<<i, Normal[a]>> : i \in {k \in Job : state[k] # "absent"}}
        /\ state'[Normal[a]] # "absent"
    BY <1>0, <2>1 DEF Enqueue, TypeOK
  <2> QED
    BY <1>0, <2>1, <2>2, RequestOrders
<1>3. ASSUME NEW a \in Article, NEW j \in Job, QueueAnalysis(a, j) PROVE ForcedRequestsTakeOver'
  <2> DEFINE S == IF j # Normal[a] THEN Unfinished(a) ELSE {}
  <2>1. /\ OwnerId[j] = a /\ Supersede(S, j) /\ active' = [active EXCEPT ![a] = j]
        /\ j # Normal[a] => state[j] = "absent"
    BY <1>3 DEF QueueAnalysis, Activate
  <2>2. S \in {{}, Unfinished(a)}
    OBVIOUS
  <2>3. state'[j] # "absent" /\ \A i \in S : state'[i] = "canceled"
    BY <1>0, <2>1, <2>2, SupersedeRows
  <2>4. \/ older' = older
        \/ older' = older \cup {<<i, j>> : i \in {k \in Job : state[k] # "absent"}}
    BY <2>1 DEF Supersede
  <2>5. ASSUME j # Normal[a], NEW i \in Job, OwnerId[i] = a, <<i, j>> \in older'
        PROVE  state'[i] \in TerminalStates
    <3>1. <<i, j>> \notin older
      BY <1>0, <2>1, <2>5 DEF ForcedRequestsTakeOver
    <3>2. state[i] # "absent"
      BY <2>4, <2>5, <3>1
    <3>3. i \in S \/ state[i] \in TerminalStates
      BY <1>0, <2>5, <3>2 DEF Unfinished, Active, TypeOK, States, ActiveStates
    <3> QED
      BY <2>3, <3>3 DEF RowsStay, TerminalStates
  <2> QED
    BY <1>0, <2>1, <2>3, <2>4, <2>5, RequestOrders
<1> QED
  BY <1>1, <1>2, <1>3, OnlyRequestsActivate DEF Requests

-----------------------------------------------------------------------------
(* Runs.                                                                   *)

\* Every way out of a run closes it.
LEMMA StepClosesRuns ==
    ASSUME AnalysisInv, [AnalysisNext]_analysisVars
    PROVE  RunsAreClosed'
<1> DEFINE Busy == Working \ {"failarticle"}
<1>0. /\ TypeOK /\ AnalysisTypeOK /\ RunnerHoldsItsLease
      /\ \A j \in Job, n \in Attempt : run[j][n] = "running" =>
            at = "down" \/ (at \in Busy /\ lease.job = j /\ lease.attempt = n)
  BY DEF AnalysisInv, RunsAreClosed
<1> USE DEF Working
<1>1. ASSUME \A j \in Job, n \in Attempt : run'[j][n] = "running" => run[j][n] = "running",
             \/ at' = "down"
             \/ at \notin Busy /\ at # "down"
             \/ at' \in Busy /\ lease' = lease /\ at # "down"
             \/ at' = at /\ lease' = lease
      PROVE  RunsAreClosed'
  BY <1>0, <1>1 DEF RunsAreClosed
<1>2. ASSUME NEW status \in {"running", "failed", "succeeded"}, SetRun(status),
             at \notin {"down"}, lease' = lease,
             status = "running" => at' \in Busy
      PROVE  RunsAreClosed'
  <2>1. \A j \in Job, n \in Attempt :
           run'[j][n] = IF j = lease.job /\ n = lease.attempt THEN status ELSE run[j][n]
    BY <1>0, <1>2, RunUpdate DEF Changed, RunStates
  <2>2. \A j \in Job, n \in Attempt :
           run'[j][n] = "running" => j = lease.job /\ n = lease.attempt /\ at' \in Busy
    BY <1>0, <1>2, <2>1
  <2> QED
    BY <1>2, <2>2 DEF RunsAreClosed
<1>3. CASE StartRun \/ FinishRun \/ LeaseLost \/ FinishFailedRun
  BY <1>2, <1>3 DEF StartRun, FinishRun, LeaseLost, FinishFailedRun, Go
<1>4. CASE CloseAbandonedRuns /\ (ReconcileTerminalJobRuns \/ ReconcileElsewhere)
  <2>1. \A j \in Job, n \in Attempt : run'[j][n] = "running" => run[j][n] = "running"
    BY <1>4 DEF CloseAbandonedRuns
  <2>2. \/ at \notin Busy /\ at # "down"
        \/ at' = at /\ lease' = lease
    BY <1>4 DEF ReconcileTerminalJobRuns, ReconcileElsewhere, runner
  <2> QED
    BY <1>1, <2>1, <2>2
<1>5. CASE Restart
  <2>1. \A j \in Job, n \in Attempt : run'[j][n] # "running"
    BY <1>0, <1>5 DEF Restart, RecoverInterrupted, AnalysisTypeOK
  <2> QED
    BY <2>1 DEF RunsAreClosed
<1>6. CASE \/ RunnerSweep \/ ClaimWork \/ PreflightFail \/ RejectPayload \/ PreflightFailArticle
           \/ PreflightFailBlock \/ StartAnalysis \/ ResetBlocks \/ CompleteJob
           \/ FailArticle \/ FailJob \/ Crash
  <2>1. run' = run /\ (at' = "down" \/ (at \notin Busy /\ at # "down"))
    BY <1>6 DEF RunnerSweep, ClaimWork, PreflightFail, RejectPayload, PreflightFailArticle,
       PreflightFailBlock, StartAnalysis, ResetBlocks, CompleteJob, FailArticle, FailJob,
       Crash, rows
  <2> QED
    BY <1>1, <2>1
<1>7. CASE \/ CheckOwnership \/ MarkBlockProcessing \/ RunStages \/ Publish
           \/ HeartbeatParagraph \/ Audit \/ MarkAnalysisReady \/ FailBlock
  <2>1. run' = run /\ at' \in Busy /\ lease' = lease /\ at # "down"
    BY <1>7 DEF CheckOwnership, MarkBlockProcessing, RunStages, Publish, HeartbeatParagraph,
       Audit, MarkAnalysisReady, FailBlock, NextParagraph, Go, rows
  <2> QED
    BY <1>1, <2>1
<1>8. CASE \/ \E a \in Article : \/ CreateArticle(a) \/ CreateArticleUnavailable(a)
                                 \/ \E j \in Job : QueueAnalysis(a, j)
           \/ HeartbeatGoroutine \/ Sweep \/ (\E j \in Job : Time(j))
           \/ UNCHANGED analysisVars
  <2>1. UNCHANGED <<run, at, lease>>
    BY <1>8 DEF CreateArticle, CreateArticleUnavailable, QueueAnalysis, HeartbeatGoroutine,
       Sweep, Time, analysisVars, rows, runner
  <2> QED
    BY <1>1, <2>1
<1>9. ReconcileTerminalJobRuns \/ ReconcileElsewhere => CloseAbandonedRuns
  BY DEF ReconcileTerminalJobRuns, ReconcileElsewhere
<1> QED
  BY <1>3, <1>4, <1>5, <1>6, <1>7, <1>8, <1>9 DEF AnalysisNext, RunnerStep

-----------------------------------------------------------------------------
(* Theorems.                                                               *)

\* Requests, the runner, its heartbeat, sweeps and restarts keep the invariant.
LEMMA StepKeepsAnalysisInv ==
    ASSUME AnalysisInv, [AnalysisNext]_analysisVars
    PROVE  AnalysisInv'
<1>1. TypeOK /\ AnalysisTypeOK /\ RunnerHoldsItsLease
  BY DEF AnalysisInv
<1>2. RowsStay /\ (older' = older \/ Requests)
  BY <1>1, AnalysisRowsStay
<1>3. TypeOK'
  BY <1>2 DEF RowsStay
<1>4. AnalysisTypeOK'
  BY <1>1, StepAnalysisTypes
<1>5. RunnerHoldsItsLease'
  BY <1>2, StepHoldsLease
<1>6. ReadyArticlesAreComplete'
  BY StepKeepsComplete
<1>7. ProgressIsKept'
  BY StepKeepsProgress
<1>8. ForcedRequestsTakeOver'
  BY <1>2, StepTakesOver
<1>9. RunsAreClosed'
  BY StepClosesRuns
<1> QED
  BY <1>3, <1>4, <1>5, <1>6, <1>7, <1>8, <1>9 DEF AnalysisInv

\* The database starts empty and the runner at its sweep.
LEMMA AnalysisInitInv == AnalysisInit => AnalysisInv
<1> SUFFICES ASSUME AnalysisInit PROVE AnalysisInv
  OBVIOUS
<1>1. TypeOK
  BY InitTypeOK DEF AnalysisInit
<1>2. AnalysisTypeOK
  BY DEF AnalysisInit, AnalysisTypeOK, Steps
<1>3. at = "sweep" /\ older = {}
  BY DEF AnalysisInit, Init
<1>4. RunnerHoldsItsLease /\ ProgressIsKept
  BY <1>3 DEF RunnerHoldsItsLease, ProgressIsKept, Free, Loop, Through, Underway, Finished
<1>5. ReadyArticlesAreComplete /\ ForcedRequestsTakeOver
  BY <1>3 DEF AnalysisInit, ReadyArticlesAreComplete, ForcedRequestsTakeOver
<1>6. RunsAreClosed
  BY DEF AnalysisInit, RunsAreClosed
<1> QED
  BY <1>1, <1>2, <1>4, <1>5, <1>6 DEF AnalysisInv

\* The inductive invariant of the runner and its article (pipeline_runner.go).
THEOREM AnalysisCorrect == AnalysisSpec => []AnalysisInv
<1>1. AnalysisInv /\ [AnalysisNext]_analysisVars => AnalysisInv'
  BY StepKeepsAnalysisInv
<1> QED
  BY <1>1, AnalysisInitInv, PTL DEF AnalysisSpec

\* Whatever requests, expired leases, failures and restarts come between the
\* transactions of a run, an article shown as ready has every paragraph ready
\* and published by its active job (PersistAnalysisChunk, MarkAnalysisReady).
THEOREM ReadyArticlesStayComplete == AnalysisSpec => []ReadyArticlesAreComplete
<1>1. AnalysisInv => ReadyArticlesAreComplete
  BY DEF AnalysisInv
<1> QED
  BY <1>1, AnalysisCorrect, PTL

\* Every way out of process closes its analysis_run, and a start closes those
\* a crash left open (leaseLostPath, failRun, RecoverInterrupted).
THEOREM OpenRunsHaveARunner == AnalysisSpec => []OpenRunsAreWorkedOn
<1>1. AnalysisInv => OpenRunsAreWorkedOn
  BY DEF AnalysisInv, RunsAreClosed, OpenRunsAreWorkedOn
<1> QED
  BY <1>1, AnalysisCorrect, PTL

\* A job succeeds only with every paragraph of its article published by it and
\* no newer forced request active (Complete, CancelOwnerJobsTx).
THEOREM SuccessIsPublication == AnalysisSpec => SuccessMeansPublished
<1> DEFINE Success(j) ==
        state[j] # "succeeded" /\ state'[j] = "succeeded" =>
          LET a == OwnerId[j] IN
          /\ active[a] = Normal[a] \/ <<j, active[a]>> \notin older
          /\ \A b \in Paragraph : published[a][b] = j
<1>1. ASSUME AnalysisInv, [AnalysisNext]_analysisVars, NEW j \in Job PROVE Success(j)
  <2> SUFFICES ASSUME state[j] # "succeeded", state'[j] = "succeeded"
               PROVE  /\ active[OwnerId[j]] = Normal[OwnerId[j]]
                           \/ <<j, active[OwnerId[j]]>> \notin older
                      /\ \A b \in Paragraph : published[OwnerId[j]][b] = j
    OBVIOUS
  <2>1. /\ TypeOK /\ AnalysisTypeOK /\ RunnerHoldsItsLease /\ ProgressIsKept
        /\ ForcedRequestsTakeOver
    BY <1>1 DEF AnalysisInv
  <2>2. Completes
    BY <1>1, <2>1, AnalysisRowsStay
  <2>3. at = "complete" /\ Active(lease.job) /\ lease.job \in Job /\ Served \in Article
    BY <2>1, <2>2, RunnerJob DEF Completes, CompleteJob, CompletionApplies, Free
  <2>4. j = lease.job
    BY <2>1, <2>2, <2>3 DEF Completes, Complete, TypeOK
  <2>5. Served = OwnerId[j] /\ state[j] \notin TerminalStates
    BY <2>3, <2>4 DEF Served, Active, ActiveStates, TerminalStates
  <2>6. \A b \in Paragraph : published[OwnerId[j]][b] = j
    BY <2>1, <2>3, <2>4, <2>5 DEF ProgressIsKept, Finished, Loop, Through, Paragraph
  <2>7. ASSUME active[OwnerId[j]] # Normal[OwnerId[j]], <<j, active[OwnerId[j]]>> \in older
        PROVE  FALSE
    <3>1. active[OwnerId[j]] # None
      BY <2>1, <2>7, AnalysisAssumption DEF TypeOK
    <3>2. OwnerId[j] \in Article
      BY <2>3, <2>5
    <3> QED
      BY <2>1, <2>5, <2>7, <3>1, <3>2 DEF ForcedRequestsTakeOver
  <2> QED
    BY <2>6, <2>7
<1>2. AnalysisInv /\ [AnalysisNext]_analysisVars
         => [\A j \in Job : Success(j)]_analysisVars
  BY <1>1
<1> QED
  BY <1>2, AnalysisCorrect, PTL DEF AnalysisSpec, SuccessMeansPublished

\* No revocation reaches an analysis job, so a queued one can always be
\* claimed again (finishTx, RecoverExpiredTx, EnqueueTx).
THEOREM QueuedAnalysesCanRun == AnalysisSpec => []QueuedRowsHaveAttemptsLeft
<1> DEFINE Kept == \A j \in Job : /\ state'[j] = "queued" => attempt'[j] < MaxAttempts[j]
                                  /\ state'[j] = "absent" => attempt'[j] = 0
<1>1. AnalysisInit => BudgetInv
  BY InitTypeOK DEF AnalysisInit, Init, BudgetInv, QueuedRowsHaveAttemptsLeft
<1>2. ASSUME AnalysisInv, BudgetInv, [AnalysisNext]_analysisVars PROVE BudgetInv'
  <2>0. TypeOK /\ RunnerHoldsItsLease
    BY <1>2 DEF AnalysisInv
  <2>1. TypeOK'
    BY <1>2, StepKeepsAnalysisInv DEF AnalysisInv
  <2>2. \A j \in Job : /\ state[j] = "queued" => attempt[j] < MaxAttempts[j]
                       /\ state[j] = "absent" => attempt[j] = 0
    BY <1>2 DEF BudgetInv, QueuedRowsHaveAttemptsLeft
  <2>3. Kept => BudgetInv'
    BY <2>1 DEF BudgetInv, QueuedRowsHaveAttemptsLeft
  <2>4. CASE RoutineStep
    BY <1>2, <2>4, RoutineKeepsBudget
  <2>5. CASE Completes
    <3>1. lease.job \in Job
      BY <2>0, <2>5, RunnerJob DEF Completes, CompleteJob, Free
    <3>2. Kept
      BY <2>0, <2>2, <2>5, <3>1 DEF Completes, Complete, TypeOK
    <3> QED
      BY <2>3, <3>2
  <2>6. ASSUME NEW a \in Article, CreateArticle(a) PROVE BudgetInv'
    <3>1. Enqueue(Normal[a]) /\ Normal[a] \in Job
      BY <2>6, AnalysisAssumption DEF CreateArticle
    <3>2. /\ attempt' = attempt /\ state[Normal[a]] = "absent"
          /\ \A i \in Job : i = Normal[a] \/ state'[i] = state[i]
          /\ state'[Normal[a]] = "queued"
      BY <2>0, <3>1 DEF Enqueue, leaseVars, TypeOK
    <3>3. Kept
      BY <2>2, <3>1, <3>2, JobsAssumption
    <3> QED
      BY <2>3, <3>3
  <2>7. ASSUME NEW a \in Article, NEW j \in Job, QueueAnalysis(a, j) PROVE BudgetInv'
    <3>1. PICK S \in {{}, Unfinished(a)} : Supersede(S, j)
      BY <2>7 DEF QueueAnalysis
    <3>2. /\ attempt' = attempt
          /\ \A i \in Job : /\ state[i] # "absent" => state'[i] # "absent"
                            /\ state'[i] = "queued" => state[i] \in {"queued", "absent"}
      BY <2>0, <3>1, SupersedeRows
    <3>3. Kept
      BY <2>2, <3>2, JobsAssumption
    <3> QED
      BY <2>3, <3>3
  <2> QED
    BY <1>2, <2>0, <2>4, <2>5, <2>6, <2>7, AnalysisRows DEF Requests
<1>3. BudgetInv => QueuedRowsHaveAttemptsLeft
  BY DEF BudgetInv
<1> QED
  BY <1>1, <1>2, <1>3, AnalysisCorrect, PTL DEF AnalysisSpec
=============================================================================
