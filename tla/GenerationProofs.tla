-------------------------- MODULE GenerationProofs --------------------------
(* Theorems about generation on demand, through the requests of the         *)
(* dictionary and through those of the sentence translation.                *)
EXTENDS Dictionary, Translation, JobsProofs

USE GenerationAssumption

-----------------------------------------------------------------------------
(* The inductive invariant.                                                *)

RunStatus == {"none", "running", "failed", "succeeded"}

GenTypeOK ==
    /\ TypeOK
    /\ saved   \in [Subject -> GenJob \cup {None}]
    /\ lastJob \in [Subject -> GenJob \cup {None}]
    /\ runOf   \in [GenJob -> RunStatus]
    /\ stage   \in [Kind -> Stages]
    /\ held    \in [Kind -> Credential \cup {None}]

\* Only requests make jobs, and a leased one has used its only attempt.
OnlyRequestsMakeJobs ==
    \A j \in Job : /\ state[j] # "absent" => j \in GenJob
                   /\ Active(j) => attempt[j] = 1

\* last_job_id names the newest job of its subject, and no other is open.
PointersAreCurrent ==
    /\ \A s \in Subject : lastJob[s] # None => OwnerId[lastJob[s]] = s
    /\ \A j \in GenJob : state[j] # "absent" =>
          LET last == lastJob[OwnerId[j]] IN
          /\ last # None
          /\ last = j \/ <<j, last>> \in older
          /\ Open(j) => last = j

\* A job is in the hands of one runner, and once it succeeded of none.
RunnersAreApart ==
    /\ \A k \in Kind : stage[k] \in InFlight =>
          /\ held[k] \in issued
          /\ state[held[k].job] \in ActiveStates \cup {"failed", "canceled"}
    /\ \A k, l \in Kind : /\ stage[k] \in InFlight /\ stage[l] \in InFlight
                          /\ held[k].job = held[l].job
                          => k = l

GenInv ==
    /\ GenTypeOK
    /\ OnlyRequestsMakeJobs
    /\ PointersAreCurrent
    /\ RunnersAreApart
    /\ SavedResultsAreAcknowledged

-----------------------------------------------------------------------------
(* Steps that make no job, take none and publish nothing.                  *)

\* Rows only come to an end, or start to run.
Ends ==
    /\ UNCHANGED <<attempt, older, issued>>
    /\ \A j \in Job : \/ state'[j] = state[j]
                      \/ Open(j) /\ state'[j] \in {"failed", "canceled"}
                      \/ Active(j) /\ state'[j] = "running"

\* A single attempt: nothing a sweep, a report or time does to a job opens it
\* again.
LEMMA RoutineEnds ==
    ASSUME TypeOK, OnlyRequestsMakeJobs,
           \/ RecoverExpired
           \/ \E c \in issued : Heartbeat(c) \/ Fail(c, FALSE)
           \/ \E j \in Job : LeaseExpires(j)
           \/ UNCHANGED vars
    PROVE  Ends /\ TypeOK'
<1>0. TypeOK'
  <2>1. RoutineStep
    BY DEF RoutineStep, RecoverExpired
  <2> QED
    BY <2>1, RoutineSteps
<1> SUFFICES Ends
  BY <1>0
<1>1. CASE RecoverExpired
  <2>1. /\ UNCHANGED <<attempt, older, issued>>
        /\ \A j \in Job \ Expired : \/ state'[j] = state[j]
                                    \/ (state[j] = "queued" /\ state'[j] = "failed")
        /\ \A j \in Expired : /\ Active(j) /\ state'[j] \in {"queued", "failed"}
                              /\ state'[j] = "queued" => attempt[j] < MaxAttempts[j]
    BY <1>1, RecoverEffect DEF RecoverExpired, RecoverRows
  <2>2. \A j \in Expired : Active(j) /\ state'[j] = "failed"
    <3>1. ASSUME NEW j \in Expired PROVE ~(attempt[j] < MaxAttempts[j])
      <4>1. j \in Job /\ Active(j)
        BY DEF Expired
      <4>2. attempt[j] = 1 /\ j \in GenJob
        BY <4>1 DEF OnlyRequestsMakeJobs, Active, ActiveStates
      <4> QED
        BY <4>2
    <3> QED
      BY <2>1, <3>1
  <2> QED
    BY <2>1, <2>2 DEF Ends, Open
<1>2. ASSUME NEW c \in issued, Heartbeat(c) \/ Fail(c, FALSE) PROVE Ends
  <2>1. c.job \in Job
    BY DEF Credential, TypeOK
  <2>2. /\ UNCHANGED <<attempt, older, issued>> /\ Active(c.job)
        /\ \E s \in {"running", "failed"} : state' = [state EXCEPT ![c.job] = s]
    BY <1>2 DEF Heartbeat, Fail, FailureApplies, Active, ActiveStates, leaseVars
  <2> QED
    BY <2>1, <2>2 DEF Ends, Open, TypeOK
<1>3. CASE (\E j \in Job : LeaseExpires(j)) \/ UNCHANGED vars
  BY <1>3 DEF LeaseExpires, vars, Ends
<1> QED
  BY <1>1, <1>2, <1>3

\* The runners move on and runs change, but no result is saved.
LEMMA QuietKeepsGenInv ==
    ASSUME GenInv, GenTypeOK', Ends,
           UNCHANGED <<saved, lastJob>>,
           \A k \in Kind : stage'[k] \in InFlight => stage[k] \in InFlight /\ held'[k] = held[k],
           \A j \in GenJob : \/ runOf'[j] = runOf[j]
                             \/ state[j] # "succeeded" /\ runOf'[j] # "succeeded"
    PROVE  GenInv'
<1>1. \A j \in Job : /\ state'[j] \in ActiveStates => Active(j)
                     /\ state'[j] = "absent" <=> state[j] = "absent"
                     /\ state'[j] = "succeeded" <=> state[j] = "succeeded"
                     /\ Open(j)' => Open(j)
  BY DEF Ends, Open, Active, ActiveStates
<1>2. OnlyRequestsMakeJobs'
  BY <1>1 DEF GenInv, OnlyRequestsMakeJobs, Ends, Active
<1>3. PointersAreCurrent'
  BY <1>1 DEF GenInv, PointersAreCurrent, Ends
<1>4. RunnersAreApart'
  <2>1. ASSUME NEW k \in Kind, stage'[k] \in InFlight
        PROVE  held'[k] \in issued' /\ state'[held'[k].job] \in ActiveStates \cup {"failed", "canceled"}
    <3>1. /\ held'[k] = held[k] /\ held[k] \in issued
          /\ state[held[k].job] \in ActiveStates \cup {"failed", "canceled"}
      BY <2>1 DEF GenInv, RunnersAreApart
    <3>2. held[k].job \in Job
      BY <3>1 DEF Credential, GenInv, GenTypeOK, TypeOK
    <3> QED
      BY <3>1, <3>2 DEF Ends, ActiveStates, Open, Active
  <2> QED
    BY <2>1 DEF GenInv, RunnersAreApart
<1>5. SavedResultsAreAcknowledged'
  <2>1. \A s \in Subject : saved'[s] # None => state'[saved'[s]] = "succeeded"
    BY <1>1 DEF GenInv, GenTypeOK, SavedResultsAreAcknowledged
  <2>2. \A j \in GenJob : state'[j] = "succeeded" <=> runOf'[j] = "succeeded"
    BY <1>1 DEF GenInv, SavedResultsAreAcknowledged
  <2>3. \A j \in GenJob : state'[j] = "succeeded" /\ saved'[OwnerId[j]] # None
              => saved'[OwnerId[j]] = j \/ <<j, saved'[OwnerId[j]]>> \in older'
    BY <1>1 DEF GenInv, SavedResultsAreAcknowledged, Ends
  <2> QED
    BY <2>1, <2>2, <2>3 DEF SavedResultsAreAcknowledged
<1> QED
  BY <1>2, <1>3, <1>4, <1>5 DEF GenInv

\* A sweep, a heartbeat, time or nothing happens to the jobs.
Routine ==
    \/ RecoverExpired
    \/ \E c \in issued : Heartbeat(c) \/ Fail(c, FALSE)
    \/ \E j \in Job : LeaseExpires(j)
    \/ UNCHANGED vars

\* What a step of a runner may do beside: move to another stage, end or open
\* the run of the job it holds, end runs that are open.
Elsewhere ==
    /\ UNCHANGED <<saved, lastJob, held>>
    /\ \/ stage' = stage
       \/ \E k \in Kind, s \in Stages :
             /\ stage' = [stage EXCEPT ![k] = s]
             /\ s \in InFlight => stage[k] \in InFlight
       \/ stage' = [k \in Kind |-> "sweep"]
    /\ \/ runOf' = runOf
       \/ \E j \in GenJob, status \in {"running", "failed"} :
             state[j] # "succeeded" /\ runOf' = [runOf EXCEPT ![j] = status]
       \/ /\ runOf' \in [GenJob -> RunStatus]
          /\ \A j \in GenJob : runOf'[j] = runOf[j] \/ (runOf[j] = "running" /\ runOf'[j] = "failed")

\* Such steps keep the invariant.
LEMMA ElsewhereKeepsGenInv ==
    ASSUME GenInv, Routine, Elsewhere
    PROVE  GenInv'
<1>1. GenTypeOK /\ OnlyRequestsMakeJobs /\ TypeOK
  BY DEF GenInv, GenTypeOK
<1>2. Ends /\ TypeOK'
  BY <1>1, RoutineEnds DEF Routine
<1>3. \A k \in Kind : stage'[k] \in InFlight => stage[k] \in InFlight /\ held'[k] = held[k]
  BY <1>1 DEF Elsewhere, GenTypeOK, InFlight
<1>4. stage' \in [Kind -> Stages]
  BY <1>1 DEF Elsewhere, GenTypeOK, Stages
<1>5. runOf' \in [GenJob -> RunStatus]
  BY <1>1 DEF Elsewhere, GenTypeOK, RunStatus
<1>6. GenTypeOK'
  BY <1>1, <1>2, <1>4, <1>5 DEF Elsewhere, GenTypeOK
<1>7. \A j \in GenJob : \/ runOf'[j] = runOf[j]
                        \/ state[j] # "succeeded" /\ runOf'[j] # "succeeded"
  BY <1>1 DEF Elsewhere, GenTypeOK, GenInv, SavedResultsAreAcknowledged
<1>8. UNCHANGED <<saved, lastJob>>
  BY DEF Elsewhere
<1> QED
  BY <1>2, <1>3, <1>6, <1>7, <1>8, QuietKeepsGenInv

\* Open runs of terminal jobs end as failed.
LEMMA ReconcileEnds ==
    ASSUME GenTypeOK, ReconcileTerminalJobRuns
    PROVE  /\ runOf' \in [GenJob -> RunStatus]
           /\ \A j \in GenJob : runOf'[j] = runOf[j] \/ (runOf[j] = "running" /\ runOf'[j] = "failed")
BY DEF ReconcileTerminalJobRuns, GenTypeOK, RunStatus

\* A job in the hands of a runner is a request's, and did not succeed.
LEMMA HeldJob ==
    ASSUME GenInv, NEW k \in Kind, stage[k] \in InFlight
    PROVE  /\ held[k] \in issued /\ held[k].job \in GenJob
           /\ state[held[k].job] \in ActiveStates \cup {"failed", "canceled"}
           /\ state[held[k].job] # "succeeded"
<1>1. held[k] \in issued /\ state[held[k].job] \in ActiveStates \cup {"failed", "canceled"}
  BY DEF GenInv, RunnersAreApart
<1>2. held[k].job \in Job
  BY <1>1 DEF GenInv, GenTypeOK, TypeOK, Credential
<1> QED
  BY <1>1, <1>2 DEF GenInv, OnlyRequestsMakeJobs, ActiveStates

\* The runner, from its sweep to the failure of a job.
LEMMA RunnerKeepsGenInv ==
    ASSUME GenInv, NEW k \in Kind,
           \/ SweepJobs(k) \/ ReconcileRuns(k) \/ StartGeneration(k) \/ Preflight(k)
           \/ Generate(k) \/ FailJob(k) \/ Beat(k)
    PROVE  GenInv'
<1> USE DEF Stages, InFlight, Goto, Idle, EndRun, genRows
<1>1. CASE SweepJobs(k)
  <2>1. Routine
    BY <1>1 DEF SweepJobs, Routine
  <2>2. Elsewhere
    <3>1. \E s \in Stages : stage' = [stage EXCEPT ![k] = s] /\ s \notin InFlight
      BY <1>1 DEF SweepJobs
    <3>2. UNCHANGED <<saved, lastJob, held, runOf>>
      BY <1>1 DEF SweepJobs
    <3> QED
      BY <3>1, <3>2 DEF Elsewhere
  <2> QED
    BY <2>1, <2>2, ElsewhereKeepsGenInv
<1>2. CASE ReconcileRuns(k)
  <2>1. Routine
    BY <1>2 DEF ReconcileRuns, Routine
  <2>2. Elsewhere
    <3>1. \E s \in Stages : stage' = [stage EXCEPT ![k] = s] /\ s \notin InFlight
      BY <1>2 DEF ReconcileRuns
    <3>2. UNCHANGED <<saved, lastJob, held>>
      BY <1>2 DEF ReconcileRuns
    <3>3. /\ runOf' \in [GenJob -> RunStatus]
          /\ \A j \in GenJob : runOf'[j] = runOf[j] \/ (runOf[j] = "running" /\ runOf'[j] = "failed")
      BY <1>2, ReconcileEnds DEF ReconcileRuns, GenInv
    <3> QED
      BY <3>1, <3>2, <3>3 DEF Elsewhere
  <2> QED
    BY <2>1, <2>2, ElsewhereKeepsGenInv
<1>3. CASE StartGeneration(k)
  BY <1>3, HeldJob, ElsewhereKeepsGenInv DEF StartGeneration, Routine, Elsewhere
<1>4. CASE Preflight(k)
  BY <1>4, HeldJob, ElsewhereKeepsGenInv DEF Preflight, Routine, Elsewhere
<1>5. CASE Generate(k)
  BY <1>5, HeldJob, ElsewhereKeepsGenInv DEF Generate, Routine, Elsewhere
<1>6. CASE FailJob(k)
  BY <1>6, HeldJob, ElsewhereKeepsGenInv DEF FailJob, Routine, Elsewhere
<1>7. CASE Beat(k)
  BY <1>7, HeldJob, ElsewhereKeepsGenInv DEF Beat, Routine, Elsewhere
<1> QED
  BY <1>1, <1>2, <1>3, <1>4, <1>5, <1>6, <1>7

\* Time, other runners and crashes.
LEMMA AroundKeepsGenInv ==
    ASSUME GenInv, GenTime \/ ReconcileElsewhere \/ Die \/ UNCHANGED genVars
    PROVE  GenInv'
<1> USE DEF Stages, InFlight, genRows, genRunner
<1>1. CASE GenTime
  BY <1>1, ElsewhereKeepsGenInv DEF GenTime, Routine, Elsewhere
<1>2. CASE ReconcileElsewhere
  BY <1>2, ElsewhereKeepsGenInv, ReconcileEnds DEF ReconcileElsewhere, Routine, Elsewhere, GenInv
<1>3. CASE Die
  BY <1>3, ElsewhereKeepsGenInv DEF Die, Routine, Elsewhere
<1>4. CASE UNCHANGED genVars
  BY <1>4, ElsewhereKeepsGenInv DEF genVars, Routine, Elsewhere
<1> QED
  BY <1>1, <1>2, <1>3, <1>4

-----------------------------------------------------------------------------
(* A new job, a lease, a result.                                           *)

\* A request that finds no open job makes one and points the subject at it.
LEMMA EnqueueKeepsGenInv ==
    ASSUME GenInv, NEW r \in GenJob, Enqueue(r),
           lastJob' = [lastJob EXCEPT ![OwnerId[r]] = r],
           UNCHANGED <<saved, runOf, stage, held>>,
           lastJob[OwnerId[r]] # None => ~Open(lastJob[OwnerId[r]])
    PROVE  GenInv'
<1> DEFINE s == OwnerId[r]
<1>1. /\ TypeOK /\ GenTypeOK /\ OnlyRequestsMakeJobs /\ PointersAreCurrent
      /\ RunnersAreApart /\ SavedResultsAreAcknowledged
      /\ s \in Subject /\ r \in Job
  BY DEF GenInv, GenTypeOK
<1>2. /\ state[r] = "absent" /\ state'[r] = "queued"
      /\ \A j \in Job : j # r => state'[j] = state[j]
      /\ \A j \in Job : state[j] # "absent" => <<j, r>> \in older'
      /\ older \subseteq older' /\ UNCHANGED <<attempt, issued>>
  BY <1>1 DEF Enqueue, TypeOK, leaseVars
<1>3. /\ lastJob' \in [Subject -> GenJob \cup {None}] /\ lastJob'[s] = r
      /\ \A t \in Subject : t # s => lastJob'[t] = lastJob[t]
  BY <1>1 DEF GenTypeOK
<1>4. TypeOK'
  BY <1>1, StepTypeOK DEF Next
<1>5. GenTypeOK'
  BY <1>1, <1>3, <1>4 DEF GenTypeOK
<1>6. OnlyRequestsMakeJobs'
  BY <1>1, <1>2 DEF OnlyRequestsMakeJobs, Active, ActiveStates
<1>7. PointersAreCurrent'
  <2>1. \A t \in Subject : lastJob'[t] # None => OwnerId[lastJob'[t]] = t
    BY <1>1, <1>3 DEF PointersAreCurrent
  <2>2. ASSUME NEW j \in GenJob, state'[j] # "absent"
        PROVE  LET last == lastJob'[OwnerId[j]] IN
               /\ last # None
               /\ last = j \/ <<j, last>> \in older'
               /\ Open(j)' => last = j
    <3>1. CASE j = r
      BY <1>3, <3>1
    <3>2. CASE j # r
      <4>1. /\ j \in Job /\ OwnerId[j] \in Subject /\ state'[j] = state[j] /\ state[j] # "absent"
            /\ Open(j)' <=> Open(j)
        BY <1>2, <2>2, <3>2 DEF Open, Active
      <4>2. /\ lastJob[OwnerId[j]] # None
            /\ lastJob[OwnerId[j]] = j \/ <<j, lastJob[OwnerId[j]]>> \in older
            /\ Open(j) => lastJob[OwnerId[j]] = j
        BY <1>1, <4>1 DEF PointersAreCurrent
      <4>3. CASE OwnerId[j] = s
        BY <1>2, <1>3, <4>1, <4>2, <4>3
      <4>4. CASE OwnerId[j] # s
        BY <1>2, <1>3, <4>1, <4>2, <4>4
      <4> QED
        BY <4>3, <4>4
    <3> QED
      BY <3>1, <3>2
  <2> QED
    BY <2>1, <2>2 DEF PointersAreCurrent
<1>8. RunnersAreApart'
  <2>1. \A k \in Kind : stage[k] \in InFlight => held[k].job \in Job /\ held[k].job # r
    BY <1>1, <1>2, HeldJob DEF ActiveStates
  <2> QED
    BY <1>1, <1>2, <2>1 DEF RunnersAreApart
<1>9. SavedResultsAreAcknowledged'
  <2>1. \A j \in GenJob : state'[j] = "succeeded" <=> state[j] = "succeeded"
    BY <1>2
  <2>2. \A t \in Subject : saved[t] # None => saved[t] \in GenJob
    BY <1>1 DEF GenTypeOK
  <2> QED
    BY <1>1, <1>2, <2>1, <2>2 DEF SavedResultsAreAcknowledged
<1> QED
  BY <1>5, <1>6, <1>7, <1>8, <1>9 DEF GenInv

\* The lease of a job that nobody held.
LEMMA ClaimKeepsGenInv ==
    ASSUME GenInv, NEW k \in Kind, ClaimJob(k)
    PROVE  GenInv'
<1> DEFINE st == reconcileDependencyFailures(state)
<1>1. /\ TypeOK /\ GenTypeOK /\ OnlyRequestsMakeJobs /\ PointersAreCurrent
      /\ RunnersAreApart /\ SavedResultsAreAcknowledged /\ k \in Owner
      /\ UNCHANGED <<saved, lastJob, runOf>> /\ stage[k] = "claim"
  BY DEF GenInv, GenTypeOK, ClaimJob, genRows
<1>2. CASE UNCHANGED vars /\ Goto(k, "sweep") /\ UNCHANGED held
  <2>1. Routine
    BY <1>2 DEF Routine
  <2>2. Elsewhere
    <3>1. "sweep" \in Stages /\ "sweep" \notin InFlight
      BY DEF Stages, InFlight
    <3> QED
      BY <1>1, <1>2, <3>1 DEF Elsewhere, Goto
  <2> QED
    BY <2>1, <2>2, ElsewhereKeepsGenInv
<1>3. CASE ClaimMatching(k)
  <2>1. /\ st \in [Job -> States]
        /\ \A j \in Job : st[j] = state[j] \/ (state[j] = "queued" /\ st[j] = "failed")
    BY <1>1, ReconcileEffect DEF TypeOK
  <2>2. TypeOK'
    BY <1>1, <1>3, ClaimTypeOK DEF Claim
  <2>3. IF issued' = issued THEN Goto(k, "sweep") /\ held' = held
        ELSE Goto(k, "start") /\ held' = [held EXCEPT ![k] = CHOOSE c \in issued' \ issued : TRUE]
    BY <1>1, <1>3 DEF ClaimJob, ClaimMatching, ClaimFrom, Grant, vars
  <2>4. PICK C \in SUBSET Claimable(st) : ClaimFrom(k, C, st)
    BY <1>3 DEF ClaimMatching
  <2> HIDE DEF st
  <2>5. CASE state' = st /\ UNCHANGED <<leaseVars, due, older, deps, serial, epoch, issued, acked>>
    <3>1. Ends
      BY <2>1, <2>5 DEF Ends, Open, leaseVars
    <3>2. Goto(k, "sweep") /\ held' = held
      BY <2>3, <2>5
    <3>3. GenTypeOK' /\ \A l \in Kind : stage'[l] \in InFlight => stage[l] \in InFlight /\ held'[l] = held[l]
      BY <1>1, <2>2, <3>2 DEF GenTypeOK, Goto, Stages, InFlight
    <3> QED
      BY <1>1, <3>1, <3>3, QuietKeepsGenInv
  <2>6. ASSUME NEW j \in C, Grant(j, k, st) PROVE GenInv'
    <3> DEFINE c == Fresh(j, k)
    <3>1. j \in Job /\ st[j] = "queued" /\ state[j] = "queued" /\ attempt[j] < MaxAttempts[j]
      BY <2>1, <2>6 DEF Claimable
    <3>2. j \in GenJob /\ attempt[j] = 0
      BY <1>1, <3>1 DEF OnlyRequestsMakeJobs, TypeOK
    <3>3. /\ state'[j] = "leased" /\ attempt'[j] = 1
          /\ \A i \in Job : i # j => /\ attempt'[i] = attempt[i]
                                     /\ state'[i] = state[i] \/ (state[i] = "queued" /\ state'[i] = "failed")
          /\ older' = older /\ issued' = issued \cup {c}
      BY <1>1, <2>1, <2>6, <3>1, <3>2 DEF Grant, Fresh, TypeOK
    <3>4. c.job = j
      BY DEF Fresh
    <3> HIDE DEF c
    <3>5. OnlyRequestsMakeJobs'
      BY <1>1, <3>2, <3>3 DEF OnlyRequestsMakeJobs, Active, ActiveStates
    <3>6. PointersAreCurrent'
      <4>1. \A i \in GenJob : /\ state'[i] # "absent" => state[i] # "absent"
                              /\ Open(i)' => Open(i)
        BY <3>1, <3>3 DEF Open, Active, ActiveStates
      <4> QED
        BY <1>1, <3>3, <4>1 DEF PointersAreCurrent
    <3>7. \A i \in GenJob : state'[i] = "succeeded" <=> state[i] = "succeeded"
      BY <3>1, <3>3
    <3>8. SavedResultsAreAcknowledged'
      <4>1. \A t \in Subject : saved[t] # None => saved[t] \in GenJob
        BY <1>1 DEF GenTypeOK
      <4> QED
        BY <1>1, <3>3, <3>7, <4>1 DEF SavedResultsAreAcknowledged
    <3>9. \A l \in Kind : l # k => stage'[l] = stage[l] /\ held'[l] = held[l]
      BY <1>1, <2>3 DEF Goto, GenTypeOK
    <3>10. \A l \in Kind : stage[l] \in InFlight =>
              /\ held[l] \in issued' /\ held[l].job # j
              /\ state'[held[l].job] \in ActiveStates \cup {"failed", "canceled"}
      <4>1. ASSUME NEW l \in Kind, stage[l] \in InFlight
            PROVE  /\ held[l] \in issued' /\ held[l].job # j
                   /\ state'[held[l].job] \in ActiveStates \cup {"failed", "canceled"}
        <5>1. /\ held[l] \in issued /\ held[l].job \in Job
              /\ state[held[l].job] \in ActiveStates \cup {"failed", "canceled"}
          BY <4>1, HeldJob
        <5> QED
          BY <3>1, <3>3, <5>1 DEF ActiveStates
      <4> QED
        BY <4>1
    <3>11. CASE issued' = issued
      <4>1. stage'[k] = "sweep" /\ stage' \in [Kind -> Stages] /\ held' = held
        BY <1>1, <2>3, <3>11 DEF Goto, GenTypeOK, Stages
      <4>2. RunnersAreApart'
        BY <1>1, <3>9, <3>10, <4>1 DEF RunnersAreApart, InFlight
      <4>3. GenTypeOK'
        BY <1>1, <2>2, <4>1 DEF GenTypeOK
      <4> QED
        BY <3>5, <3>6, <3>8, <4>2, <4>3 DEF GenInv
    <3>12. CASE issued' # issued
      <4>1. c \in Credential /\ issued' \ issued = {c}
        BY <2>2, <3>3, <3>12 DEF TypeOK
      <4>2. held'[k] = c /\ held' \in [Kind -> Credential \cup {None}]
        <5>1. (CHOOSE x \in issued' \ issued : TRUE) = c
          BY <4>1
        <5>2. held' = [held EXCEPT ![k] = CHOOSE x \in issued' \ issued : TRUE]
          BY <2>3, <3>12
        <5>3. held' = [held EXCEPT ![k] = c]
          BY <5>1, <5>2
        <5> QED
          BY <1>1, <4>1, <5>3 DEF GenTypeOK
      <4>3. stage'[k] = "start" /\ stage' \in [Kind -> Stages]
        BY <1>1, <2>3, <3>12 DEF Goto, GenTypeOK, Stages, InFlight
      <4>4. RunnersAreApart'
        BY <1>1, <3>3, <3>4, <3>9, <3>10, <4>2, <4>3 DEF RunnersAreApart, ActiveStates
      <4>5. GenTypeOK'
        BY <1>1, <2>2, <4>2, <4>3 DEF GenTypeOK
      <4> QED
        BY <3>5, <3>6, <3>8, <4>4, <4>5 DEF GenInv
    <3> QED
      BY <3>11, <3>12
  <2> QED
    BY <2>4, <2>5, <2>6 DEF ClaimFrom
<1> QED
  BY <1>2, <1>3 DEF ClaimJob

\* The document, the acknowledgement and the run in one transaction: the row
\* still points at the job, so every other job of the subject is older.
LEMMA PublishKeepsGenInv ==
    ASSUME GenInv, NEW k \in Kind, NEW alive, PublishResult(k, alive)
    PROVE  GenInv'
<1> DEFINE j == held[k].job
           s == OwnerId[j]
<1>1. /\ TypeOK /\ GenTypeOK /\ OnlyRequestsMakeJobs /\ PointersAreCurrent
      /\ RunnersAreApart /\ SavedResultsAreAcknowledged
      /\ stage[k] = "publish" /\ Idle(k) /\ UNCHANGED lastJob
  BY DEF GenInv, GenTypeOK, PublishResult
<1>2. stage[k] \in InFlight
  BY <1>1 DEF InFlight
<1>3. held[k] \in issued /\ j \in GenJob /\ j \in Job /\ s \in Subject /\ state[j] # "succeeded"
  BY <1>2, HeldJob
<1>4. /\ stage' = [stage EXCEPT ![k] = "sweep"] /\ held' = held
      /\ "sweep" \in Stages /\ "sweep" \notin InFlight
  BY <1>1 DEF Idle, Goto, Stages, InFlight
<1>5. CASE UNCHANGED <<vars, saved, runOf>>
  <2>1. Routine
    BY <1>5 DEF Routine
  <2>2. Elsewhere
    BY <1>1, <1>4, <1>5 DEF Elsewhere
  <2> QED
    BY <2>1, <2>2, ElsewhereKeepsGenInv
<1>6. CASE /\ lastJob[s] = j /\ PublishTx(s, j) /\ EndRun(j, "succeeded")
           /\ CompletionApplies(held[k]) /\ Complete(held[k])
  <2>1. TypeOK'
    BY <1>1, <1>3, <1>6, StepTypeOK DEF Next, CredentialNext
  <2>2. /\ state'[j] = "succeeded" /\ Active(j)
        /\ \A i \in Job : i # j => state'[i] = state[i]
        /\ UNCHANGED <<attempt, older, issued>>
    BY <1>1, <1>3, <1>6 DEF Complete, CompletionApplies, Active, ActiveStates, TypeOK
  <2>3. /\ runOf' \in [GenJob -> RunStatus] /\ runOf'[j] = "succeeded"
        /\ \A i \in GenJob : i # j => runOf'[i] = runOf[i]
    BY <1>1, <1>3, <1>6 DEF EndRun, GenTypeOK, RunStatus
  <2>4. /\ saved' \in [Subject -> GenJob \cup {None}] /\ saved'[s] = j
        /\ \A t \in Subject : t # s => saved'[t] = saved[t]
    BY <1>1, <1>3, <1>6 DEF PublishTx, GenTypeOK
  <2>5. GenTypeOK'
    BY <1>1, <1>4, <2>1, <2>3, <2>4 DEF GenTypeOK
  <2>6. OnlyRequestsMakeJobs'
    BY <1>1, <1>3, <2>2 DEF OnlyRequestsMakeJobs, Active, ActiveStates
  <2>7. PointersAreCurrent'
    <3>1. \A i \in GenJob : /\ state'[i] # "absent" => state[i] # "absent"
                            /\ Open(i)' => Open(i)
      BY <2>2 DEF Open, Active, ActiveStates
    <3> QED
      BY <1>1, <2>2, <3>1 DEF PointersAreCurrent
  <2>8. RunnersAreApart'
    <3>1. \A l \in Kind : stage'[l] \in InFlight => l # k /\ stage[l] \in InFlight
      BY <1>1, <1>4 DEF GenTypeOK
    <3>2. \A l \in Kind : stage'[l] \in InFlight => held[l].job # j /\ held[l].job \in Job
      BY <1>1, <1>2, <3>1, HeldJob DEF RunnersAreApart
    <3> QED
      BY <1>1, <1>4, <2>2, <3>1, <3>2 DEF RunnersAreApart
  <2>9. SavedResultsAreAcknowledged'
    <3>1. ASSUME NEW t \in Subject, saved'[t] # None PROVE state'[saved'[t]] = "succeeded"
      <4>1. CASE t = s
        BY <2>2, <2>4, <4>1
      <4>2. CASE t # s
        <5>1. saved'[t] = saved[t] /\ saved[t] \in GenJob /\ state[saved[t]] = "succeeded"
          BY <1>1, <2>4, <3>1, <4>2 DEF GenTypeOK, SavedResultsAreAcknowledged
        <5> QED
          BY <2>2, <5>1
      <4> QED
        BY <4>1, <4>2
    <3>2. \A i \in GenJob : state'[i] = "succeeded" <=> runOf'[i] = "succeeded"
      BY <1>1, <2>2, <2>3 DEF SavedResultsAreAcknowledged
    <3>3. ASSUME NEW i \in GenJob, state'[i] = "succeeded", saved'[OwnerId[i]] # None
          PROVE  saved'[OwnerId[i]] = i \/ <<i, saved'[OwnerId[i]]>> \in older'
      <4>1. CASE OwnerId[i] = s
        <5>1. CASE i = j
          BY <2>4, <5>1
        <5>2. CASE i # j
          <6>1. state[i] # "absent"
            BY <2>2, <3>3, <5>2
          <6>2. lastJob[s] = i \/ <<i, lastJob[s]>> \in older
            BY <1>1, <4>1, <6>1 DEF PointersAreCurrent
          <6> QED
            BY <1>6, <2>2, <2>4, <4>1, <5>2, <6>2
        <5> QED
          BY <5>1, <5>2
      <4>2. CASE OwnerId[i] # s
        <5>1. i # j /\ OwnerId[i] \in Subject
          BY <4>2
        <5>2. saved'[OwnerId[i]] = saved[OwnerId[i]] /\ state[i] = "succeeded"
          BY <2>2, <2>4, <3>3, <4>2, <5>1
        <5> QED
          BY <1>1, <2>2, <3>3, <5>2 DEF SavedResultsAreAcknowledged
      <4> QED
        BY <4>1, <4>2
    <3> QED
      BY <3>1, <3>2, <3>3 DEF SavedResultsAreAcknowledged
  <2> QED
    BY <2>5, <2>6, <2>7, <2>8, <2>9 DEF GenInv
<1> QED
  BY <1>5, <1>6 DEF PublishResult, Acknowledges

-----------------------------------------------------------------------------
(* The dictionary.                                                         *)

\* The initial states have no job, no result and no run.
LEMMA GenInitInv == GenInit => GenInv
<1> SUFFICES ASSUME GenInit PROVE GenInv
  OBVIOUS
<1>1. TypeOK /\ Init
  BY InitTypeOK DEF GenInit
<1>2. \A j \in Job : state[j] = "absent"
  BY <1>1 DEF Init
<1>3. GenTypeOK
  BY <1>1 DEF GenInit, GenTypeOK, RunStatus, Stages
<1>4. OnlyRequestsMakeJobs /\ PointersAreCurrent
  BY <1>2 DEF GenInit, OnlyRequestsMakeJobs, PointersAreCurrent, Active, ActiveStates
<1>5. RunnersAreApart
  BY DEF GenInit, RunnersAreApart, InFlight
<1>6. SavedResultsAreAcknowledged
  BY <1>2 DEF GenInit, SavedResultsAreAcknowledged
<1> QED
  BY <1>3, <1>4, <1>5, <1>6 DEF GenInv

\* What the invariant says to a reader: every open job is the newest of its
\* subject.
LEMMA OneIsOpen == GenInv => OneGenerationAtATime
BY DEF GenInv, GenTypeOK, PointersAreCurrent, OneGenerationAtATime, Open, Active, ActiveStates

\* Requests, the runner, time and crashes.
LEMMA DictionaryKeepsGenInv ==
    ASSUME GenInv, DictNext \/ UNCHANGED dictVars
    PROVE  GenInv'
<1>1. ASSUME NEW r \in GenJob, Lookup(r) \/ ResolveExplore(r) PROVE GenInv'
  BY <1>1, AroundKeepsGenInv DEF Lookup, ResolveExplore
<1>2. ASSUME NEW r \in GenJob, Start(r) PROVE GenInv'
  <2> DEFINE s == OwnerId[r]
  <2>1. CASE Answered(s, Mode[r])
    BY <1>2, <2>1, ElsewhereKeepsGenInv DEF Start, Routine, Elsewhere, genRunner
  <2>2. CASE ~Answered(s, Mode[r])
    <3>1. /\ Enqueue(r) /\ lastJob' = [lastJob EXCEPT ![s] = r]
          /\ UNCHANGED <<saved, runOf, stage, held>>
      BY <1>2, <2>2 DEF Start, SetLastJobTx, genRunner
    <3>2. lastJob[s] # None => ~Open(lastJob[s])
      BY <2>2 DEF Answered, LastState, Open, Active
    <3> QED
      BY <3>1, <3>2, EnqueueKeepsGenInv
  <2> QED
    BY <2>1, <2>2
<1>3. ASSUME NEW k \in Kind, DictRun(k) \/ DictBeat(k) PROVE GenInv'
  BY <1>3, RunnerKeepsGenInv, ClaimKeepsGenInv, PublishKeepsGenInv
     DEF DictRun, DictBeat, Process
<1>4. CASE GenTime \/ ReconcileElsewhere \/ DictCrash \/ UNCHANGED dictVars
  BY <1>4, AroundKeepsGenInv DEF DictCrash, dictVars
<1> QED
  BY <1>1, <1>2, <1>3, <1>4 DEF DictNext

\* Explore keeps its invariant: pointers, runners, results and history agree
\* (dictionary service.go Start, runner.go).
THEOREM DictionaryCorrect == DictSpec => []GenInv
<1>1. DictInit => GenInv
  BY GenInitInv DEF DictInit
<1>2. GenInv /\ [DictNext]_dictVars => GenInv'
  BY DictionaryKeepsGenInv
<1> QED
  BY <1>1, <1>2, PTL DEF DictSpec

\* Concurrent Explore requests for one entry converge on one open job.
THEOREM ExploreGeneratesOnce == DictSpec => []OneGenerationAtATime
BY DictionaryCorrect, OneIsOpen, PTL

\* A dictionary document on disk is that of an acknowledged job, the newest
\* one, and the history says so.
THEOREM ExploreResultsAreAcknowledged == DictSpec => []SavedResultsAreAcknowledged
<1>1. GenInv => SavedResultsAreAcknowledged
  BY DEF GenInv
<1> QED
  BY <1>1, DictionaryCorrect, PTL

-----------------------------------------------------------------------------
(* The sentences.                                                          *)

\* A request that has not been answered has made no job: its run, opened
\* before there is a job, cannot be that of a finished one.
UnansweredRequestsHaveNoJob ==
    \A r \in GenJob : step[r] # "answered" => state[r] = "absent"

SentenceInv ==
    /\ GenInv
    /\ step \in [GenJob -> {"idle", "settle", "claim", "resolve", "drop", "answered"}]
    /\ UnansweredRequestsHaveNoJob

\* A request makes the only job there will be under its name.
LEMMA OnlyEnqueueMakesJobs ==
    ASSUME TypeOK, OnlyRequestsMakeJobs,
           \/ Routine
           \/ \E w \in Kind : ClaimMatching(w)
           \/ \E c \in issued : Complete(c)
    PROVE  \A j \in Job : state[j] = "absent" => state'[j] = "absent"
<1>1. CASE Routine
  BY <1>1, RoutineEnds DEF Routine, Ends, Open, Active, ActiveStates
<1>2. ASSUME NEW w \in Kind, ClaimMatching(w)
      PROVE  \A j \in Job : state[j] = "absent" => state'[j] = "absent"
  <2> DEFINE st == reconcileDependencyFailures(state)
  <2>1. /\ st \in [Job -> States]
        /\ \A j \in Job : st[j] = state[j] \/ (state[j] = "queued" /\ st[j] = "failed")
    BY ReconcileEffect DEF TypeOK
  <2>2. PICK C \in SUBSET Claimable(st) : ClaimFrom(w, C, st)
    BY <1>2 DEF ClaimMatching
  <2> HIDE DEF st
  <2>3. CASE state' = st
    BY <2>1, <2>3
  <2>4. ASSUME NEW i \in C, Grant(i, w, st)
        PROVE  \A j \in Job : state[j] = "absent" => state'[j] = "absent"
    BY <2>1, <2>4 DEF Grant, Claimable
  <2> QED
    BY <2>2, <2>3, <2>4 DEF ClaimFrom
<1>3. ASSUME NEW c \in issued, Complete(c)
      PROVE  \A j \in Job : state[j] = "absent" => state'[j] = "absent"
  BY <1>3 DEF Complete, CompletionApplies, Active, ActiveStates, TypeOK
<1> QED
  BY <1>1, <1>2, <1>3

\* A request that goes on has no job yet, and no step but its own makes one.
LEMMA RequestsGoOn ==
    ASSUME SentenceInv, GenInv',
           \A r \in GenJob : state[r] = "absent" => state'[r] = "absent",
           \/ UNCHANGED step
           \/ \E r \in GenJob, p \in {"settle", "claim", "resolve", "drop", "answered"} :
                 Steps(r, p) /\ (p # "answered" => step[r] # "answered")
           \/ step' = [r \in GenJob |-> IF step[r] = "idle" THEN "idle" ELSE "answered"]
    PROVE  SentenceInv'
<1>1. step' \in [GenJob -> {"idle", "settle", "claim", "resolve", "drop", "answered"}]
  BY DEF SentenceInv, Steps
<1>2. \A r \in GenJob : step'[r] # "answered" => step[r] # "answered"
  BY DEF SentenceInv, Steps
<1> QED
  BY <1>1, <1>2 DEF SentenceInv, UnansweredRequestsHaveNoJob

\* Ensure: only its third phase touches a job, its own, and only when the last
\* one of the sentence is closed.
LEMMA EnsureKeepsSentenceInv ==
    ASSUME SentenceInv, NEW r \in GenJob,
           \/ Inspect(r) \/ OpenRun(r) \/ ClaimRun(r) \/ DropRun(r)
           \/ EnqueueSentence(r) \/ EnsureCanceled(r) \/ RunAges(r)
    PROVE  SentenceInv'
<1> DEFINE s == OwnerId[r]
<1>1. GenInv /\ GenTypeOK /\ TypeOK /\ r \in Job
  BY DEF SentenceInv, GenInv, GenTypeOK
<1>2. step[r] # "answered" => state[r] # "succeeded"
  BY DEF SentenceInv, UnansweredRequestsHaveNoJob
<1>3. CASE Inspect(r) \/ ClaimRun(r) \/ EnsureCanceled(r) \/ RunAges(r)
  <2>1. UNCHANGED genVars
    BY <1>3 DEF Inspect, ClaimRun, EnsureCanceled, RunAges
  <2>2. GenInv'
    BY <1>1, <2>1, AroundKeepsGenInv
  <2>3. \A j \in GenJob : state[j] = "absent" => state'[j] = "absent"
    BY <2>1 DEF genVars, vars
  <2>4. \/ UNCHANGED step
        \/ \E p \in {"settle", "claim", "resolve", "drop", "answered"} :
              Steps(r, p) /\ (p # "answered" => step[r] # "answered")
    BY <1>3 DEF Inspect, ClaimRun, EnsureCanceled, RunAges, Answers, KeepsReading
  <2> QED
    BY <2>2, <2>3, <2>4, RequestsGoOn
<1>4. ASSUME UNCHANGED <<vars, saved, lastJob, genRunner>>, step[r] # "answered",
             \E p \in {"claim", "answered"} : Steps(r, p),
             runOf' = runOf \/ \E status \in {"running", "failed"} : EndRun(r, status)
      PROVE  SentenceInv'
  <2>1. Routine
    BY <1>4 DEF Routine
  <2>2. Elsewhere
    BY <1>2, <1>4 DEF Elsewhere, EndRun, genRunner
  <2>3. GenInv'
    BY <1>1, <2>1, <2>2, ElsewhereKeepsGenInv
  <2>4. \A j \in GenJob : state[j] = "absent" => state'[j] = "absent"
    BY <1>4 DEF vars
  <2> QED
    BY <1>4, <2>3, <2>4, RequestsGoOn
<1>5. CASE OpenRun(r) \/ DropRun(r)
  BY <1>4, <1>5 DEF OpenRun, DropRun, Answers, KeepsReading
<1>6. CASE EnqueueSentence(r)
  <2>1. CASE ~StillMine(r)
    BY <1>4, <1>6, <2>1 DEF EnqueueSentence, Answers
  <2>2. CASE StillMine(r)
    <3>1. /\ Enqueue(r) /\ lastJob' = [lastJob EXCEPT ![s] = r] /\ Steps(r, "answered")
          /\ UNCHANGED <<saved, runOf, stage, held>>
      BY <1>6, <2>2 DEF EnqueueSentence, MoveLastJob, genRunner, Answers
    <3>2. lastJob[s] # None => ~Open(lastJob[s])
      BY <2>2 DEF StillMine, JobOpen
    <3>3. GenInv'
      BY <1>1, <3>1, <3>2, EnqueueKeepsGenInv
    <3>4. \A j \in Job : j # r => state'[j] = state[j]
      BY <1>1, <3>1 DEF Enqueue, TypeOK
    <3>5. /\ step' \in [GenJob -> {"idle", "settle", "claim", "resolve", "drop", "answered"}]
          /\ step'[r] = "answered" /\ \A q \in GenJob : q # r => step'[q] = step[q]
      BY <3>1 DEF SentenceInv, Steps
    <3> QED
      BY <3>3, <3>4, <3>5 DEF SentenceInv, UnansweredRequestsHaveNoJob
  <2> QED
    BY <2>1, <2>2
<1> QED
  BY <1>3, <1>5, <1>6

\* The runner of the sentences: it reconciles twice, uses the run it finds and
\* looks at the anchor before it publishes.
LEMMA SentenceRunnerKeepsGenInv ==
    ASSUME GenInv, NEW k \in Kind, SentenceRun(k) \/ Beat(k)
    PROVE  GenInv'
<1> USE DEF Stages, InFlight, Goto
<1>1. CASE SentenceReconciles(k)
  <2>1. Routine
    BY <1>1 DEF SentenceReconciles, Routine
  <2>2. /\ runOf' \in [GenJob -> RunStatus]
        /\ \A j \in GenJob : runOf'[j] = runOf[j] \/ (runOf[j] = "running" /\ runOf'[j] = "failed")
    BY <1>1, ReconcileEnds DEF SentenceReconciles, ReconcileSentenceRuns, GenInv
  <2>3. /\ UNCHANGED <<saved, lastJob, held>>
        /\ \E s \in Stages : stage' = [stage EXCEPT ![k] = s] /\ s \notin InFlight
    BY <1>1 DEF SentenceReconciles
  <2>4. Elsewhere
    BY <2>2, <2>3 DEF Elsewhere
  <2> QED
    BY <2>1, <2>4, ElsewhereKeepsGenInv
<1>2. CASE SentenceOrphans(k)
  <2>1. Routine
    BY <1>2 DEF SentenceOrphans, Routine
  <2>2. /\ runOf' \in [GenJob -> RunStatus]
        /\ \A j \in GenJob : runOf'[j] = runOf[j] \/ (runOf[j] = "running" /\ runOf'[j] = "failed")
    BY <1>2 DEF SentenceOrphans, ReconcileOrphanRuns, GenInv, GenTypeOK, RunStatus
  <2>3. /\ UNCHANGED <<saved, lastJob, held>>
        /\ \E s \in Stages : stage' = [stage EXCEPT ![k] = s] /\ s \notin InFlight
    BY <1>2 DEF SentenceOrphans
  <2>4. Elsewhere
    BY <2>2, <2>3 DEF Elsewhere
  <2> QED
    BY <2>1, <2>4, ElsewhereKeepsGenInv
<1>3. CASE SentenceStarts(k)
  <2>1. Routine
    BY <1>3 DEF SentenceStarts, Routine
  <2>2. UNCHANGED <<saved, lastJob, held, runOf>> /\ stage[k] = "start"
    BY <1>3 DEF SentenceStarts, genRows
  <2>3. \E s \in {"preflight", "fail"} : stage' = [stage EXCEPT ![k] = s]
    BY <1>3 DEF SentenceStarts
  <2>4. Elsewhere
    BY <2>2, <2>3 DEF Elsewhere
  <2> QED
    BY <2>1, <2>4, ElsewhereKeepsGenInv
<1>4. CASE OpensReplacement(k)
  <2>1. Routine
    BY <1>4 DEF OpensReplacement, Routine
  <2>2. /\ UNCHANGED <<saved, lastJob, held>> /\ stage[k] \in InFlight
        /\ runOf' = [runOf EXCEPT ![held[k].job] = "running"]
        /\ stage' = [stage EXCEPT ![k] = "point"]
    BY <1>4 DEF OpensReplacement, EndRun
  <2>3. held[k].job \in GenJob /\ state[held[k].job] # "succeeded"
    BY <2>2, HeldJob
  <2>4. Elsewhere
    BY <2>2, <2>3 DEF Elsewhere
  <2> QED
    BY <2>1, <2>4, ElsewhereKeepsGenInv
<1>5. CASE PointsAtReplacement(k)
  <2>1. Routine
    BY <1>5 DEF PointsAtReplacement, Routine
  <2>2. UNCHANGED <<saved, lastJob, held, runOf>> /\ stage[k] = "point"
    BY <1>5 DEF PointsAtReplacement, genRows
  <2>3. \E s \in {"preflight", "fail"} : stage' = [stage EXCEPT ![k] = s]
    BY <1>5 DEF PointsAtReplacement
  <2>4. Elsewhere
    BY <2>2, <2>3 DEF Elsewhere
  <2> QED
    BY <2>1, <2>4, ElsewhereKeepsGenInv
<1>6. CASE SentencePublishes(k)
  BY <1>6, PublishKeepsGenInv DEF SentencePublishes
<1>7. CASE SweepJobs(k) \/ ClaimJob(k) \/ Preflight(k) \/ Generate(k) \/ FailJob(k) \/ Beat(k)
  BY <1>7, RunnerKeepsGenInv, ClaimKeepsGenInv
<1> QED
  BY <1>1, <1>2, <1>3, <1>4, <1>5, <1>6, <1>7 DEF SentenceRun

\* What the runner, time and crashes do to the job table.
LEMMA RunnerMakesNoJobs ==
    ASSUME GenInv,
           \/ \E k \in Kind : SentenceRun(k) \/ Beat(k)
           \/ GenTime \/ SentencesReconciledElsewhere \/ Die
    PROVE  \A j \in Job : state[j] = "absent" => state'[j] = "absent"
<1>1. TypeOK /\ OnlyRequestsMakeJobs
  BY DEF GenInv, GenTypeOK
<1>2. ASSUME NEW k \in Kind, SentenceRun(k) \/ Beat(k)
      PROVE  \/ Routine \/ ClaimMatching(k) \/ \E c \in issued : Complete(c)
  <2>1. CASE \/ SentenceReconciles(k) \/ SentenceOrphans(k) \/ SentenceStarts(k)
             \/ OpensReplacement(k) \/ PointsAtReplacement(k)
    BY <2>1 DEF SentenceReconciles, SentenceOrphans, SentenceStarts, OpensReplacement,
                PointsAtReplacement, Routine
  <2>2. CASE SentencePublishes(k)
    BY <2>2, HeldJob DEF SentencePublishes, PublishResult, InFlight, Routine
  <2>3. CASE SweepJobs(k) \/ Preflight(k) \/ Generate(k)
    BY <2>3 DEF SweepJobs, Preflight, Generate, Routine
  <2>4. CASE FailJob(k) \/ Beat(k)
    BY <2>4, HeldJob DEF FailJob, Beat, InFlight, Routine
  <2>5. CASE ClaimJob(k)
    BY <2>5 DEF ClaimJob, Routine
  <2> QED
    BY <1>2, <2>1, <2>2, <2>3, <2>4, <2>5 DEF SentenceRun
<1>3. CASE GenTime \/ SentencesReconciledElsewhere \/ Die
  <2>1. Routine
    BY <1>3 DEF GenTime, SentencesReconciledElsewhere, Die, Routine
  <2> QED
    BY <1>1, <2>1, OnlyEnqueueMakesJobs
<1> QED
  BY <1>1, <1>2, <1>3, OnlyEnqueueMakesJobs

\* Requests, the runner, time and crashes.
LEMMA SentenceKeepsInv ==
    ASSUME SentenceInv, SentenceNext \/ UNCHANGED sentenceVars
    PROVE  SentenceInv'
<1>1. GenInv
  BY DEF SentenceInv
<1>2. CASE \E r \in GenJob : \/ Inspect(r) \/ OpenRun(r) \/ ClaimRun(r) \/ DropRun(r)
                             \/ EnqueueSentence(r) \/ EnsureCanceled(r) \/ RunAges(r)
  BY <1>2, EnsureKeepsSentenceInv
<1>3. ASSUME NEW k \in Kind,
             SentenceRun(k) \/ (Beat(k) /\ UNCHANGED <<runRows, row, ensureVars>>)
      PROVE  SentenceInv'
  <2>1. GenInv' /\ \A j \in GenJob : state[j] = "absent" => state'[j] = "absent"
    BY <1>1, <1>3, SentenceRunnerKeepsGenInv, RunnerMakesNoJobs
  <2>2. UNCHANGED step
    BY <1>3 DEF SentenceRun, SentenceReconciles, SentenceOrphans, SentenceStarts,
                OpensReplacement, PointsAtReplacement, SentencePublishes, ensureVars
  <2> QED
    BY <2>1, <2>2, RequestsGoOn
<1>4. CASE \/ GenTime /\ UNCHANGED <<runRows, row, ensureVars>>
           \/ SentencesReconciledElsewhere
  <2>1. GenTime \/ ReconcileElsewhere \/ UNCHANGED genVars
    BY <1>4 DEF SentencesReconciledElsewhere, ReconcileSentenceRuns, ReconcileElsewhere, genVars, genRows
  <2>2. GenInv' /\ \A j \in GenJob : state[j] = "absent" => state'[j] = "absent"
    BY <1>1, <1>4, <2>1, AroundKeepsGenInv, RunnerMakesNoJobs
  <2>3. UNCHANGED step
    BY <1>4 DEF SentencesReconciledElsewhere, ensureVars
  <2> QED
    BY <2>2, <2>3, RequestsGoOn
<1>5. CASE SentenceCrash
  <2>1. GenInv' /\ \A j \in GenJob : state[j] = "absent" => state'[j] = "absent"
    BY <1>1, <1>5, AroundKeepsGenInv, RunnerMakesNoJobs DEF SentenceCrash
  <2> QED
    BY <1>5, <2>1, RequestsGoOn DEF SentenceCrash
<1>6. CASE UNCHANGED sentenceVars
  <2>1. GenInv' /\ UNCHANGED <<state, step>>
    BY <1>1, <1>6, AroundKeepsGenInv DEF sentenceVars, genVars, vars, ensureVars
  <2> QED
    BY <2>1, RequestsGoOn
<1> QED
  BY <1>2, <1>3, <1>4, <1>5, <1>6 DEF SentenceNext

\* The sentence translation keeps the invariant of Generation, with the runs it
\* opens before there is a job (sentencetranslation service.go Ensure).
THEOREM SentencesCorrect == SentenceSpec => []SentenceInv
<1>1. SentenceInit => SentenceInv
  BY GenInitInv DEF SentenceInit, SentenceInv, UnansweredRequestsHaveNoJob, GenInit, Init
<1>2. SentenceInv /\ [SentenceNext]_sentenceVars => SentenceInv'
  BY SentenceKeepsInv
<1> QED
  BY <1>1, <1>2, PTL DEF SentenceSpec

\* Concurrent requests for one sentence converge on one open job, whatever
\* claims were lost, canceled or swept as orphans between their phases.
THEOREM SentencesGenerateOnce == SentenceSpec => []OneGenerationAtATime
<1>1. SentenceInv => OneGenerationAtATime
  BY OneIsOpen DEF SentenceInv
<1> QED
  BY <1>1, SentencesCorrect, PTL

\* A saved translation is that of an acknowledged job, the newest one, and the
\* history says so.
THEOREM SentenceResultsAreAcknowledged == SentenceSpec => []SavedResultsAreAcknowledged
<1>1. SentenceInv => SavedResultsAreAcknowledged
  BY DEF SentenceInv, GenInv
<1> QED
  BY <1>1, SentencesCorrect, PTL

-----------------------------------------------------------------------------
(* OnDemand.  A step of either component is one of three things to a reader. *)

\* Jobs may end, none is made, and no subject changes.
Closing ==
    /\ UNCHANGED <<saved, lastJob>>
    /\ \A j \in Job : /\ Open(j)' => Open(j)
                      /\ state'[j] = "absent" <=> state[j] = "absent"

\* A subject without an open job gets one.
Opening(r) ==
    /\ Enqueue(r)
    /\ lastJob[OwnerId[r]] # None => ~Open(lastJob[OwnerId[r]])
    /\ lastJob' = [lastJob EXCEPT ![OwnerId[r]] = r]
    /\ UNCHANGED saved

\* The open job of a subject leaves its result.
Delivering(j) ==
    /\ Open(j) /\ lastJob[OwnerId[j]] = j
    /\ saved' = [saved EXCEPT ![OwnerId[j]] = j]
    /\ state' = [state EXCEPT ![j] = "succeeded"]
    /\ UNCHANGED lastJob

\* While a job that was not to replace anything is open, there is nothing to be
\* replaced.
ReplacesOnly(R) == \A j \in GenJob : Open(j) => saved[OwnerId[j]] = None \/ j \in R

\* The three, in the terms of OnDemand.
GivesUp ==
    \E rs \in SUBSET GenJob :
        /\ \A r \in rs : r \in OpenOf[OwnerId[r]]
        /\ OpenOf' = [s \in Subject |-> OpenOf[s] \ rs]
        /\ UNCHANGED <<saved, Begun>>
Begins(r) ==
    /\ r \notin Begun /\ OpenOf[OwnerId[r]] = {}
    /\ OpenOf' = [OpenOf EXCEPT ![OwnerId[r]] = {r}]
    /\ Begun' = Begun \cup {r}
    /\ UNCHANGED saved
Delivers(j, R) ==
    /\ j \in OpenOf[OwnerId[j]]
    /\ saved[OwnerId[j]] # None => j \in R
    /\ saved' = [saved EXCEPT ![OwnerId[j]] = j]
    /\ OpenOf' = [OpenOf EXCEPT ![OwnerId[j]] = {}]
    /\ UNCHANGED Begun

\* Jobs that end are given up; a sweep ends those of many subjects.
LEMMA ClosingGivesUp ==
    ASSUME GenInv, NEW R, ReplacesOnly(R), Closing
    PROVE  GivesUp /\ ReplacesOnly(R)'
<1> DEFINE rs == {j \in GenJob : Open(j) /\ ~Open(j)'}
<1>1. \A j \in GenJob : j \in Job /\ OwnerId[j] \in Subject
  OBVIOUS
<1>2. \A r \in rs : r \in OpenOf[OwnerId[r]]
  BY <1>1 DEF OpenOf
<1>3. OpenOf' = [s \in Subject |-> OpenOf[s] \ rs]
  <2>1. \A s \in Subject : OpenOf'[s] = OpenOf[s] \ rs
    BY <1>1 DEF Closing, OpenOf
  <2> QED
    BY <2>1 DEF OpenOf
<1>4. Begun' = Begun
  BY <1>1 DEF Closing, Begun
<1>5. ReplacesOnly(R)'
  BY <1>1 DEF Closing, ReplacesOnly
<1>6. rs \in SUBSET GenJob
  OBVIOUS
<1> QED
  BY <1>2, <1>3, <1>4, <1>5, <1>6 DEF GivesUp, Closing

\* A new job is the open one of its subject.
LEMMA OpeningBegins ==
    ASSUME GenInv, NEW R, ReplacesOnly(R), NEW r \in GenJob, Opening(r),
           saved[OwnerId[r]] = None \/ r \in R
    PROVE  Begins(r) /\ ReplacesOnly(R)'
<1> DEFINE s == OwnerId[r]
<1>1. /\ TypeOK /\ GenTypeOK /\ PointersAreCurrent /\ s \in Subject /\ r \in Job
  BY DEF GenInv, GenTypeOK
<1>2. /\ state[r] = "absent" /\ state'[r] = "queued"
      /\ \A j \in Job : j # r => state'[j] = state[j]
  BY <1>1 DEF Opening, Enqueue, TypeOK
<1>3. \A j \in GenJob : Open(j) /\ OwnerId[j] = s => FALSE
  BY <1>1 DEF Opening, PointersAreCurrent, Open, Active, ActiveStates
<1>4. OpenOf[s] = {}
  BY <1>1, <1>3 DEF OpenOf
<1>5. OpenOf' = [OpenOf EXCEPT ![s] = {r}]
  <2>1. OpenOf' = [t \in Subject |-> OpenOf'[t]] /\ OpenOf = [t \in Subject |-> OpenOf[t]]
    BY DEF OpenOf
  <2>2. \A j \in GenJob : Open(j)' <=> Open(j) \/ j = r
    BY <1>2 DEF Open, Active, ActiveStates
  <2>3. OpenOf'[s] = {r}
    BY <1>1, <1>3, <2>2 DEF OpenOf
  <2>4. \A t \in Subject : t # s => OpenOf'[t] = OpenOf[t]
    BY <2>2 DEF OpenOf
  <2> QED
    BY <2>1, <2>3, <2>4
<1>6. r \notin Begun /\ Begun' = Begun \cup {r}
  BY <1>1, <1>2 DEF Begun
<1>7. ReplacesOnly(R)'
  BY <1>1, <1>2 DEF ReplacesOnly, Opening, Open, Active
<1> QED
  BY <1>4, <1>5, <1>6, <1>7 DEF Begins, Opening

\* No other job of the subject is open when one delivers.
LEMMA DeliveringDelivers ==
    ASSUME GenInv, NEW R, ReplacesOnly(R), NEW j \in GenJob, Delivering(j)
    PROVE  Delivers(j, R) /\ ReplacesOnly(R)'
<1> DEFINE s == OwnerId[j]
<1>1. /\ TypeOK /\ GenTypeOK /\ PointersAreCurrent /\ s \in Subject /\ j \in Job
  BY DEF GenInv, GenTypeOK
<1>2. /\ state'[j] = "succeeded" /\ \A i \in Job : i # j => state'[i] = state[i]
      /\ ~Open(j)'
  BY <1>1 DEF Delivering, TypeOK, Open, Active, ActiveStates
<1>3. \A i \in GenJob : Open(i) /\ OwnerId[i] = s => i = j
  BY <1>1 DEF Delivering, PointersAreCurrent, Open, Active, ActiveStates
<1>4. j \in OpenOf[s]
  BY <1>1 DEF Delivering, OpenOf
<1>5. OpenOf' = [OpenOf EXCEPT ![s] = {}]
  <2>1. OpenOf' = [t \in Subject |-> OpenOf'[t]] /\ OpenOf = [t \in Subject |-> OpenOf[t]]
    BY DEF OpenOf
  <2>2. \A i \in GenJob : Open(i)' <=> Open(i) /\ i # j
    BY <1>2 DEF Open, Active, ActiveStates
  <2>3. OpenOf'[s] = {}
    BY <1>1, <1>3, <2>2 DEF OpenOf
  <2>4. \A t \in Subject : t # s => OpenOf'[t] = OpenOf[t]
    BY <2>2 DEF OpenOf
  <2> QED
    BY <2>1, <2>3, <2>4
<1>6. Begun' = Begun
  BY <1>1, <1>2 DEF Begun, Delivering, Open, Active, ActiveStates
<1>7. ReplacesOnly(R)'
  <2>1. ASSUME NEW i \in GenJob, Open(i)' PROVE saved'[OwnerId[i]] = None \/ i \in R
    <3>1. i # j /\ Open(i) /\ i \in Job
      BY <1>2, <2>1 DEF Open, Active
    <3>2. OwnerId[i] # s
      BY <1>3, <3>1
    <3>3. saved'[OwnerId[i]] = saved[OwnerId[i]]
      BY <1>1, <3>2 DEF Delivering, GenTypeOK
    <3> QED
      BY <3>1, <3>3 DEF ReplacesOnly
  <2> QED
    BY <2>1 DEF ReplacesOnly
<1> QED
  BY <1>1, <1>4, <1>5, <1>6, <1>7 DEF Delivers, Delivering, ReplacesOnly

\* A sweep, a report, time or a lease that is granted only closes jobs.
LEMMA JobStepsClose ==
    ASSUME GenInv, Routine \/ (\E w \in Kind : ClaimMatching(w)),
           UNCHANGED <<saved, lastJob>>
    PROVE  Closing
<1>1. TypeOK /\ OnlyRequestsMakeJobs
  BY DEF GenInv, GenTypeOK
<1>2. CASE Routine
  BY <1>1, <1>2, RoutineEnds DEF Routine, Ends, Open, Active, ActiveStates, Closing
<1>3. ASSUME NEW w \in Kind, ClaimMatching(w) PROVE Closing
  <2> DEFINE st == reconcileDependencyFailures(state)
  <2>1. \A j \in Job : st[j] = state[j] \/ (state[j] = "queued" /\ st[j] = "failed")
    BY <1>1, ReconcileEffect DEF TypeOK
  <2>2. PICK C \in SUBSET Claimable(st) : ClaimFrom(w, C, st)
    BY <1>3 DEF ClaimMatching
  <2> HIDE DEF st
  <2>3. \A j \in Job : \/ state'[j] = st[j]
                       \/ state[j] = "queued" /\ state'[j] = "leased"
    <3>1. ASSUME NEW i \in C, Grant(i, w, st)
          PROVE  /\ i \in Job /\ state[i] = "queued" /\ state'[i] = "leased"
                 /\ \A j \in Job : j # i => state'[j] = st[j]
      BY <1>1, <2>1, <3>1, ReconcileEffect DEF Grant, Claimable, TypeOK, st
    <3> QED
      BY <2>2, <3>1 DEF ClaimFrom
  <2> QED
    BY <2>1, <2>3 DEF Closing, Open, Active, ActiveStates
<1> QED
  BY <1>2, <1>3

\* A document is saved with the acknowledgement of its job, or nothing is.
LEMMA PublishCloses ==
    ASSUME GenInv, NEW k \in Kind, NEW alive, PublishResult(k, alive)
    PROVE  Closing \/ \E j \in GenJob : Delivering(j)
<1> DEFINE j == held[k].job
<1>1. held[k] \in issued /\ j \in GenJob
  BY HeldJob DEF PublishResult, InFlight
<1>2. CASE UNCHANGED <<vars, saved, lastJob>>
  BY <1>2, JobStepsClose DEF Routine
<1>3. CASE /\ lastJob[OwnerId[j]] = j /\ PublishTx(OwnerId[j], j) /\ UNCHANGED lastJob
           /\ CompletionApplies(held[k]) /\ Complete(held[k])
  BY <1>1, <1>3 DEF PublishTx, Complete, CompletionApplies, Active, ActiveStates, Open, Delivering
<1> QED
  BY <1>2, <1>3 DEF PublishResult, Acknowledges

\* The runner, its heartbeat, time, other runners and crashes.
LEMMA RunnerCloses ==
    ASSUME GenInv,
           \/ \E k \in Kind : Process(k) \/ PublishResult(k, TRUE) \/ SentenceRun(k) \/ Beat(k)
           \/ GenTime \/ ReconcileElsewhere \/ SentencesReconciledElsewhere \/ Die
    PROVE  Closing \/ \E j \in GenJob : Delivering(j)
<1>1. ASSUME NEW k \in Kind, PublishResult(k, TRUE) \/ SentencePublishes(k)
      PROVE  Closing \/ \E j \in GenJob : Delivering(j)
  BY <1>1, PublishCloses DEF SentencePublishes
<1>2. ASSUME NEW k \in Kind,
             \/ ReconcileRuns(k) \/ StartGeneration(k) \/ Preflight(k) \/ Generate(k)
             \/ SentenceReconciles(k) \/ SentenceOrphans(k) \/ SentenceStarts(k)
             \/ OpensReplacement(k) \/ PointsAtReplacement(k)
      PROVE  UNCHANGED <<vars, saved, lastJob>>
  BY <1>2 DEF ReconcileRuns, StartGeneration, Preflight, Generate, SentenceReconciles,
              SentenceOrphans, SentenceStarts, OpensReplacement, PointsAtReplacement, genRows
<1>3. ASSUME NEW k \in Kind, SweepJobs(k) \/ ClaimJob(k)
      PROVE  (Routine \/ ClaimMatching(k)) /\ UNCHANGED <<saved, lastJob>>
  BY <1>3 DEF SweepJobs, ClaimJob, Routine, genRows
<1>4. ASSUME NEW k \in Kind, FailJob(k) \/ Beat(k)
      PROVE  Routine /\ UNCHANGED <<saved, lastJob>>
  BY <1>4, HeldJob DEF FailJob, Beat, InFlight, Routine, genRows
<1>5. CASE GenTime \/ ReconcileElsewhere \/ SentencesReconciledElsewhere \/ Die
  BY <1>5, JobStepsClose DEF GenTime, ReconcileElsewhere, SentencesReconciledElsewhere, Die, Routine, genRows
<1>6. ASSUME NEW k \in Kind, Process(k) \/ PublishResult(k, TRUE) \/ SentenceRun(k) \/ Beat(k)
      PROVE  Closing \/ \E j \in GenJob : Delivering(j)
  <2>1. CASE PublishResult(k, TRUE) \/ SentencePublishes(k)
    BY <1>1, <2>1
  <2>2. CASE Routine /\ UNCHANGED <<saved, lastJob>>
    BY <2>2, JobStepsClose
  <2>3. CASE ClaimMatching(k) /\ UNCHANGED <<saved, lastJob>>
    BY <2>3, JobStepsClose
  <2> QED
    BY <1>2, <1>3, <1>4, <1>6, <2>1, <2>2, <2>3 DEF Process, SentenceRun, Routine
<1> QED
  BY <1>5, <1>6

\* What a step is to a reader, when the request of a new job may replace what
\* it finds.
LEMMA DemandStep ==
    ASSUME GenInv, ReplacesOnly(Regenerate),
           \/ Closing
           \/ \E j \in GenJob : Delivering(j)
           \/ \E r \in GenJob :
                 Opening(r) /\ (saved[OwnerId[r]] = None \/ r \in Regenerate)
    PROVE  ReplacesOnly(Regenerate)' /\ Demand!Next
<1>1. /\ ReplacesOnly(Regenerate)'
      /\ \/ GivesUp
         \/ \E r \in GenJob : Begins(r) \/ Delivers(r, Regenerate)
  BY ClosingGivesUp, OpeningBegins, DeliveringDelivers
<1>2. GivesUp => \E rs \in SUBSET GenJob : Demand!GiveUp(rs)
  BY DEF GivesUp, Demand!GiveUp
<1>3. \A r \in GenJob : Begins(r) => Demand!Begin(r)
  BY DEF Begins, Demand!Begin
<1>4. \A r \in GenJob : Delivers(r, Regenerate) => Demand!Deliver(r)
  BY DEF Delivers, Demand!Deliver
<1> QED
  BY <1>1, <1>2, <1>3, <1>4 DEF Demand!Next

-----------------------------------------------------------------------------
(* Explore implements OnDemand.                                            *)

\* The recheck in the transaction that enqueues finds no open job, and no
\* document unless the request is to replace it.
LEMMA ExploreStep ==
    ASSUME GenInv, DictNext \/ UNCHANGED dictVars
    PROVE  \/ Closing
           \/ \E j \in GenJob : Delivering(j)
           \/ \E r \in GenJob : Opening(r) /\ (saved[OwnerId[r]] = None \/ r \in Regenerate)
<1>1. ASSUME NEW r \in GenJob, Start(r), ~Answered(OwnerId[r], Mode[r])
      PROVE  Opening(r) /\ (saved[OwnerId[r]] = None \/ r \in Regenerate)
  BY <1>1, DictionaryAssumption
     DEF Start, SetLastJobTx, Answered, LastState, Opening, Open, Active
<1>2. ASSUME NEW r \in GenJob,
             Lookup(r) \/ ResolveExplore(r) \/ (Start(r) /\ Answered(OwnerId[r], Mode[r]))
      PROVE  Closing
  BY <1>2, JobStepsClose DEF Lookup, ResolveExplore, Start, Routine, genVars, genRows
<1>3. CASE UNCHANGED dictVars
  BY <1>3, JobStepsClose DEF Routine, dictVars, genVars, genRows
<1>4. CASE (\E k \in Kind : DictRun(k) \/ DictBeat(k)) \/ GenTime \/ ReconcileElsewhere \/ DictCrash
  BY <1>4, RunnerCloses DEF DictRun, DictBeat, DictCrash
<1> QED
  BY <1>1, <1>2, <1>3, <1>4 DEF DictNext

\* A reader of Explore sees OnDemand: one generation of an entry at a time, each
\* ends once, and a document is replaced only by one that was asked to
\* (dictionary service.go Start, runner.go).
THEOREM ExploreImplementsOnDemand == DictSpec => ImplementsOnDemand
<1>1. DictInit => ReplacesOnly(Regenerate) /\ Demand!Init
  BY DEF DictInit, GenInit, Init, ReplacesOnly, Open, Active, ActiveStates, OpenOf, Begun,
         Demand!Init
<1>2. ASSUME GenInv, ReplacesOnly(Regenerate), DictNext \/ UNCHANGED dictVars
      PROVE  ReplacesOnly(Regenerate)' /\ [Demand!Next]_Demand!demands
  BY <1>2, ExploreStep, DemandStep
<1> QED
  BY <1>1, <1>2, DictionaryCorrect, PTL DEF DictSpec, ImplementsOnDemand, Demand!Spec

-----------------------------------------------------------------------------
(* So do the sentences.                                                    *)

\* The third phase of Ensure looks again at everything the first two saw.
LEMMA SentenceStep ==
    ASSUME SentenceInv, SentenceNext \/ UNCHANGED sentenceVars
    PROVE  \/ Closing
           \/ \E j \in GenJob : Delivering(j)
           \/ \E r \in GenJob : Opening(r) /\ (saved[OwnerId[r]] = None \/ r \in Regenerate)
<1>1. GenInv
  BY DEF SentenceInv
<1>2. ASSUME NEW r \in GenJob, EnqueueSentence(r), StillMine(r)
      PROVE  Opening(r) /\ (saved[OwnerId[r]] = None \/ r \in Regenerate)
  BY <1>2 DEF EnqueueSentence, MoveLastJob, StillMine, JobOpen, Readable, Opening
<1>3. ASSUME NEW r \in GenJob,
             \/ Inspect(r) \/ OpenRun(r) \/ ClaimRun(r) \/ DropRun(r) \/ EnsureCanceled(r)
             \/ RunAges(r) \/ (EnqueueSentence(r) /\ ~StillMine(r))
      PROVE  Closing
  BY <1>1, <1>3, JobStepsClose
     DEF Inspect, OpenRun, ClaimRun, DropRun, EnsureCanceled, RunAges, EnqueueSentence, Routine,
         genVars, genRows
<1>4. CASE UNCHANGED sentenceVars
  BY <1>1, <1>4, JobStepsClose DEF Routine, sentenceVars, genVars, genRows
<1>5. CASE \/ \E k \in Kind : SentenceRun(k) \/ Beat(k)
           \/ GenTime \/ SentencesReconciledElsewhere \/ SentenceCrash
  BY <1>1, <1>5, RunnerCloses DEF SentenceCrash
<1> QED
  BY <1>2, <1>3, <1>4, <1>5 DEF SentenceNext

\* A reader of a sentence sees OnDemand, whatever claims were lost, canceled or
\* swept as orphans between the phases (sentencetranslation service.go Ensure).
THEOREM SentencesImplementOnDemand == SentenceSpec => ImplementsOnDemand
<1>1. SentenceInit => ReplacesOnly(Regenerate) /\ Demand!Init
  BY DEF SentenceInit, GenInit, Init, ReplacesOnly, Open, Active, ActiveStates, OpenOf, Begun,
         Demand!Init
<1>2. ASSUME SentenceInv, ReplacesOnly(Regenerate), SentenceNext \/ UNCHANGED sentenceVars
      PROVE  ReplacesOnly(Regenerate)' /\ [Demand!Next]_Demand!demands
  BY <1>2, SentenceStep, DemandStep DEF SentenceInv
<1> QED
  BY <1>1, <1>2, SentencesCorrect, PTL DEF SentenceSpec, ImplementsOnDemand, Demand!Spec
=============================================================================
