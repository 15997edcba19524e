---------------------------- MODULE RelayProofs -----------------------------
(* Proofs about Relay. *)
EXTENDS Relay, JobsProofs

-----------------------------------------------------------------------------
(* What a step does to the child jobs and their results. *)

RelayTypeOK ==
    /\ result   \in [RelayJob -> Answer \cup {None}]
    /\ accepted \in [RelayJob -> SUBSET Body]
    /\ phase    \in [RelayJob -> {"idle", "enqueue", "wait", "act", "returned"}]
    /\ saw      \in [RelayJob -> States]
    /\ parent   \in [RelayJob -> {"live", "canceled", "deadline"}]
    /\ outcome  \in [RelayJob -> Answer \cup ProviderCode \cup {None}]

\* Only the caller submits its child, and only an accepted upload completes one.
SubmitsChild(j) == Enqueue(j) /\ EnqueueChild(j)

StoresResult == \E c \in issued, u \in Upload : CompleteRelay(c, u) /\ Decodes(c.job, u)

\* Every step is a routine step of the scheduler, the submission of a child,
\* or the acceptance of an upload.
LEMMA RelayRows ==
    ASSUME TypeOK, [RelayNext]_relayVars
    PROVE  \/ (RoutineStep \/ Revokes) /\ UNCHANGED result
           \/ (\E j \in RelayJob : SubmitsChild(j)) /\ UNCHANGED result
           \/ StoresResult
<1> DEFINE Routine == (RoutineStep \/ Revokes) /\ UNCHANGED result
<1>1. RelayJob \subseteq Job /\ Worker \subseteq Owner
  BY RelayAssumption
<1>2. RecoverExpired => RoutineStep
  BY DEF RecoverExpired, RoutineStep
<1>3. \A j \in Job : RecoverExpiredJob(j) \/ Cancel(j) => RoutineStep
  BY DEF RecoverExpiredJob, Cancel, RoutineStep
<1>4. ASSUME NEW w \in Worker,
             \/ PresenceAilocals(w) \/ Authenticate(w) \/ PresenceLapses(w)
             \/ LeaseRelay(w) \/ PollClaims(w) \/ PollEnds(w)
             \/ MarkRevoked(w) \/ GiveBackLeases(w)
      PROVE  Routine
  <2>1. UNCHANGED result
    BY <1>4 DEF PresenceAilocals, Authenticate, PresenceLapses, LeaseRelay, PollClaims,
       PollEnds, MarkRevoked, GiveBackLeases, resultVars
  <2>2. CASE PollClaims(w)
    <3>1. ClaimMatchingCapability(w, "relay") => "relay" \in Type
      BY <1>1, JobsAssumption DEF ClaimMatchingCapability
    <3> QED
      BY <1>1, <2>1, <2>2, <3>1 DEF PollClaims, RoutineStep, Claim
  <2>3. CASE LeaseRelay(w)
    BY <1>2, <2>1, <2>3 DEF LeaseRelay, Sweep, RoutineStep
  <2>4. CASE GiveBackLeases(w)
    BY <1>1, <2>1, <2>4 DEF GiveBackLeases, Revokes
  <2>5. CASE UNCHANGED vars
    BY <2>1, <2>5 DEF RoutineStep
  <2> QED
    BY <1>4, <2>2, <2>3, <2>4, <2>5 DEF PresenceAilocals, Authenticate, PresenceLapses,
       PollEnds, MarkRevoked
<1>5. ASSUME NEW j \in RelayJob, EnqueueChild(j)
      PROVE  Routine \/ (SubmitsChild(j) /\ UNCHANGED result)
  BY <1>5 DEF EnqueueChild, SubmitsChild, resultVars, RoutineStep
<1>6. ASSUME NEW j \in RelayJob,
             \/ ChatCompletion(j) \/ WaitCanceled(j) \/ WaitReads(j) \/ WaitActs(j)
             \/ ParentEnds(j) \/ \E u \in Uploads(j) : RepeatCompletion(j, u)
      PROVE  Routine
  <2>1. UNCHANGED result
    BY <1>6 DEF ChatCompletion, WaitCanceled, WaitReads, WaitActs, ParentEnds,
       RepeatCompletion, resultVars
  <2>2. UNCHANGED vars \/ Cancel(j) \/ RecoverExpiredJob(j)
    BY <1>6 DEF ChatCompletion, WaitCanceled, WaitReads, WaitActs, WaitSucceeded, WaitFailed,
       WaitQueued, WaitLeased, ParentEnds, RepeatCompletion, CancelChild
  <2> QED
    BY <1>1, <1>3, <2>1, <2>2 DEF RoutineStep
<1>7. ASSUME NEW c \in issued, RelayHeartbeat(c) PROVE Routine
  BY <1>7 DEF RelayHeartbeat, resultVars, RoutineStep
<1>8. ASSUME NEW c \in issued, NEW u \in Uploads(c.job), CompleteRelay(c, u)
      PROVE  StoresResult
  <2>1. u \in Upload
    BY DEF Uploads
  <2> QED
    BY <1>8, <2>1 DEF StoresResult, CompleteRelay, CompleteTx
<1>9. ASSUME NEW c \in issued, NEW f \in FailureCode, NEW retry \in BOOLEAN,
             FailRelay(c, f, retry)
      PROVE  Routine
  BY <1>9 DEF FailRelay, resultVars, RoutineStep
<1>10. CASE RelayTime
  BY <1>1, <1>2, <1>10 DEF RelayTime, resultVars, RoutineStep
<1>11. CASE UNCHANGED relayVars
  BY <1>11 DEF relayVars, resultVars, RoutineStep
<1> QED
  BY <1>4, <1>5, <1>6, <1>7, <1>8, <1>9, <1>10, <1>11 DEF RelayNext

\* A child that ended stays as it is, one that does not exist is created by its
\* caller only, and it succeeds only together with its result.
RowsOfCalls ==
    /\ TypeOK'
    /\ \A j \in RelayJob : state[j] \in TerminalStates => state'[j] = state[j]
    /\ \A j \in RelayJob : state[j] = "absent" /\ state'[j] # "absent" =>
                              phase[j] = "enqueue" /\ EnqueueChild(j)
    /\ \/ /\ UNCHANGED result
          /\ \A j \in RelayJob : state'[j] = "succeeded" => state[j] = "succeeded"
       \/ StoresResult

\* The lifecycle of the child jobs, step by step.
LEMMA StepRows ==
    ASSUME TypeOK, [RelayNext]_relayVars
    PROVE  RowsOfCalls
<1>1. RelayJob \subseteq Job
  BY RelayAssumption
<1>2. CASE (RoutineStep \/ Revokes) /\ UNCHANGED result
  <2>1. RoutineEffect /\ TypeOK'
    BY <1>2, RoutineSteps
  <2> QED
    BY <1>1, <1>2, <2>1 DEF RoutineEffect, RowsOfCalls
<1>3. ASSUME NEW j \in RelayJob, SubmitsChild(j), UNCHANGED result PROVE RowsOfCalls
  <2>1. j \in Job
    BY <1>1
  <2>2. TypeOK'
    BY <1>3, <2>1, StepTypeOK DEF SubmitsChild, Next
  <2>3. /\ state[j] = "absent" /\ state' = [state EXCEPT ![j] = "queued"]
        /\ phase[j] = "enqueue" /\ EnqueueChild(j)
    BY <1>3 DEF SubmitsChild, Enqueue, EnqueueChild
  <2> QED
    BY <1>1, <1>3, <2>2, <2>3 DEF RowsOfCalls, TypeOK, TerminalStates
<1>4. ASSUME NEW c \in issued, NEW u \in Upload, CompleteRelay(c, u), Decodes(c.job, u)
      PROVE  RowsOfCalls
  <2>1. Complete(c)
    BY <1>4 DEF CompleteRelay, CompleteTx
  <2>2. TypeOK' /\ Frozen
    BY <2>1, StepTypeOK, StepFrozen DEF Next, CredentialNext
  <2>3. UNCHANGED epoch
    BY <2>1 DEF Complete
  <2>4. c.job \in Job
    BY DEF TypeOK, Credential
  <2>5. \A j \in Job : state[j] = "absent" => state'[j] = "absent"
    BY <2>1, <2>4 DEF Complete, CompletionApplies, Active, ActiveStates, TypeOK
  <2>6. \A j \in Job : state[j] \in TerminalStates => state'[j] = state[j]
    BY <2>2, <2>3 DEF Frozen, TypeOK
  <2> QED
    BY <1>1, <1>4, <2>2, <2>5, <2>6 DEF RowsOfCalls, StoresResult
<1> QED
  BY <1>2, <1>3, <1>4, RelayRows DEF StoresResult

-----------------------------------------------------------------------------
(* The inductive invariant.                                                *)

\* What the caller knows is true: a terminal state it read is still the state of
\* its child, and before it submitted there is no child.
CallersKnow ==
    \A j \in RelayJob :
        /\ saw[j] \in TerminalStates => state[j] = saw[j]
        /\ phase[j] \in {"idle", "enqueue"} => state[j] = "absent"

RelayInv ==
    /\ TypeOK /\ RelayTypeOK
    /\ AnswersAgree
    /\ CallersKnow
    /\ ReturnedCallsLeaveNoWork

\* The first accepted result stays, and what later uploads were thanked for is
\* the same answer.
LEMMA ResultsStay ==
    ASSUME RelayInv, RowsOfCalls, [RelayNext]_relayVars
    PROVE  /\ result' \in [RelayJob -> Answer \cup {None}]
           /\ accepted' \in [RelayJob -> SUBSET Body]
           /\ \A j \in RelayJob :
                 /\ result[j] # None => result'[j] = result[j]
                 /\ result'[j] # None <=> state'[j] = "succeeded"
                 /\ \A b \in accepted'[j] : Canonical[b] = result'[j]
<1> USE DEF RelayInv, RelayTypeOK, AnswersAgree, RowsOfCalls
<1>1. RelayJob \subseteq Job /\ \A u \in Upload : u.body \in Body /\ Canonical[u.body] \in Answer
  BY RelayAssumption DEF Upload
<1>2. None \notin Answer
  BY RelayAssumption
<1>3. CASE StoresResult
  <2>1. PICK c \in issued, u \in Upload : CompleteRelay(c, u) /\ Decodes(c.job, u)
    BY <1>3 DEF StoresResult
  <2> DEFINE j == c.job
  <2>2. u.request \in RelayJob /\ j = u.request
    BY <2>1 DEF Decodes, Upload
  <2>3. /\ result[j] \in {None, Canonical[u.body]}
        /\ result' = [result EXCEPT ![j] = Canonical[u.body]]
        /\ accepted' = [accepted EXCEPT ![j] = @ \cup {u.body}]
        /\ Complete(c)
    BY <2>1 DEF CompleteRelay, CompleteTx
  <2>4. /\ state'[j] = "succeeded"
        /\ \A i \in RelayJob \ {j} : state'[i] = state[i]
    BY <1>1, <2>2, <2>3 DEF Complete, TypeOK
  <2> HIDE DEF j
  <2>5. /\ u.body \in Body /\ Canonical[u.body] \in Answer
        /\ result[j] # None => result[j] = Canonical[u.body]
    BY <1>1, <2>3
  <2>6. /\ result' \in [RelayJob -> Answer \cup {None}]
        /\ accepted' \in [RelayJob -> SUBSET Body]
    BY <2>3, <2>5
  <2>7. /\ \A i \in RelayJob \ {j} : result'[i] = result[i] /\ accepted'[i] = accepted[i]
        /\ result'[j] = Canonical[u.body] /\ accepted'[j] = accepted[j] \cup {u.body}
    BY <2>2, <2>3
  <2>8. \A b \in accepted'[j] : Canonical[b] = result'[j]
    <3>1. ASSUME NEW b \in accepted[j] PROVE Canonical[b] = Canonical[u.body]
      <4>1. b \in Body /\ Canonical[b] = result[j]
        BY <2>2
      <4>2. result[j] # None
        BY <1>2, <4>1, RelayAssumption
      <4> QED
        BY <2>5, <4>1, <4>2
    <3> QED
      BY <2>7, <3>1
  <2> QED
    BY <1>2, <2>2, <2>4, <2>5, <2>6, <2>7, <2>8
<1>4. CASE UNCHANGED result /\ \A j \in RelayJob : state'[j] = "succeeded" => state[j] = "succeeded"
  <2>1. CASE UNCHANGED accepted
    BY <1>4, <2>1 DEF TerminalStates
  <2>2. ASSUME NEW i \in RelayJob, NEW u \in Uploads(i), RepeatCompletion(i, u)
        PROVE  /\ accepted' = [accepted EXCEPT ![i] = @ \cup {u.body}]
               /\ result[i] = Canonical[u.body] /\ u.body \in Body
    BY <1>1, <2>2 DEF RepeatCompletion, Uploads
  <2>3. CASE \E i \in RelayJob : \E u \in Uploads(i) : RepeatCompletion(i, u)
    BY <1>4, <2>2, <2>3 DEF TerminalStates
  <2>4. CASE StoresResult
    BY <1>3, <2>4
  <2>5. \/ UNCHANGED accepted \/ StoresResult
        \/ \E i \in RelayJob : \E u \in Uploads(i) : RepeatCompletion(i, u)
    <3>1. \A c \in issued : \A u \in Uploads(c.job) : CompleteRelay(c, u) => StoresResult
      BY DEF StoresResult, Uploads, CompleteRelay, CompleteTx
    <3> QED
      BY <3>1 DEF RelayNext, relayVars, resultVars, PresenceAilocals, Authenticate,
         PresenceLapses, LeaseRelay, PollClaims, PollEnds, MarkRevoked, GiveBackLeases,
         ChatCompletion, EnqueueChild, WaitCanceled, WaitReads, WaitActs, ParentEnds,
         RelayHeartbeat, FailRelay, RelayTime
  <2> QED
    BY <2>1, <2>3, <2>4, <2>5
<1> QED
  BY <1>3, <1>4

\* What the invariant says of one call.
CallInv(j) ==
    /\ outcome[j] \in Answer => outcome[j] = result[j]
    /\ saw[j] \in TerminalStates => state[j] = saw[j]
    /\ phase[j] \in {"idle", "enqueue"} => state[j] = "absent"
    /\ phase[j] = "returned" /\ parent[j] = "live" => state[j] \in TerminalStates \cup {"absent"}

\* A call that does nothing keeps its part, whatever workers and other calls do.
LEMMA UnmovedCall ==
    ASSUME RelayInv, RowsOfCalls, [RelayNext]_relayVars, NEW j \in RelayJob,
           phase'[j] = phase[j], saw'[j] = saw[j], outcome'[j] = outcome[j],
           parent'[j] = "live" => parent[j] = "live"
    PROVE  CallInv(j)'
<1> USE DEF RelayInv, RelayTypeOK, CallInv
<1>1. j \in Job /\ None \notin Answer
  BY RelayAssumption
<1>2. outcome[j] \in Answer => result'[j] = outcome[j]
  BY <1>1, ResultsStay DEF AnswersAgree
<1>3. state[j] \in TerminalStates => state'[j] = state[j]
  BY DEF RowsOfCalls
<1>4. state[j] = "absent" => state'[j] = "absent"
  <2>1. SUFFICES ASSUME EnqueueChild(j), phase[j] = "enqueue" PROVE FALSE
    BY DEF RowsOfCalls
  <2>2. phase'[j] \in {"wait", "returned"}
    BY <2>1 DEF EnqueueChild, Goes, Returns
  <2> QED
    BY <2>1, <2>2
<1> QED
  BY <1>2, <1>3, <1>4 DEF CallersKnow, ReturnedCallsLeaveNoWork

\* An error of a call is one of the provider's codes, never an answer.
LEMMA ErrorsAreCodes ==
    /\ \A c : Terminal(c) \in ProviderCode
    /\ \A j, out : Stopped(j, out) = out \/ Stopped(j, out) \in ProviderCode
BY DEF Terminal, Stopped, ProviderCode

\* A call returns with the outcome out, or an error in its place.
LEMMA ReturnKeepsCall ==
    ASSUME RelayInv, NEW j \in RelayJob, NEW out \in Answer \cup ProviderCode, Returns(j, out),
           out \in Answer => out = result'[j],
           saw[j] \in TerminalStates => state'[j] = saw[j],
           parent'[j] = "live" => state'[j] \in TerminalStates \cup {"absent"}
    PROVE  /\ CallInv(j)'
           /\ outcome' \in [RelayJob -> Answer \cup ProviderCode \cup {None}]
<1> USE DEF RelayInv, RelayTypeOK
<1>1. Stopped(j, out) = out \/ Stopped(j, out) \in ProviderCode
  BY ErrorsAreCodes
<1>2. phase'[j] = "returned" /\ outcome'[j] = Stopped(j, out) /\ saw'[j] = saw[j]
  BY DEF Returns
<1>3. outcome' \in [RelayJob -> Answer \cup ProviderCode \cup {None}]
  BY <1>1 DEF Returns
<1>4. Stopped(j, out) \in Answer => Stopped(j, out) = result'[j]
  BY <1>1, RelayAssumption
<1> QED
  BY <1>2, <1>3, <1>4 DEF CallInv

\* Canceling the child ends it, or it had ended, or it never was.
LEMMA CancelEndsChild ==
    ASSUME TypeOK, NEW j \in RelayJob, CancelChild(j)
    PROVE  state'[j] \in TerminalStates \cup {"absent"}
<1>1. j \in Job
  BY RelayAssumption
<1>2. CASE Cancel(j)
  BY <1>1, <1>2 DEF Cancel, CancelRows, TerminalStates, Active
<1>3. CASE UNCHANGED vars /\ state[j] # "queued" /\ ~Active(j)
  BY <1>1, <1>3 DEF vars, TypeOK, States, TerminalStates, Active, ActiveStates
<1> QED
  BY <1>2, <1>3 DEF CancelChild

\* A step of the caller itself keeps the part of its call: it returns an answer
\* only when it read "succeeded", and while its context lives it returns only
\* when the child is over.
LEMMA MovedCall ==
    ASSUME RelayInv, RowsOfCalls, [RelayNext]_relayVars, NEW j \in RelayJob,
           \/ ChatCompletion(j) \/ EnqueueChild(j) \/ WaitCanceled(j)
           \/ WaitReads(j) \/ WaitActs(j)
    PROVE  /\ CallInv(j)'
           /\ outcome' \in [RelayJob -> Answer \cup ProviderCode \cup {None}]
<1> USE DEF RelayInv, RelayTypeOK, CallersKnow, ReturnedCallsLeaveNoWork
<1>1. j \in Job /\ None \notin Answer /\ ProviderCode \cap Answer = {}
  BY RelayAssumption
<1>2. {"unavailable", "provider_failure"} \subseteq ProviderCode
  BY DEF ProviderCode
<1>3. /\ state[j] \in TerminalStates => state'[j] = state[j]
      /\ outcome[j] \in Answer => result'[j] = outcome[j]
  BY <1>1, ResultsStay DEF RowsOfCalls, AnswersAgree
<1>4. UNCHANGED parent
  BY DEF ChatCompletion, EnqueueChild, WaitCanceled, WaitReads, WaitActs
<1>5. saw[j] \in TerminalStates => state'[j] = saw[j]
  BY <1>3
<1>6. ASSUME NEW p \in {"enqueue", "wait"}, Goes(j, p), p = "enqueue" => state'[j] = "absent"
      PROVE  /\ CallInv(j)'
             /\ outcome' \in [RelayJob -> Answer \cup ProviderCode \cup {None}]
  BY <1>3, <1>5, <1>6 DEF Goes, CallInv
<1>7. ASSUME NEW out \in ProviderCode, Returns(j, out),
             parent[j] = "live" => state'[j] \in TerminalStates \cup {"absent"}
      PROVE  /\ CallInv(j)'
             /\ outcome' \in [RelayJob -> Answer \cup ProviderCode \cup {None}]
  BY <1>1, <1>4, <1>5, <1>7, ReturnKeepsCall
<1>8. CASE ChatCompletion(j)
  <2>1. state'[j] = "absent"
    BY <1>1, <1>8 DEF ChatCompletion, vars
  <2> QED
    BY <1>2, <1>6, <1>7, <1>8, <2>1 DEF ChatCompletion
<1>9. CASE EnqueueChild(j)
  <2>1. parent[j] = "live" => Goes(j, "wait")
    BY <1>9 DEF EnqueueChild
  <2>2. parent[j] # "live" => Returns(j, "provider_failure")
    BY <1>9 DEF EnqueueChild
  <2> QED
    BY <1>2, <1>6, <1>7, <2>1, <2>2
<1>10. CASE WaitCanceled(j)
  BY <1>2, <1>7, <1>10 DEF WaitCanceled
<1>11. CASE WaitReads(j)
  <2>1. CASE parent[j] # "live"
    BY <1>2, <1>7, <1>11, <2>1 DEF WaitReads
  <2>2. CASE parent[j] = "live"
    <3>1. phase'[j] = "act" /\ saw'[j] = state[j] /\ outcome' = outcome /\ state' = state
      BY <1>11, <2>2 DEF WaitReads, vars
    <3> QED
      BY <1>3, <3>1 DEF CallInv
  <2> QED
    BY <2>1, <2>2
<1>12. CASE WaitActs(j)
  <2>1. CASE WaitSucceeded(j)
    <3>1. result[j] \in Answer /\ result' = result
      BY <1>12, <2>1 DEF WaitSucceeded, WaitActs, resultVars, AnswersAgree, TerminalStates
    <3>2. state'[j] \in TerminalStates
      BY <1>5, <2>1 DEF WaitSucceeded, TerminalStates
    <3>3. Returns(j, result[j])
      BY <2>1 DEF WaitSucceeded
    <3> QED
      BY <1>5, <3>1, <3>2, <3>3, ReturnKeepsCall
  <2>2. CASE WaitFailed(j)
    <3>1. Terminal(code[j]) \in ProviderCode
      BY ErrorsAreCodes
    <3>2. state'[j] \in TerminalStates
      BY <1>5, <2>2 DEF WaitFailed, TerminalStates
    <3>3. Returns(j, Terminal(code[j]))
      BY <2>2 DEF WaitFailed
    <3> QED
      BY <1>7, <3>1, <3>2, <3>3
  <2>3. CASE WaitQueued(j)
    BY <1>2, <1>6, <1>7, <2>3, CancelEndsChild DEF WaitQueued
  <2>4. CASE WaitLeased(j)
    BY <1>2, <1>6, <1>7, <2>4 DEF WaitLeased
  <2> QED
    BY <1>12, <2>1, <2>2, <2>3, <2>4 DEF WaitActs
<1> QED
  BY <1>8, <1>9, <1>10, <1>11, <1>12

\* One step moves one call at most, and revives no caller's context.
LEMMA OneCallMoves ==
    ASSUME RelayTypeOK, TypeOK, [RelayNext]_relayVars
    PROVE  /\ parent' \in [RelayJob -> {"live", "canceled", "deadline"}]
           /\ phase' \in [RelayJob -> {"idle", "enqueue", "wait", "act", "returned"}]
           /\ saw' \in [RelayJob -> States]
           /\ \A j \in RelayJob : parent'[j] = "live" => parent[j] = "live"
           /\ \/ UNCHANGED callVars
              \/ \E j \in RelayJob :
                    /\ \/ ChatCompletion(j) \/ EnqueueChild(j) \/ WaitCanceled(j)
                       \/ WaitReads(j) \/ WaitActs(j)
                    /\ \A i \in RelayJob \ {j} : /\ phase'[i] = phase[i] /\ saw'[i] = saw[i]
                                                 /\ outcome'[i] = outcome[i]
<1> USE DEF RelayTypeOK
<1>1. CASE UNCHANGED <<callVars, parent>>
  BY <1>1 DEF callVars
<1>2. ASSUME NEW j \in RelayJob, ParentEnds(j)
      PROVE  /\ parent' \in [RelayJob -> {"live", "canceled", "deadline"}]
             /\ \A i \in RelayJob : parent'[i] = "live" => parent[i] = "live"
             /\ UNCHANGED callVars
  BY <1>2 DEF ParentEnds
<1>3. ASSUME NEW j \in RelayJob,
             \/ ChatCompletion(j) \/ EnqueueChild(j) \/ WaitCanceled(j)
             \/ WaitReads(j) \/ WaitActs(j)
      PROVE  /\ UNCHANGED parent
             /\ phase' \in [RelayJob -> {"idle", "enqueue", "wait", "act", "returned"}]
             /\ saw' \in [RelayJob -> States]
             /\ \A i \in RelayJob \ {j} : /\ phase'[i] = phase[i] /\ saw'[i] = saw[i]
                                          /\ outcome'[i] = outcome[i]
  <2>1. UNCHANGED parent
    BY <1>3 DEF ChatCompletion, EnqueueChild, WaitCanceled, WaitReads, WaitActs
  <2>2. \/ \E p \in {"enqueue", "wait"} : Goes(j, p)
        \/ \E out : Returns(j, out)
        \/ /\ phase' = [phase EXCEPT ![j] = "act"] /\ saw' = [saw EXCEPT ![j] = state[j]]
           /\ UNCHANGED outcome
    BY <1>3 DEF ChatCompletion, EnqueueChild, WaitCanceled, WaitReads, WaitActs,
       WaitSucceeded, WaitFailed, WaitQueued, WaitLeased
  <2>3. state[j] \in States
    BY RelayAssumption DEF TypeOK
  <2> QED
    BY <2>1, <2>2, <2>3 DEF Goes, Returns
<1>4. \/ UNCHANGED <<callVars, parent>>
      \/ \E j \in RelayJob : \/ ParentEnds(j) \/ ChatCompletion(j) \/ EnqueueChild(j)
                             \/ WaitCanceled(j) \/ WaitReads(j) \/ WaitActs(j)
  BY DEF RelayNext, relayVars, PresenceAilocals, Authenticate, PresenceLapses, LeaseRelay,
     PollClaims, PollEnds, MarkRevoked, GiveBackLeases, RepeatCompletion, RelayHeartbeat,
     CompleteRelay, FailRelay, RelayTime
<1>5. ASSUME NEW j \in RelayJob, ParentEnds(j) PROVE phase' = phase /\ saw' = saw
  BY <1>5 DEF ParentEnds, callVars
<1>6. CASE \E j \in RelayJob : ParentEnds(j)
  BY <1>2, <1>5, <1>6
<1> QED
  BY <1>1, <1>3, <1>4, <1>6

\* Every step keeps the invariant.
LEMMA StepKeepsRelayInv ==
    ASSUME RelayInv, [RelayNext]_relayVars
    PROVE  RelayInv'
<1>1. RowsOfCalls
  BY StepRows DEF RelayInv
<1>2. TypeOK'
  BY <1>1 DEF RowsOfCalls
<1>3. (\A j \in RelayJob : CallInv(j)') /\ outcome' \in [RelayJob -> Answer \cup ProviderCode \cup {None}]
  <2>1. CASE UNCHANGED callVars
    BY <1>1, <2>1, OneCallMoves, UnmovedCall DEF callVars, RelayInv, RelayTypeOK
  <2>2. ASSUME NEW j \in RelayJob,
               \/ ChatCompletion(j) \/ EnqueueChild(j) \/ WaitCanceled(j)
               \/ WaitReads(j) \/ WaitActs(j),
               \A i \in RelayJob \ {j} : /\ phase'[i] = phase[i] /\ saw'[i] = saw[i]
                                         /\ outcome'[i] = outcome[i]
        PROVE  (\A i \in RelayJob : CallInv(i)')
               /\ outcome' \in [RelayJob -> Answer \cup ProviderCode \cup {None}]
    <3>1. CallInv(j)' /\ outcome' \in [RelayJob -> Answer \cup ProviderCode \cup {None}]
      BY <1>1, <2>2, MovedCall
    <3>2. \A i \in RelayJob \ {j} : CallInv(i)'
      BY <1>1, <2>2, OneCallMoves, UnmovedCall DEF RelayInv
    <3> QED
      BY <3>1, <3>2
  <2> QED
    BY <2>1, <2>2, OneCallMoves DEF RelayInv
<1>4. RelayTypeOK'
  BY <1>1, <1>3, ResultsStay, OneCallMoves DEF RelayInv, RelayTypeOK
<1>5. AnswersAgree' /\ CallersKnow' /\ ReturnedCallsLeaveNoWork'
  BY <1>1, <1>3, ResultsStay DEF CallInv, AnswersAgree, CallersKnow, ReturnedCallsLeaveNoWork
<1> QED
  BY <1>2, <1>4, <1>5 DEF RelayInv

\* The invariant is inductive, for any number of calls, workers and uploads.
THEOREM RelayCorrect == RelaySpec => []RelayInv
<1>1. RelayInit => RelayInv
  <2> SUFFICES ASSUME RelayInit PROVE RelayInv
    OBVIOUS
  <2>1. Init /\ TypeOK
    BY InitTypeOK DEF RelayInit
  <2>2. \A j \in RelayJob : state[j] = "absent"
    BY <2>1, RelayAssumption DEF Init
  <2>3. RelayTypeOK
    BY DEF RelayInit, RelayTypeOK, States
  <2>4. AnswersAgree
    BY <2>2, RelayAssumption DEF RelayInit, AnswersAgree
  <2>5. CallersKnow /\ ReturnedCallsLeaveNoWork
    BY <2>2 DEF RelayInit, CallersKnow, ReturnedCallsLeaveNoWork, TerminalStates
  <2> QED
    BY <2>1, <2>3, <2>4, <2>5 DEF RelayInv
<1>2. RelayInv /\ [RelayNext]_relayVars => RelayInv'
  BY StepKeepsRelayInv
<1> QED
  BY <1>1, <1>2, PTL DEF RelaySpec

\* One answer per call: what a worker was thanked for, what is stored and what
\* the caller gets are the same (CompleteTx, verifyAilocalsRepeatedCompletion,
\* Wait), although the caller reads the row and its result in different steps.
THEOREM OneAnswerPerCall == RelaySpec => []AnswersAgree
<1>1. RelayInv => AnswersAgree
  BY DEF RelayInv
<1> QED
  BY <1>1, RelayCorrect, PTL

\* No worker spends time on a call that returned and that nobody canceled: every
\* way out of Wait has read that the child ended, or cancels it (CancelChild).
THEOREM NoWorkIsLeftBehind == RelaySpec => []ReturnedCallsLeaveNoWork
<1>1. RelayInv => ReturnedCallsLeaveNoWork
  BY DEF RelayInv
<1> QED
  BY <1>1, RelayCorrect, PTL
=============================================================================
