----------------------------- MODULE JobsProofs -----------------------------
(* Theorems about Jobs, for every set of jobs, owners and dependencies. *)
EXTENDS Jobs, TLAPS

\* The reconcile UPDATE touches queued rows only (jobs.go, WHERE state =
\* 'queued'), so it yields states again and changes no other row.
LEMMA DoomedAreQueued ==
    ASSUME deps \subseteq Job \X Job, NEW st \in [Job -> States],
           NEW j \in Doomed(st)
    PROVE  j \in Job /\ st[j] = "queued"
<1> DEFINE Q == {i \in Job : st[i] = "queued"}
<1>1. \A e \in deps : (/\ st[e[1]] = "queued"
                       /\ st[e[2]] \in {"failed", "canceled"} \/ e[2] \in Q)
                      => e[1] \in Q
  OBVIOUS
<1>2. Q \in SUBSET Job
  OBVIOUS
<1>3. j \in Q
  BY <1>1, <1>2 DEF Doomed
<1> QED
  BY <1>3

\* Reconciling yields legal states and changes queued rows only, to failed.
LEMMA ReconcileEffect ==
    ASSUME deps \subseteq Job \X Job, NEW st \in [Job -> States]
    PROVE  /\ reconcileDependencyFailures(st) \in [Job -> States]
           /\ \A j \in Job : \/ reconcileDependencyFailures(st)[j] = st[j]
                             \/ /\ st[j] = "queued"
                                /\ reconcileDependencyFailures(st)[j] = "failed"
BY DoomedAreQueued DEF reconcileDependencyFailures, States, TerminalStates

-----------------------------------------------------------------------------
(* Type correctness. *)

USE JobsAssumption

\* A claim stores legal values; it raises attempt_count only below max_attempts.
LEMMA ClaimTypeOK ==
    ASSUME TypeOK, NEW w \in Owner, Claim(w)
    PROVE  TypeOK'
<1> DEFINE st == reconcileDependencyFailures(state)
<1>1. st \in [Job -> States]
  BY ReconcileEffect DEF TypeOK
<1>2. PICK C \in SUBSET Claimable(st) : ClaimFrom(w, C, st)
  BY DEF Claim, ClaimMatching, ClaimMatchingCapability
<1>3. CASE C = {} /\ state' = st /\ UNCHANGED <<leaseVars, due, older, deps, serial, epoch, issued, acked>>
  BY <1>1, <1>3 DEF TypeOK, leaseVars
<1>4. CASE \E j \in C : First(j, C) /\ Grant(j, w, st)
  <2>1. PICK j \in C : Grant(j, w, st)
    BY <1>4
  <2>2. j \in Job /\ attempt[j] < MaxAttempts[j]
    BY <1>2 DEF Claimable
  <2>3. Fresh(j, w) \in Credential
    BY <2>2 DEF Fresh, Credential, TypeOK
  <2> QED
    BY <2>1, <2>2, <2>3, <1>1 DEF Grant, Fresh, TypeOK, States, ActiveStates
<1> QED
  BY <1>2, <1>3, <1>4 DEF ClaimFrom

\* A sweep of expired rows stores legal values.
LEMMA RecoverTypeOK ==
    ASSUME TypeOK, NEW S \in SUBSET Job, RecoverRows(S)
    PROVE  TypeOK'
<1> DEFINE retried == {j \in S : attempt[j] < MaxAttempts[j]}
           st == [j \in Job |-> IF j \in retried THEN "queued"
                                ELSE IF j \in S THEN "failed" ELSE state[j]]
<1>1. st \in [Job -> States]
  BY DEF TypeOK, States, TerminalStates
<1>2. state' \in [Job -> States]
  BY <1>1, ReconcileEffect DEF RecoverRows, TypeOK
<1> QED
  BY <1>2 DEF RecoverRows, ClearLeases, TypeOK

\* Every step of the scheduler stores legal values.
LEMMA StepTypeOK ==
    ASSUME TypeOK, [Next]_vars
    PROVE  TypeOK'
<1>1. ASSUME NEW j \in Job, Enqueue(j) PROVE TypeOK'
  BY <1>1 DEF Enqueue, leaseVars, TypeOK, States
<1>2. ASSUME NEW S \in SUBSET Job, CancelRows(S) PROVE TypeOK'
  BY <1>2 DEF CancelRows, ClearLeases, TypeOK, States, TerminalStates
<1>3. ASSUME NEW j \in Job, Requeue(j) PROVE TypeOK'
  BY <1>3 DEF Requeue, ClearLeases, TypeOK, States
<1>4. ASSUME NEW S \in SUBSET Job, RecoverRows(S) PROVE TypeOK'
  BY <1>4, RecoverTypeOK
<1>5. ASSUME NEW j \in Job, LeaseExpires(j) PROVE TypeOK'
  BY <1>5 DEF LeaseExpires, TypeOK
<1>6. ASSUME NEW j \in Job, BackoffElapses(j) PROVE TypeOK'
  BY <1>6 DEF BackoffElapses, leaseVars, TypeOK
<1>7. ASSUME NEW e \in Edges, AddDependency(e[1], e[2]) PROVE TypeOK'
  BY <1>7 DEF AddDependency, leaseVars, TypeOK
<1>8. ASSUME NEW w \in Owner, Claim(w) PROVE TypeOK'
  BY <1>8, ClaimTypeOK
<1>9. ASSUME NEW w \in Owner, RevokeLeases(w) PROVE TypeOK'
  BY <1>9 DEF RevokeLeases, ClearLeases, TypeOK, States
<1>10. ASSUME NEW c \in issued, Heartbeat(c) PROVE TypeOK'
  BY <1>10 DEF Heartbeat, leaseVars, TypeOK, States, ActiveStates, Credential
<1>11. ASSUME NEW c \in issued, Complete(c) PROVE TypeOK'
  BY <1>11 DEF Complete, TypeOK, States, TerminalStates, Credential
<1>12. ASSUME NEW c \in issued, NEW retry \in BOOLEAN, Fail(c, retry) PROVE TypeOK'
  BY <1>12 DEF Fail, TypeOK, States, TerminalStates, Credential
<1>13. CASE UNCHANGED vars
  BY <1>13 DEF vars, TypeOK
<1> QED
  BY <1>1, <1>2, <1>3, <1>4, <1>5, <1>6, <1>7, <1>8, <1>9, <1>10, <1>11, <1>12, <1>13
       DEF Next, Cancel, CancelOwnerJobs, RecoverExpired, RecoverExpiredJob, Expired, CredentialNext

\* The empty database holds legal values.
LEMMA InitTypeOK == Init => TypeOK
BY DEF Init, TypeOK, States

\* The rows hold legal values in every reachable state, attempt_count within
\* max_attempts.
THEOREM TypeCorrect == Spec => []TypeOK
<1>1. Init => TypeOK
  BY InitTypeOK
<1>2. TypeOK /\ [Next]_vars => TypeOK'
  BY StepTypeOK
<1> QED
  BY <1>1, <1>2, PTL DEF Spec

-----------------------------------------------------------------------------
(* The lease invariant. *)

\* The parts need each other: a completion is acknowledged once because only
\* the row's token matches, a token names one lease because it is fresh, and it
\* is fresh because no credential is from the future of its row.
LeaseInv ==
    /\ TypeOK
    /\ RowsMatchTheirLease
    /\ CredentialsAreOld
    /\ TokenIdentifiesLease
    /\ AttemptIdentifiesLease
    /\ ExactlyOnceCompletion

\* What a sweep (recovery, revocation, cancellation) may do to the rows: rows
\* that lose their lease or end leave the succeeded rows alone.
Swept ==
    /\ UNCHANGED <<attempt, serial, epoch, issued, acked>>
    /\ \A j \in Job :
        /\ state'[j] \in ActiveStates => Active(j) /\ expiry'[j] = expiry[j]
        /\ state[j] = "succeeded" => state'[j] = "succeeded"
        /\ \/ owner'[j] = owner[j] /\ token'[j] = token[j]
           \/ token'[j] = 0 /\ state[j] # "succeeded" /\ state'[j] \notin ActiveStates

\* A sweep keeps the lease invariant: it hands out and forgets no credential.
LEMMA SweepKeepsLeaseInv ==
    ASSUME LeaseInv, TypeOK', Swept
    PROVE  LeaseInv'
<1>1. RowsMatchTheirLease'
  BY DEF LeaseInv, Swept, RowsMatchTheirLease, RowCredential, Active
<1>2. (CredentialsAreOld /\ TokenIdentifiesLease /\ AttemptIdentifiesLease)'
  BY DEF LeaseInv, Swept, CredentialsAreOld, TokenIdentifiesLease, AttemptIdentifiesLease
<1>3. ExactlyOnceCompletion'
  BY DEF LeaseInv, Swept, ExactlyOnceCompletion
<1> QED
  BY <1>1, <1>2, <1>3 DEF LeaseInv

\* Cancel and CancelOwnerJobs are sweeps.
LEMMA CancelSweeps ==
    ASSUME TypeOK, NEW S \in SUBSET Job, CancelRows(S)
    PROVE  Swept
BY DEF CancelRows, ClearLeases, Swept, Active, ActiveStates, TypeOK

\* workers.Revoke is a sweep.
LEMMA RevokeSweeps ==
    ASSUME TypeOK, NEW w \in Owner, RevokeLeases(w)
    PROVE  Swept
BY DEF RevokeLeases, ClearLeases, Swept, Active, ActiveStates, TypeOK

\* RecoverExpired and RecoverExpiredJob are sweeps.
LEMMA RecoverSweeps ==
    ASSUME TypeOK, NEW S \in SUBSET Expired, RecoverRows(S)
    PROVE  Swept
<1> DEFINE retried == {j \in S : attempt[j] < MaxAttempts[j]}
           st == [j \in Job |-> IF j \in retried THEN "queued"
                                ELSE IF j \in S THEN "failed" ELSE state[j]]
<1>1. st \in [Job -> States]
  BY DEF TypeOK, States, TerminalStates
<1>2. \A j \in Job : state'[j] = st[j] \/ (st[j] = "queued" /\ state'[j] = "failed")
  BY <1>1, ReconcileEffect DEF RecoverRows, TypeOK
<1>3. \A j \in S : j \in Job /\ Active(j)
  BY DEF Expired
<1>4. \A j \in Job : state'[j] \in ActiveStates => j \notin S /\ state'[j] = state[j]
  BY <1>2 DEF ActiveStates
<1>5. \A j \in Job : state[j] = "succeeded" => j \notin S /\ state'[j] = state[j]
  BY <1>2, <1>3 DEF Active, ActiveStates
<1> QED
  BY <1>3, <1>4, <1>5 DEF RecoverRows, ClearLeases, Swept, Active

\* A granted lease keeps the invariant: its token is fresh and its attempt new.
LEMMA GrantKeepsLeaseInv ==
    ASSUME LeaseInv, TypeOK', NEW w \in Owner, NEW st \in [Job -> States],
           NEW j \in Job, st[j] = "queued", Grant(j, w, st),
           \A i \in Job : \/ st[i] = state[i]
                           \/ (state[i] = "queued" /\ st[i] = "failed")
    PROVE  LeaseInv'
<1> DEFINE c == Fresh(j, w)
<1> USE DEF LeaseInv
<1>1. /\ issued' = issued \cup {c}
      /\ c.job = j /\ c.token = serial[j] + 1 /\ c.attempt = attempt[j] + 1
      /\ c.owner = w /\ c.epoch = epoch[j]
  BY DEF Grant, Fresh
<1>2. /\ attempt' = [attempt EXCEPT ![j] = attempt[j] + 1]
      /\ serial' = [serial EXCEPT ![j] = serial[j] + 1]
      /\ token' = [token EXCEPT ![j] = serial[j] + 1]
      /\ owner' = [owner EXCEPT ![j] = w]
      /\ expiry' = [expiry EXCEPT ![j] = "live"]
      /\ UNCHANGED <<epoch, acked>>
      /\ state' = [st EXCEPT ![j] = "leased"]
  BY <1>1 DEF Grant
<1>3. \A i \in Job : attempt[i] \in Nat /\ serial[i] \in Nat /\ token[i] \in Nat /\ epoch[i] \in Nat
  BY DEF TypeOK
<1>4. \A d \in issued : d.job \in Job /\ d.token \in Nat /\ d.attempt \in Nat /\ d.epoch \in Nat
  BY DEF TypeOK, Credential
<1>5. RowsMatchTheirLease'
  <2>1. RowCredential(j)' = c
    BY <1>1, <1>2 DEF RowCredential, Fresh, TypeOK
  <2>2. \A i \in Job \ {j} : RowCredential(i)' = RowCredential(i)
    BY <1>2 DEF RowCredential
  <2>3. \A i \in Job \ {j} : Active(i)' => Active(i)
    BY <1>2 DEF Active, ActiveStates
  <2> QED
    BY <1>1, <1>2, <1>3, <2>1, <2>2, <2>3 DEF RowsMatchTheirLease, TypeOK
<1>6. CredentialsAreOld'
  BY <1>1, <1>2, <1>3, <1>4 DEF CredentialsAreOld, TypeOK
<1>7. TokenIdentifiesLease'
  BY <1>1, <1>3, <1>4 DEF TokenIdentifiesLease, CredentialsAreOld
<1>8. AttemptIdentifiesLease'
  BY <1>1, <1>3, <1>4 DEF AttemptIdentifiesLease, CredentialsAreOld
<1>9. ExactlyOnceCompletion'
  <2>1. acked[j] = {}
    BY DEF ExactlyOnceCompletion
  <2> QED
    BY <1>2, <2>1 DEF ExactlyOnceCompletion
<1> QED
  BY <1>5, <1>6, <1>7, <1>8, <1>9

\* A claim keeps the lease invariant, with or without work.
LEMMA ClaimKeepsLeaseInv ==
    ASSUME LeaseInv, TypeOK', NEW w \in Owner, Claim(w)
    PROVE  LeaseInv'
<1> DEFINE st == reconcileDependencyFailures(state)
<1>1. /\ st \in [Job -> States]
      /\ \A i \in Job : \/ st[i] = state[i]
                        \/ (state[i] = "queued" /\ st[i] = "failed")
  BY ReconcileEffect DEF LeaseInv, TypeOK
<1>2. PICK C \in SUBSET Claimable(st) : ClaimFrom(w, C, st)
  BY DEF Claim, ClaimMatching, ClaimMatchingCapability
<1>3. CASE state' = st /\ UNCHANGED <<leaseVars, due, older, deps, serial, epoch, issued, acked>>
  <2>1. Swept
    BY <1>1, <1>3 DEF Swept, leaseVars, Active, ActiveStates
  <2> QED
    BY <2>1, SweepKeepsLeaseInv
<1>4. CASE \E j \in C : Grant(j, w, st)
  <2>1. PICK j \in C : Grant(j, w, st)
    BY <1>4
  <2>2. j \in Job /\ st[j] = "queued"
    BY <1>2 DEF Claimable
  <2> HIDE DEF st
  <2> QED
    BY <1>1, <2>1, <2>2, GrantKeepsLeaseInv
<1> QED
  BY <1>2, <1>3, <1>4 DEF ClaimFrom

\* Heartbeat, Complete and Fail keep the invariant for any credential.
LEMMA ReportKeepsLeaseInv ==
    ASSUME LeaseInv, TypeOK', NEW c \in issued, CredentialNext(c)
    PROVE  LeaseInv'
<1> USE DEF LeaseInv
<1>1. c.job \in Job /\ c.token \in Nat
  BY DEF TypeOK, Credential
<1>2. CASE Heartbeat(c)
  <2>1. Active(c.job) /\ acked' = acked /\ UNCHANGED leaseVars
    BY <1>2 DEF Heartbeat, Active, ActiveStates
  <2>2. RowsMatchTheirLease'
    BY <1>1, <1>2, <2>1 DEF Heartbeat, leaseVars, RowsMatchTheirLease, RowCredential, Active, TypeOK
  <2>3. (CredentialsAreOld /\ TokenIdentifiesLease /\ AttemptIdentifiesLease)'
    BY <1>2 DEF Heartbeat, leaseVars, CredentialsAreOld, TokenIdentifiesLease, AttemptIdentifiesLease
  <2>4. ExactlyOnceCompletion'
    BY <1>1, <1>2, <2>1 DEF Heartbeat, leaseVars, ExactlyOnceCompletion, TypeOK
  <2> QED
    BY <2>2, <2>3, <2>4
<1>3. CASE Complete(c)
  <2>1. token[c.job] = c.token
    BY <1>3 DEF Complete, CompletionApplies, Matches
  <2>2. acked[c.job] \subseteq {c.token}
    BY <1>1, <1>3, <2>1 DEF Complete, CompletionApplies, Active, ActiveStates, ExactlyOnceCompletion
  <2>3. /\ state'[c.job] = "succeeded"
        /\ \A j \in Job \ {c.job} : state'[j] = state[j] /\ expiry'[j] = expiry[j]
        /\ acked' = [acked EXCEPT ![c.job] = {c.token}]
        /\ UNCHANGED <<attempt, owner, token, serial, epoch, issued>>
    BY <1>1, <1>3, <2>2 DEF Complete, TypeOK
  <2>4. RowsMatchTheirLease'
    BY <2>3 DEF RowsMatchTheirLease, RowCredential, Active, ActiveStates
  <2>5. (CredentialsAreOld /\ TokenIdentifiesLease /\ AttemptIdentifiesLease)'
    BY <2>3 DEF CredentialsAreOld, TokenIdentifiesLease, AttemptIdentifiesLease
  <2>6. ExactlyOnceCompletion'
    BY <1>1, <2>1, <2>3 DEF ExactlyOnceCompletion, TypeOK
  <2> QED
    BY <2>4, <2>5, <2>6
<1>4. ASSUME NEW retry \in BOOLEAN, Fail(c, retry) PROVE LeaseInv'
  <2>1. Swept
    BY <1>1, <1>4 DEF Fail, FailureApplies, Swept, Active, ActiveStates, TypeOK
  <2> QED
    BY <2>1, SweepKeepsLeaseInv
<1> QED
  BY <1>2, <1>3, <1>4 DEF CredentialNext

\* The owner's requeue starts a new epoch, older credentials stay older.
LEMMA RequeueKeepsLeaseInv ==
    ASSUME LeaseInv, TypeOK', NEW j \in Job, Requeue(j)
    PROVE  LeaseInv'
<1> USE DEF LeaseInv
<1>1. /\ state'[j] = "queued" /\ token'[j] = 0 /\ acked'[j] = {}
      /\ epoch' = [epoch EXCEPT ![j] = epoch[j] + 1]
      /\ UNCHANGED <<serial, issued>>
      /\ \A i \in Job \ {j} : /\ state'[i] = state[i] /\ attempt'[i] = attempt[i]
                              /\ owner'[i] = owner[i] /\ token'[i] = token[i]
                              /\ expiry'[i] = expiry[i] /\ acked'[i] = acked[i]
  BY DEF Requeue, ClearLeases, TypeOK
<1>2. RowsMatchTheirLease'
  BY <1>1 DEF RowsMatchTheirLease, RowCredential, Active, ActiveStates, TypeOK
<1>3. CredentialsAreOld'
  <2>1. \A c \in issued : c.job \in Job /\ c.epoch \in Nat
    BY DEF TypeOK, Credential
  <2> QED
    BY <1>1, <2>1 DEF CredentialsAreOld, TypeOK
<1>4. TokenIdentifiesLease' /\ AttemptIdentifiesLease'
  BY <1>1 DEF TokenIdentifiesLease, AttemptIdentifiesLease
<1>5. ExactlyOnceCompletion'
  BY <1>1 DEF ExactlyOnceCompletion
<1> QED
  BY <1>2, <1>3, <1>4, <1>5

\* Enqueue, AddDependency and the passing of time keep the invariant.
LEMMA OtherKeepsLeaseInv ==
    ASSUME LeaseInv, TypeOK', NEW j \in Job, NEW d \in Job,
           \/ Enqueue(j) \/ AddDependency(j, d) \/ BackoffElapses(j) \/ LeaseExpires(j)
           \/ UNCHANGED vars
    PROVE  LeaseInv'
<1>1. /\ UNCHANGED <<attempt, owner, token, serial, epoch, issued, acked>>
      /\ \A i \in Job : /\ state'[i] \in ActiveStates =>
                            Active(i) /\ expiry'[i] \in {expiry[i], "past"}
                        /\ state[i] = "succeeded" => state'[i] = "succeeded"
  BY DEF LeaseInv, TypeOK, Enqueue, AddDependency, BackoffElapses, LeaseExpires, vars,
         leaseVars, Active, ActiveStates
<1>2. RowsMatchTheirLease'
  BY <1>1 DEF LeaseInv, RowsMatchTheirLease, RowCredential, Active
<1>3. (CredentialsAreOld /\ TokenIdentifiesLease /\ AttemptIdentifiesLease)'
  BY <1>1 DEF LeaseInv, CredentialsAreOld, TokenIdentifiesLease, AttemptIdentifiesLease
<1>4. ExactlyOnceCompletion'
  BY <1>1 DEF LeaseInv, ExactlyOnceCompletion
<1> QED
  BY <1>2, <1>3, <1>4 DEF LeaseInv

\* Every step of the scheduler keeps the lease invariant.
LEMMA StepLeaseInv ==
    ASSUME LeaseInv, [Next]_vars
    PROVE  LeaseInv'
<1>1. TypeOK'
  BY StepTypeOK DEF LeaseInv
<1>2. ASSUME NEW S \in SUBSET Job, CancelRows(S) PROVE LeaseInv'
  BY <1>1, <1>2, CancelSweeps, SweepKeepsLeaseInv DEF LeaseInv
<1>3. ASSUME NEW S \in SUBSET Expired, RecoverRows(S) PROVE LeaseInv'
  BY <1>1, <1>3, RecoverSweeps, SweepKeepsLeaseInv DEF LeaseInv
<1>4. ASSUME NEW w \in Owner, RevokeLeases(w) PROVE LeaseInv'
  BY <1>1, <1>4, RevokeSweeps, SweepKeepsLeaseInv DEF LeaseInv
<1>5. ASSUME NEW w \in Owner, Claim(w) PROVE LeaseInv'
  BY <1>1, <1>5, ClaimKeepsLeaseInv
<1>6. ASSUME NEW c \in issued, CredentialNext(c) PROVE LeaseInv'
  BY <1>1, <1>6, ReportKeepsLeaseInv
<1>7. ASSUME NEW j \in Job, Requeue(j) PROVE LeaseInv'
  BY <1>1, <1>7, RequeueKeepsLeaseInv
<1>8. ASSUME NEW j \in Job, Enqueue(j) \/ BackoffElapses(j) \/ LeaseExpires(j) PROVE LeaseInv'
  BY <1>1, <1>8, OtherKeepsLeaseInv
<1>9. ASSUME NEW e \in Edges, AddDependency(e[1], e[2]) PROVE LeaseInv'
  BY <1>1, <1>9, OtherKeepsLeaseInv
<1>10. CASE UNCHANGED vars
  BY <1>10 DEF vars, LeaseInv, TypeOK, RowsMatchTheirLease, RowCredential, Active,
     CredentialsAreOld, TokenIdentifiesLease, AttemptIdentifiesLease, ExactlyOnceCompletion
<1> QED
  BY <1>2, <1>3, <1>4, <1>5, <1>6, <1>7, <1>8, <1>9, <1>10
     DEF Next, Cancel, CancelOwnerJobs, RecoverExpired, RecoverExpiredJob

\* Every row matches the lease it was given under in every reachable state.
THEOREM LeaseCorrect == Spec => []LeaseInv
<1>1. Init => LeaseInv
  BY DEF Init, LeaseInv, TypeOK, States, RowsMatchTheirLease, CredentialsAreOld, Active, ActiveStates,
         TokenIdentifiesLease, AttemptIdentifiesLease, ExactlyOnceCompletion
<1>2. LeaseInv /\ [Next]_vars => LeaseInv'
  BY StepLeaseInv
<1> QED
  BY <1>1, <1>2, PTL DEF Spec

\* A completion is acknowledged for one lease only and is never taken back
\* (finishTx).
THEOREM CompletionIsExactlyOnce == Spec => []ExactlyOnceCompletion
<1>1. LeaseInv => ExactlyOnceCompletion
  BY DEF LeaseInv
<1> QED
  BY <1>1, LeaseCorrect, PTL

\* No attempt number is handed out twice between two requests of the owner, so
\* a request costs at most max_attempts leases.
THEOREM AttemptsAreNotReused == Spec => []AttemptIdentifiesLease
<1>1. LeaseInv => AttemptIdentifiesLease
  BY DEF LeaseInv
<1> QED
  BY <1>1, LeaseCorrect, PTL

-----------------------------------------------------------------------------
(* Which steps end a lease, and which activate a row. *)

\* A row is activated by a claim only; every other step that leaves a row
\* active leaves its owner in place.
NoActivation ==
    \A j \in Job : state'[j] \in ActiveStates => Active(j) /\ owner'[j] = owner[j]

\* Only a claim makes a row active or gives an active row another owner.
LEMMA OnlyClaimsActivate ==
    ASSUME TypeOK, [Next]_vars
    PROVE  NoActivation \/ \E w \in Owner : Claim(w)
<1>1. ASSUME NEW S \in SUBSET Job, CancelRows(S) PROVE NoActivation
  BY <1>1 DEF CancelRows, ClearLeases, NoActivation, Active, ActiveStates, TypeOK
<1>2. ASSUME NEW S \in SUBSET Expired, RecoverRows(S) PROVE NoActivation
  BY <1>2, RecoverSweeps DEF Swept, NoActivation
<1>3. ASSUME NEW w \in Owner, RevokeLeases(w) PROVE NoActivation
  BY <1>3 DEF RevokeLeases, ClearLeases, NoActivation, Active, ActiveStates, TypeOK
<1>4. ASSUME NEW c \in issued, CredentialNext(c) PROVE NoActivation
  <2>1. c.job \in Job
    BY DEF TypeOK, Credential
  <2> QED
    BY <1>4, <2>1 DEF CredentialNext, Heartbeat, Complete, Fail, FailureApplies, leaseVars,
       NoActivation, Active, ActiveStates, TypeOK
<1>5. ASSUME NEW j \in Job, Requeue(j) PROVE NoActivation
  BY <1>5 DEF Requeue, ClearLeases, NoActivation, Active, ActiveStates, TypeOK
<1>6. ASSUME NEW j \in Job, Enqueue(j) \/ BackoffElapses(j) \/ LeaseExpires(j) PROVE NoActivation
  BY <1>6 DEF Enqueue, BackoffElapses, LeaseExpires, leaseVars, NoActivation, Active,
     ActiveStates, TypeOK
<1>7. ASSUME NEW e \in Edges, AddDependency(e[1], e[2]) PROVE NoActivation
  BY <1>7 DEF AddDependency, leaseVars, NoActivation, Active
<1>8. CASE UNCHANGED vars
  BY <1>8 DEF vars, NoActivation, Active
<1> QED
  BY <1>1, <1>2, <1>3, <1>4, <1>5, <1>6, <1>7, <1>8
     DEF Next, Cancel, CancelOwnerJobs, RecoverExpired, RecoverExpiredJob

\* A worker of the common protocol holds at most one active lease per job type
\* (ClaimMatchingCapability).
THEOREM LanesAreExclusive == Spec => []OneActiveLeasePerLane
<1> DEFINE Inv == TypeOK /\ OneActiveLeasePerLane
<1>1. Init => Inv
  BY DEF Init, TypeOK, States, OneActiveLeasePerLane, Active, ActiveStates
<1>2. Inv /\ [Next]_vars => Inv'
  <2> SUFFICES ASSUME Inv, [Next]_vars PROVE OneActiveLeasePerLane'
    BY StepTypeOK
  <2>1. CASE NoActivation
    BY <2>1 DEF NoActivation, OneActiveLeasePerLane, Active
  <2>2. ASSUME NEW w \in Owner, Claim(w) PROVE OneActiveLeasePerLane'
    <3> DEFINE st == reconcileDependencyFailures(state)
    <3>1. \A i \in Job : st[i] \in ActiveStates => Active(i)
      BY ReconcileEffect DEF TypeOK, Active, ActiveStates
    <3>2. PICK C \in SUBSET Claimable(st) :
             /\ ClaimFrom(w, C, st)
             /\ w \in CapabilityOwner => \A j \in C : ~LaneBusy(w, JobType[j])
      <4>1. CASE ClaimMatching(w)
        BY <4>1 DEF ClaimMatching
      <4>2. ASSUME NEW t \in Type, ClaimMatchingCapability(w, t)
            PROVE  \E C \in SUBSET Claimable(st) :
                     /\ ClaimFrom(w, C, st)
                     /\ w \in CapabilityOwner => \A j \in C : ~LaneBusy(w, JobType[j])
        <5> DEFINE C == {j \in Claimable(st) : JobType[j] = t /\ ~LaneBusy(w, t)}
        <5>1. C \in SUBSET Claimable(st) /\ \A j \in C : ~LaneBusy(w, JobType[j])
          OBVIOUS
        <5>2. ClaimFrom(w, C, st)
          BY <4>2 DEF ClaimMatchingCapability
        <5> QED
          BY <5>1, <5>2
      <4> QED
        BY <2>2, <4>1, <4>2 DEF Claim
    <3>3. CASE state' = st /\ UNCHANGED <<leaseVars, due, older, deps, serial, epoch, issued, acked>>
      BY <3>1, <3>3 DEF OneActiveLeasePerLane, leaseVars, Active
    <3>4. CASE \E j \in C : Grant(j, w, st)
      <4>1. PICK j \in C : Grant(j, w, st)
        BY <3>4
      <4>2. j \in Job
        BY <3>2 DEF Claimable
      <4>3. /\ state' = [st EXCEPT ![j] = "leased"]
            /\ owner' = [owner EXCEPT ![j] = w]
        BY <4>1 DEF Grant
      <4>4. \A i \in Job \ {j} : /\ state'[i] \in ActiveStates => Active(i)
                                 /\ owner'[i] = owner[i]
        BY <3>1, <4>3 DEF reconcileDependencyFailures, TypeOK
      <4>5. owner'[j] = w
        BY <4>2, <4>3 DEF TypeOK
      <4>6. w \in CapabilityOwner =>
              \A i \in Job \ {j} : state'[i] \in ActiveStates /\ owner'[i] = w
                                   => JobType[i] # JobType[j]
        BY <3>2, <4>4 DEF LaneBusy
      <4> QED
        BY <4>4, <4>5, <4>6 DEF OneActiveLeasePerLane, Active
    <3> QED
      BY <3>2, <3>3, <3>4 DEF ClaimFrom
  <2> QED
    BY <2>1, <2>2, OnlyClaimsActivate
<1>3. Inv => OneActiveLeasePerLane
  OBVIOUS
<1> QED
  BY <1>1, <1>2, <1>3, PTL DEF Spec

-----------------------------------------------------------------------------
(* The dependency graph. *)

\* The ancestors of a job are closed under dependencies.
LEMMA AncestorsClosed ==
    ASSUME NEW edges \in SUBSET (Job \X Job), NEW j \in Job,
           NEW e \in edges, e[1] = j \/ e[1] \in Ancestors(edges, j)
    PROVE  e[2] \in Ancestors(edges, j)
BY DEF Ancestors

\* They are the least such set.
LEMMA AncestorsLeast ==
    ASSUME NEW edges \in SUBSET (Job \X Job), NEW j \in Job, NEW S \in SUBSET Job,
           \A e \in edges : e[1] = j \/ e[1] \in S => e[2] \in S
    PROVE  Ancestors(edges, j) \subseteq S
BY DEF Ancestors

\* A dependency of a dependency is one: the rows reached from d are reached from j.
LEMMA AncestorsTransitive ==
    ASSUME NEW edges \in SUBSET (Job \X Job), NEW i \in Job, NEW j \in Ancestors(edges, i)
    PROVE  j \in Job /\ Ancestors(edges, j) \subseteq Ancestors(edges, i)
<1>1. Ancestors(edges, i) \in SUBSET Job
  BY DEF Ancestors
<1>2. \A e \in edges : e[1] = j \/ e[1] \in Ancestors(edges, i) => e[2] \in Ancestors(edges, i)
  BY AncestorsClosed
<1> QED
  BY <1>1, <1>2, AncestorsLeast

\* An edge the reachability query lets through closes no cycle.
LEMMA AcceptedEdgeClosesNoCycle ==
    ASSUME NEW edges \in SUBSET (Job \X Job), NEW j \in Job, NEW d \in Job,
           \A i \in Job : i \notin Ancestors(edges, i),
           j # d, j \notin Ancestors(edges, d)
    PROVE  \A i \in Job : i \notin Ancestors(edges \cup {<<j, d>>}, i)
<1> SUFFICES ASSUME NEW i \in Job
             PROVE  i \notin Ancestors(edges \cup {<<j, d>>}, i)
  OBVIOUS
<1> DEFINE A == Ancestors(edges, i)
           D == Ancestors(edges, d) \cup {d}
           S == IF j \in A \cup {i} THEN A \cup D ELSE A
<1>1. A \in SUBSET Job /\ D \in SUBSET Job
  BY DEF Ancestors
<1>2. S \in SUBSET Job
  BY <1>1
<1>3. \A e \in edges : e[1] = i \/ e[1] \in S => e[2] \in S
  BY AncestorsClosed
<1>4. i = j \/ j \in S => d \in S
  <2>1. j \notin D
    OBVIOUS
  <2> QED
    BY <2>1
<1>5. i \notin S
  <2>1. CASE j \in A \cup {i}
    <3>1. i \notin D
      <4>1. ASSUME i \in D PROVE FALSE
        <5>1. CASE j = i
          BY <4>1, <5>1
        <5>2. CASE j \in A
          <6>1. CASE i = d
            BY <5>2, <6>1
          <6>2. CASE i \in Ancestors(edges, d)
            BY <5>2, <6>2, AncestorsTransitive
          <6> QED
            BY <4>1, <6>1, <6>2
        <5> QED
          BY <2>1, <5>1, <5>2
      <4> QED
        BY <4>1
    <3> QED
      BY <2>1, <3>1
  <2>2. CASE j \notin A \cup {i}
    BY <2>2
  <2> QED
    BY <2>1, <2>2
<1>6. \A e \in edges \cup {<<j, d>>} : e[1] = i \/ e[1] \in S => e[2] \in S
  BY <1>3, <1>4
<1>7. edges \cup {<<j, d>>} \in SUBSET (Job \X Job)
  OBVIOUS
<1> HIDE DEF S
<1> QED
  BY <1>2, <1>5, <1>6, <1>7, AncestorsLeast

\* The dependency graph is acyclic in every reachable state (AddDependency).
THEOREM DependencyGraphIsAcyclic == Spec => []DependenciesAcyclic
<1> DEFINE Inv == TypeOK /\ DependenciesAcyclic
<1>1. Init => Inv
  <2>1. ASSUME NEW j \in Job PROVE j \notin Ancestors({}, j)
    BY AncestorsLeast
  <2> QED
    BY <2>1 DEF Init, TypeOK, States, DependenciesAcyclic
<1>2. Inv /\ [Next]_vars => Inv'
  <2> SUFFICES ASSUME Inv, [Next]_vars PROVE DependenciesAcyclic'
    BY StepTypeOK
  <2>1. CASE UNCHANGED deps
    BY <2>1 DEF DependenciesAcyclic, Ancestors
  <2>2. ASSUME NEW e \in Edges, AddDependency(e[1], e[2]) PROVE DependenciesAcyclic'
    <3>1. e[1] \in Job /\ e[2] \in Job
      OBVIOUS
    <3>2. \A i \in Job : i \notin Ancestors(deps \cup {<<e[1], e[2]>>}, i)
      BY <2>2, <3>1, AcceptedEdgeClosesNoCycle DEF AddDependency, DependenciesAcyclic, TypeOK
    <3>3. deps' = deps \cup {<<e[1], e[2]>>}
      BY <2>2 DEF AddDependency
    <3> QED
      BY <3>2, <3>3 DEF DependenciesAcyclic, Ancestors
  <2>3. UNCHANGED deps \/ \E e \in Edges : AddDependency(e[1], e[2])
    BY DEF Next, vars, Enqueue, Cancel, CancelOwnerJobs, CancelRows, Requeue, RecoverExpired,
       RecoverExpiredJob, RecoverRows, LeaseExpires, BackoffElapses, Claim, ClaimMatching,
       ClaimMatchingCapability, ClaimFrom, Grant, RevokeLeases, CredentialNext, Heartbeat,
       Complete, Fail
  <2> QED
    BY <2>1, <2>2, <2>3
<1>3. Inv => DependenciesAcyclic
  OBVIOUS
<1> QED
  BY <1>1, <1>2, <1>3, PTL DEF Spec

-----------------------------------------------------------------------------
(* What happens to terminal rows and to live leases. *)

\* One step leaves a terminal row alone or starts it over.
Frozen ==
    \A j \in Job : state[j] \in TerminalStates =>
        \/ /\ state'[j] = state[j] /\ attempt'[j] = attempt[j]
           /\ owner'[j] = owner[j] /\ token'[j] = token[j]
        \/ epoch'[j] = epoch[j] + 1

\* A sweep changes the rows in S and, through failed dependencies, queued rows.
LEMMA RecoverEffect ==
    ASSUME TypeOK, NEW S \in SUBSET Expired, RecoverRows(S)
    PROVE  /\ UNCHANGED <<attempt, serial, epoch>>
           /\ \A j \in Job \ S : /\ owner'[j] = owner[j] /\ token'[j] = token[j]
                                 /\ \/ state'[j] = state[j]
                                    \/ (state[j] = "queued" /\ state'[j] = "failed")
           /\ \A j \in S : /\ Active(j) /\ expiry[j] = "past"
                           /\ state'[j] \in {"queued", "failed"}
                           /\ state'[j] = "queued" => attempt[j] < MaxAttempts[j]
<1> DEFINE retried == {j \in S : attempt[j] < MaxAttempts[j]}
           st == [j \in Job |-> IF j \in retried THEN "queued"
                                ELSE IF j \in S THEN "failed" ELSE state[j]]
<1>1. st \in [Job -> States]
  BY DEF TypeOK, States, TerminalStates
<1>2. \A j \in Job : state'[j] = st[j] \/ (st[j] = "queued" /\ state'[j] = "failed")
  BY <1>1, ReconcileEffect DEF RecoverRows, TypeOK
<1>3. \A j \in S : j \in Job /\ Active(j) /\ expiry[j] = "past"
  BY DEF Expired
<1> QED
  BY <1>2, <1>3 DEF RecoverRows, ClearLeases

\* What a claim does to the rows it does not lease.
LEMMA ClaimEffect ==
    ASSUME TypeOK, NEW w \in Owner, Claim(w)
    PROVE  /\ epoch' = epoch
           /\ \/ /\ UNCHANGED <<attempt, owner, token, serial>>
                 /\ state' = reconcileDependencyFailures(state)
              \/ \E j \in Job : /\ reconcileDependencyFailures(state)[j] = "queued"
                                /\ state[j] = "queued"
                                /\ attempt[j] < MaxAttempts[j]
                                /\ Grant(j, w, reconcileDependencyFailures(state))
<1> DEFINE st == reconcileDependencyFailures(state)
<1>1. PICK C \in SUBSET Claimable(st) : ClaimFrom(w, C, st)
  BY DEF Claim, ClaimMatching, ClaimMatchingCapability
<1>2. CASE state' = st /\ UNCHANGED <<leaseVars, due, older, deps, serial, epoch, issued, acked>>
  BY <1>2 DEF leaseVars
<1>3. CASE \E j \in C : Grant(j, w, st)
  <2>1. PICK j \in C : Grant(j, w, st)
    BY <1>3
  <2>2. j \in Job /\ st[j] = "queued" /\ attempt[j] < MaxAttempts[j]
    BY <1>1 DEF Claimable
  <2>3. state[j] = "queued"
    BY <2>2, ReconcileEffect DEF TypeOK
  <2> QED
    BY <2>1, <2>2, <2>3 DEF Grant
<1> QED
  BY <1>1, <1>2, <1>3 DEF ClaimFrom

\* Every step leaves terminal rows alone, or is the requeue of their owner.
LEMMA StepFrozen ==
    ASSUME TypeOK, [Next]_vars
    PROVE  Frozen
<1>1. ASSUME NEW S \in SUBSET Job, CancelRows(S) PROVE Frozen
  BY <1>1 DEF CancelRows, ClearLeases, Frozen, Active, ActiveStates, TerminalStates
<1>2. ASSUME NEW S \in SUBSET Expired, RecoverRows(S) PROVE Frozen
  BY <1>2, RecoverEffect DEF Frozen, Active, ActiveStates, TerminalStates
<1>3. ASSUME NEW w \in Owner, RevokeLeases(w) PROVE Frozen
  BY <1>3 DEF RevokeLeases, ClearLeases, Frozen, Active, ActiveStates, TerminalStates
<1>4. ASSUME NEW c \in issued, CredentialNext(c) PROVE Frozen
  <2>1. c.job \in Job
    BY DEF TypeOK, Credential
  <2> QED
    BY <1>4, <2>1 DEF CredentialNext, Heartbeat, Complete, CompletionApplies, Fail,
       FailureApplies, leaseVars, Frozen, Active, ActiveStates, TerminalStates, TypeOK
<1>5. ASSUME NEW j \in Job, Requeue(j) PROVE Frozen
  BY <1>5 DEF Requeue, ClearLeases, Frozen, TypeOK
<1>6. ASSUME NEW j \in Job, Enqueue(j) \/ BackoffElapses(j) \/ LeaseExpires(j) PROVE Frozen
  BY <1>6 DEF Enqueue, BackoffElapses, LeaseExpires, leaseVars, Frozen, TerminalStates, TypeOK
<1>7. ASSUME NEW e \in Edges, AddDependency(e[1], e[2]) PROVE Frozen
  BY <1>7 DEF AddDependency, leaseVars, Frozen
<1>8. ASSUME NEW w \in Owner, Claim(w) PROVE Frozen
  <2> DEFINE st == reconcileDependencyFailures(state)
  <2>1. \A j \in Job : state[j] \in TerminalStates => st[j] = state[j]
    BY ReconcileEffect DEF TypeOK, TerminalStates
  <2> HIDE DEF st
  <2>2. CASE UNCHANGED <<attempt, owner, token, serial>> /\ state' = st
    BY <2>1, <2>2 DEF Frozen
  <2>3. ASSUME NEW j \in Job, state[j] = "queued", Grant(j, w, st) PROVE Frozen
    BY <2>1, <2>3 DEF Grant, Frozen, TerminalStates
  <2> QED
    BY <1>8, <2>2, <2>3, ClaimEffect DEF st
<1>9. CASE UNCHANGED vars
  BY <1>9 DEF vars, Frozen
<1> QED
  BY <1>1, <1>2, <1>3, <1>4, <1>5, <1>6, <1>7, <1>8, <1>9
     DEF Next, Cancel, CancelOwnerJobs, RecoverExpired, RecoverExpiredJob

\* No late or repeated report, sweep or claim changes a terminal row.
THEOREM TerminalRowsStayFrozen == Spec => TerminalRowsAreFrozen
<1>1. TypeOK /\ [Next]_vars => [Frozen]_vars
  BY StepFrozen
<1> QED
  BY <1>1, TypeCorrect, PTL DEF Spec, Frozen, TerminalRowsAreFrozen

\* What the handlers compare with a credential, attempt_count and the token hash,
\* identifies it: a credential that matches is the one the row was leased under.
LEMMA MatchingCredential ==
    ASSUME LeaseInv, NEW c \in issued, Matches(c)
    PROVE  c = RowCredential(c.job)
<1> USE DEF LeaseInv
<1>1. c.job \in Job /\ c.token \in 1..serial[c.job] /\ serial[c.job] \in Nat
  BY DEF TypeOK, Credential, CredentialsAreOld
<1>2. token[c.job] = c.token /\ token[c.job] # 0
  BY <1>1 DEF Matches
<1>3. RowCredential(c.job) \in issued
  BY <1>1, <1>2 DEF RowsMatchTheirLease
<1>4. RowCredential(c.job).job = c.job /\ RowCredential(c.job).token = c.token
  BY <1>2 DEF RowCredential
<1> QED
  BY <1>3, <1>4 DEF TokenIdentifiesLease

\* A live lease ends by its own credential, a cancellation or a revocation.
Protected ==
    \A j \in Job : Active(j) /\ Live(j) /\ state'[j] \notin ActiveStates =>
        \/ state'[j] = "canceled"
        \/ RevokeLeases(owner[j])
        \/ \E c \in issued : /\ c = RowCredential(j)
                             /\ Complete(c) \/ \E retry \in BOOLEAN : Fail(c, retry)

\* Every step that ends a live lease is its own report, a cancellation or a revocation.
LEMMA StepProtected ==
    ASSUME LeaseInv, [Next]_vars
    PROVE  Protected
<1> USE DEF LeaseInv
<1>1. ASSUME NEW S \in SUBSET Job, CancelRows(S) PROVE Protected
  BY <1>1 DEF CancelRows, Protected, Active
<1>2. ASSUME NEW S \in SUBSET Expired, RecoverRows(S) PROVE Protected
  BY <1>2, RecoverEffect DEF Protected, Live, Active, ActiveStates
<1>3. ASSUME NEW w \in Owner, RevokeLeases(w) PROVE Protected
  BY <1>3 DEF RevokeLeases, Protected, Active
<1>4. ASSUME NEW c \in issued, CredentialNext(c) PROVE Protected
  <2>1. c.job \in Job
    BY DEF TypeOK, Credential
  <2>2. ASSUME Matches(c) PROVE c = RowCredential(c.job)
    BY <2>2, MatchingCredential
  <2>3. CASE Heartbeat(c)
    BY <2>1, <2>3 DEF Heartbeat, Protected, Active, ActiveStates, TypeOK
  <2>4. ASSUME Complete(c) \/ \E retry \in BOOLEAN : Fail(c, retry) PROVE Protected
    <3>1. \A j \in Job \ {c.job} : state'[j] = state[j]
      BY <2>1, <2>4 DEF Complete, Fail, TypeOK
    <3>2. Active(c.job) => c = RowCredential(c.job)
      BY <2>2, <2>4 DEF Complete, CompletionApplies, Fail, FailureApplies
    <3> QED
      BY <2>1, <2>4, <3>1, <3>2 DEF Protected, Active
  <2> QED
    BY <1>4, <2>3, <2>4 DEF CredentialNext
<1>5. ASSUME NEW j \in Job, Requeue(j) PROVE Protected
  BY <1>5 DEF Requeue, Protected, Active, ActiveStates, TerminalStates, TypeOK
<1>6. ASSUME NEW j \in Job, Enqueue(j) \/ BackoffElapses(j) \/ LeaseExpires(j) PROVE Protected
  BY <1>6 DEF Enqueue, BackoffElapses, LeaseExpires, Protected, Active, ActiveStates, TypeOK
<1>7. ASSUME NEW e \in Edges, AddDependency(e[1], e[2]) PROVE Protected
  BY <1>7 DEF AddDependency, Protected, Active
<1>8. ASSUME NEW w \in Owner, Claim(w) PROVE Protected
  <2> DEFINE st == reconcileDependencyFailures(state)
  <2>1. \A j \in Job : Active(j) => st[j] = state[j]
    BY ReconcileEffect DEF TypeOK, Active, ActiveStates
  <2> HIDE DEF st
  <2>2. CASE state' = st
    BY <2>1, <2>2 DEF Protected, Active
  <2>3. ASSUME NEW j \in Job, state[j] = "queued", Grant(j, w, st) PROVE Protected
    BY <2>1, <2>3 DEF Grant, Protected, Active, ActiveStates
  <2> QED
    BY <1>8, <2>2, <2>3, ClaimEffect DEF st
<1>9. CASE UNCHANGED vars
  BY <1>9 DEF vars, Protected, Active
<1> QED
  BY <1>1, <1>2, <1>3, <1>4, <1>5, <1>6, <1>7, <1>8, <1>9
     DEF Next, Cancel, CancelOwnerJobs, RecoverExpired, RecoverExpiredJob

\* No sweep and no older credential takes a live lease away (RecoverExpired,
\* finishTx).
THEOREM LiveLeasesAreProtected == Spec => LiveLeaseIsProtected
<1>1. LeaseInv /\ [Next]_vars => [Protected]_vars
  BY StepProtected
<1> QED
  BY <1>1, LeaseCorrect, PTL DEF Spec, Protected, LiveLeaseIsProtected
-----------------------------------------------------------------------------
(* Steps that neither submit, reopen nor complete work. *)

\* What goes on around a job whatever component owns it; a revocation apart,
\* which takes leases without looking at attempts.
RoutineStep ==
    \/ \E S \in SUBSET Job : CancelRows(S)
    \/ \E S \in SUBSET Expired : RecoverRows(S)
    \/ \E w \in Owner : Claim(w)
    \/ \E c \in issued : Heartbeat(c) \/ \E retry \in BOOLEAN : Fail(c, retry)
    \/ \E j \in Job : LeaseExpires(j) \/ BackoffElapses(j)
    \/ UNCHANGED vars

Revokes == \E w \in Owner : RevokeLeases(w)

\* Such a step creates, reopens and succeeds no row.
RoutineEffect ==
    /\ UNCHANGED <<older, epoch>>
    /\ issued \subseteq issued'
    /\ \A j \in Job :
        /\ state[j] \in TerminalStates \cup {"absent"} => state'[j] = state[j]
        /\ state'[j] \in {"succeeded", "absent"} => state'[j] = state[j]

\* The queue, the attempts and the leases take care of themselves: only owners
\* create and reopen rows, and only the holder of a lease completes one.
LEMMA RoutineSteps ==
    ASSUME TypeOK, RoutineStep \/ Revokes
    PROVE  RoutineEffect /\ TypeOK'
<1> USE DEF RoutineEffect, States, ActiveStates, TerminalStates
<1>1. ASSUME NEW S \in SUBSET Job, CancelRows(S) PROVE RoutineEffect /\ TypeOK'
  BY <1>1 DEF CancelRows, ClearLeases, TypeOK, Active
<1>2. ASSUME NEW S \in SUBSET Expired, RecoverRows(S) PROVE RoutineEffect /\ TypeOK'
  <2>1. TypeOK'
    BY <1>2, RecoverTypeOK DEF Expired
  <2>2. UNCHANGED <<older, epoch, issued>>
    BY <1>2 DEF RecoverRows
  <2> QED
    BY <1>2, <2>1, <2>2, RecoverEffect DEF Active
<1>3. ASSUME NEW w \in Owner, Claim(w) PROVE RoutineEffect /\ TypeOK'
  <2> DEFINE st == reconcileDependencyFailures(state)
  <2>1. TypeOK'
    BY <1>3, ClaimTypeOK
  <2>2. /\ st \in [Job -> States]
        /\ \A j \in Job : st[j] = state[j] \/ (state[j] = "queued" /\ st[j] = "failed")
    BY ReconcileEffect DEF TypeOK
  <2>3. older' = older /\ issued \subseteq issued'
    BY <1>3 DEF Claim, ClaimMatching, ClaimMatchingCapability, ClaimFrom, Grant
  <2> HIDE DEF st
  <2>4. CASE state' = st
    BY <1>3, <2>1, <2>2, <2>3, <2>4, ClaimEffect
  <2>5. ASSUME NEW j \in Job, state[j] = "queued", Grant(j, w, st)
        PROVE  RoutineEffect /\ TypeOK'
    BY <2>1, <2>2, <2>3, <2>5 DEF Grant
  <2> QED
    BY <1>3, <2>4, <2>5, ClaimEffect DEF st
<1>4. ASSUME NEW c \in issued, NEW retry \in BOOLEAN, Heartbeat(c) \/ Fail(c, retry)
      PROVE  RoutineEffect /\ TypeOK'
  <2>1. c.job \in Job
    BY DEF TypeOK, Credential
  <2>2. TypeOK'
    BY <1>4, StepTypeOK DEF Next, CredentialNext
  <2>3. /\ state[c.job] \in ActiveStates /\ UNCHANGED <<older, epoch, issued>>
        /\ \E s \in {"running", "queued", "failed"} : state' = [state EXCEPT ![c.job] = s]
    BY <1>4 DEF Heartbeat, Fail, FailureApplies, Active
  <2> QED
    BY <2>1, <2>2, <2>3 DEF TypeOK
<1>5. ASSUME NEW j \in Job, LeaseExpires(j) \/ BackoffElapses(j)
      PROVE  RoutineEffect /\ TypeOK'
  BY <1>5, StepTypeOK DEF LeaseExpires, BackoffElapses, Next
<1>6. CASE UNCHANGED vars
  BY <1>6, StepTypeOK DEF vars
<1>7. ASSUME NEW w \in Owner, RevokeLeases(w) PROVE RoutineEffect /\ TypeOK'
  <2>1. TypeOK'
    BY <1>7, StepTypeOK DEF Next
  <2> QED
    BY <1>7, <2>1 DEF RevokeLeases, Active
<1> QED
  BY <1>1, <1>2, <1>3, <1>4, <1>5, <1>6, <1>7 DEF RoutineStep, Revokes

-----------------------------------------------------------------------------
(* Attempts and the queue. *)

\* A row that does not exist yet has used no attempt; with it, the budget of
\* queued rows is inductive as long as no worker is revoked.
BudgetInv ==
    /\ TypeOK
    /\ QueuedRowsHaveAttemptsLeft
    /\ \A j \in Job : state[j] = "absent" => attempt[j] = 0

\* Recovery and retried failures terminate a row on its last attempt.
LEMMA RoutineKeepsBudget ==
    ASSUME BudgetInv, RoutineStep
    PROVE  BudgetInv'
<1> DEFINE Kept == \A j \in Job : /\ state'[j] = "queued" => attempt'[j] < MaxAttempts[j]
                                  /\ state'[j] = "absent" => attempt'[j] = 0
<1> USE DEF BudgetInv, QueuedRowsHaveAttemptsLeft
<1> SUFFICES Kept
  BY RoutineSteps
<1>1. ASSUME NEW S \in SUBSET Job, CancelRows(S) PROVE Kept
  BY <1>1 DEF CancelRows
<1>2. ASSUME NEW S \in SUBSET Expired, RecoverRows(S) PROVE Kept
  BY <1>2, RecoverEffect
<1>3. ASSUME NEW w \in Owner, Claim(w) PROVE Kept
  <2> DEFINE st == reconcileDependencyFailures(state)
  <2>1. st \in [Job -> States] /\ \A j \in Job : st[j] = state[j] \/ st[j] = "failed"
    BY ReconcileEffect DEF TypeOK
  <2> HIDE DEF st
  <2>2. CASE attempt' = attempt /\ state' = st
    BY <2>1, <2>2
  <2>3. ASSUME NEW j \in Job, Grant(j, w, st) PROVE Kept
    <3>1. \A i \in Job : state'[i] = IF i = j THEN "leased" ELSE st[i]
      BY <2>1, <2>3 DEF Grant
    <3>2. \A i \in Job \ {j} : attempt'[i] = attempt[i]
      BY <2>3 DEF Grant, TypeOK
    <3> QED
      BY <2>1, <3>1, <3>2
  <2> QED
    BY <1>3, <2>2, <2>3, ClaimEffect DEF st
<1>4. ASSUME NEW c \in issued, NEW retry \in BOOLEAN, Heartbeat(c) \/ Fail(c, retry) PROVE Kept
  <2>1. c.job \in Job
    BY DEF TypeOK, Credential
  <2> QED
    BY <1>4, <2>1 DEF Heartbeat, Fail, FailureApplies, Matches, leaseVars, TypeOK
<1>5. ASSUME NEW j \in Job, BackoffElapses(j) \/ LeaseExpires(j) PROVE Kept
  BY <1>5 DEF BackoffElapses, LeaseExpires, leaseVars
<1>6. CASE UNCHANGED vars
  BY <1>6 DEF vars
<1> QED
  BY <1>1, <1>2, <1>3, <1>4, <1>5, <1>6 DEF RoutineStep

\* Without revocations a queued row can always be claimed again: recovery and
\* retried failures terminate the row on its last attempt (RecoverExpired,
\* finishTx).  workers.Revoke breaks this, see JobsRevokeStrands.cfg.
THEOREM QueuedRowsCanRun ==
    ASSUME Revocable = {}
    PROVE  Spec => []QueuedRowsHaveAttemptsLeft
<1>1. Init => BudgetInv
  BY DEF Init, BudgetInv, TypeOK, States, QueuedRowsHaveAttemptsLeft
<1>2. BudgetInv /\ [Next]_vars => BudgetInv'
  <2> SUFFICES ASSUME BudgetInv, [Next]_vars PROVE BudgetInv'
    OBVIOUS
  <2> DEFINE Kept == \A j \in Job : /\ state'[j] = "queued" => attempt'[j] < MaxAttempts[j]
                                    /\ state'[j] = "absent" => attempt'[j] = 0
  <2>1. Kept => BudgetInv'
    BY StepTypeOK DEF BudgetInv, QueuedRowsHaveAttemptsLeft
  <2> USE DEF BudgetInv, QueuedRowsHaveAttemptsLeft
  <2>2. ASSUME NEW c \in issued, Complete(c) PROVE Kept
    <3>1. c.job \in Job
      BY DEF TypeOK, Credential
    <3> QED
      BY <2>2, <3>1 DEF Complete, TypeOK
  <2>3. ASSUME NEW j \in Job, Requeue(j) PROVE Kept
    BY <2>3 DEF Requeue, TypeOK
  <2>4. ASSUME NEW j \in Job, Enqueue(j) PROVE Kept
    BY <2>4 DEF Enqueue, leaseVars, TypeOK
  <2>5. ASSUME NEW e \in Edges, AddDependency(e[1], e[2]) PROVE Kept
    BY <2>5 DEF AddDependency, leaseVars
  <2>6. ASSUME NEW w \in Owner, RevokeLeases(w) PROVE FALSE
    BY <2>6 DEF RevokeLeases
  <2>7. CASE RoutineStep
    BY <2>7, RoutineKeepsBudget
  <2>8. \/ RoutineStep
        \/ \E c \in issued : Complete(c)
        \/ \E j \in Job : Requeue(j) \/ Enqueue(j)
        \/ \E e \in Edges : AddDependency(e[1], e[2])
        \/ \E w \in Owner : RevokeLeases(w)
    <3>1. \A j \in Job : RecoverExpiredJob(j) => \E S \in SUBSET Expired : RecoverRows(S)
      BY DEF RecoverExpiredJob
    <3>2. RecoverExpired => \E S \in SUBSET Expired : RecoverRows(S)
      BY DEF RecoverExpired
    <3> QED
      BY <3>1, <3>2 DEF Next, RoutineStep, CredentialNext, Cancel, CancelOwnerJobs
  <2> QED
    BY <2>1, <2>2, <2>3, <2>4, <2>5, <2>6, <2>7, <2>8
<1>3. BudgetInv => QueuedRowsHaveAttemptsLeft
  BY DEF BudgetInv
<1> QED
  BY <1>1, <1>2, <1>3, PTL DEF Spec

-----------------------------------------------------------------------------
(* The scheduler implements WorkLedger. *)

\* A step that only puts held rows back and ends open or held rows.
SweepShape ==
    /\ UNCHANGED <<attempt, serial>>
    /\ \A j \in Job :
        \/ /\ state'[j] = state[j]
           /\ state[j] = "succeeded" => token'[j] = token[j]
        \/ Active(j) /\ state'[j] \in ActiveStates
        \/ Active(j) /\ state'[j] = "queued"
        \/ /\ state[j] = "queued" \/ Active(j)
           /\ state'[j] \in {"failed", "canceled"}

\* What puts back or closes rows without granting is a sweep of the ledger.
LEMMA SweepRefines ==
    ASSUME TypeOK, TypeOK', SweepShape
    PROVE  [Ledger!Next]_(Ledger!ledger)
<1> DEFINE back == {j \in Job : Active(j) /\ state'[j] = "queued"}
           closing == {j \in Job : /\ state[j] = "queued" \/ Active(j)
                                   /\ state'[j] \in {"failed", "canceled"}}
<1>1. \A j \in back : LedgerPhase[j] = "held"
  BY DEF LedgerPhase, Active, ActiveStates
<1>2. \A j \in closing : LedgerPhase[j] \in {"open", "held"}
  BY DEF LedgerPhase, Active, ActiveStates
<1>3. LedgerPhase' = [j \in Job |-> IF j \in closing THEN "closed"
                                   ELSE IF j \in back THEN "open" ELSE LedgerPhase[j]]
  <2>1. \A j \in Job : LedgerPhase'[j] = IF j \in closing THEN "closed"
                                   ELSE IF j \in back THEN "open" ELSE LedgerPhase[j]
    BY DEF SweepShape, LedgerPhase, Active, ActiveStates
  <2> QED
    BY <2>1 DEF LedgerPhase
<1>4. LedgerWinner' = LedgerWinner
  BY DEF SweepShape, LedgerWinner, Active, ActiveStates
<1>5. UNCHANGED <<serial, attempt, LedgerWinner>>
  BY <1>4 DEF SweepShape
<1>6. back \in SUBSET Job /\ closing \in SUBSET Job
  OBVIOUS
<1> HIDE DEF back, closing
<1>7. Ledger!Sweep(back, closing)
  BY <1>1, <1>2, <1>3, <1>5 DEF Ledger!Sweep
<1> QED
  BY <1>6, <1>7 DEF Ledger!Next

\* A claim is a grant of the ledger, or a sweep when it found no work.
LEMMA ClaimRefines ==
    ASSUME LeaseInv, TypeOK', NEW w \in Owner, Claim(w)
    PROVE  [Ledger!Next]_(Ledger!ledger)
<1> DEFINE st == reconcileDependencyFailures(state)
<1> USE DEF LeaseInv
<1>1. \A i \in Job : st[i] = state[i] \/ (state[i] = "queued" /\ st[i] = "failed")
  BY ReconcileEffect DEF TypeOK
<1>2. st \in [Job -> States]
  BY ReconcileEffect DEF TypeOK
<1> HIDE DEF st
<1>3. CASE UNCHANGED <<attempt, owner, token, serial>> /\ state' = st
  <2>1. SweepShape
    BY <1>1, <1>3 DEF SweepShape
  <2> QED
    BY <2>1, SweepRefines
<1>4. ASSUME NEW j \in Job, st[j] = "queued", state[j] = "queued",
             attempt[j] < MaxAttempts[j], Grant(j, w, st)
      PROVE  Ledger!Next
  <2> DEFINE closing == {i \in Job : state[i] = "queued" /\ st[i] = "failed"}
  <2>1. /\ state' = [st EXCEPT ![j] = "leased"]
        /\ attempt' = [attempt EXCEPT ![j] = attempt[j] + 1]
        /\ serial' = [serial EXCEPT ![j] = serial[j] + 1]
        /\ \A i \in Job \ {j} : token'[i] = token[i]
    BY <1>4 DEF Grant, Fresh, TypeOK
  <2>2. LedgerPhase[j] = "open" /\ j \notin closing
    BY <1>4 DEF LedgerPhase
  <2>3. \A i \in closing : LedgerPhase[i] = "open"
    BY DEF LedgerPhase
  <2>4. LedgerPhase' = [i \in Job |-> IF i = j THEN "held"
                                     ELSE IF i \in closing THEN "closed" ELSE LedgerPhase[i]]
    <3>1. \A i \in Job : LedgerPhase'[i] = IF i = j THEN "held"
                                     ELSE IF i \in closing THEN "closed" ELSE LedgerPhase[i]
      BY <1>1, <1>2, <2>1 DEF LedgerPhase, Active, ActiveStates
    <3> QED
      BY <3>1 DEF LedgerPhase
  <2>5. LedgerWinner' = LedgerWinner
    <3>1. \A i \in Job : LedgerWinner'[i] = LedgerWinner[i]
      BY <1>1, <1>2, <1>4, <2>1 DEF LedgerWinner
    <3> QED
      BY <3>1 DEF LedgerWinner
  <2>6. closing \in SUBSET Job
    OBVIOUS
  <2> HIDE DEF closing
  <2>7. Ledger!Grant(j, closing)
    BY <1>4, <2>1, <2>2, <2>3, <2>4, <2>5 DEF Ledger!Grant
  <2> QED
    BY <2>6, <2>7 DEF Ledger!Next
<1> QED
  BY <1>3, <1>4, ClaimEffect DEF st

\* Every step of the scheduler is a step of the ledger or invisible to it.
LEMMA StepRefines ==
    ASSUME LeaseInv, [Next]_vars
    PROVE  [Ledger!Next]_(Ledger!ledger)
<1> USE DEF LeaseInv
<1>0. TypeOK'
  BY StepTypeOK
<1>1. ASSUME NEW S \in SUBSET Job, CancelRows(S) PROVE [Ledger!Next]_(Ledger!ledger)
  <2>1. SweepShape
    BY <1>1 DEF CancelRows, ClearLeases, SweepShape, Active, ActiveStates
  <2> QED
    BY <1>0, <2>1, SweepRefines
<1>2. ASSUME NEW S \in SUBSET Expired, RecoverRows(S) PROVE [Ledger!Next]_(Ledger!ledger)
  <2>1. SweepShape
    BY <1>2, RecoverEffect DEF SweepShape
  <2> QED
    BY <1>0, <2>1, SweepRefines
<1>3. ASSUME NEW w \in Owner, RevokeLeases(w) PROVE [Ledger!Next]_(Ledger!ledger)
  <2>1. SweepShape
    BY <1>3 DEF RevokeLeases, ClearLeases, SweepShape, Active, ActiveStates
  <2> QED
    BY <1>0, <2>1, SweepRefines
<1>4. ASSUME NEW c \in issued, CredentialNext(c) PROVE [Ledger!Next]_(Ledger!ledger)
  <2>1. c.job \in Job
    BY DEF TypeOK, Credential
  <2>2. CASE Heartbeat(c)
    <3>1. SweepShape
      BY <2>1, <2>2 DEF Heartbeat, leaseVars, SweepShape, Active, ActiveStates, TypeOK
    <3> QED
      BY <1>0, <3>1, SweepRefines
  <2>3. ASSUME NEW retry \in BOOLEAN, Fail(c, retry) PROVE [Ledger!Next]_(Ledger!ledger)
    <3>1. SweepShape
      BY <2>1, <2>3 DEF Fail, FailureApplies, SweepShape, TypeOK
    <3> QED
      BY <1>0, <3>1, SweepRefines
  <2>4. CASE Complete(c)
    <3>1. CASE CompletionApplies(c)
      <4>1. /\ state' = [state EXCEPT ![c.job] = "succeeded"]
            /\ UNCHANGED <<attempt, serial, token>>
        BY <2>4, <3>1 DEF Complete, CompletionApplies, Active, ActiveStates
      <4>2. token[c.job] = serial[c.job] /\ Active(c.job)
        BY <2>1, <3>1 DEF CompletionApplies, RowsMatchTheirLease
      <4>3. LedgerPhase[c.job] = "held"
        BY <2>1, <4>2 DEF LedgerPhase, Active, ActiveStates
      <4>4. LedgerPhase' = [LedgerPhase EXCEPT ![c.job] = "closed"]
        <5>1. \A j \in Job : LedgerPhase'[j] = IF j = c.job THEN "closed" ELSE LedgerPhase[j]
          BY <4>1 DEF LedgerPhase, Active, ActiveStates, TypeOK
        <5> QED
          BY <5>1 DEF LedgerPhase
      <4>5. LedgerWinner' = [LedgerWinner EXCEPT ![c.job] = serial[c.job]]
        <5>1. \A j \in Job : LedgerWinner'[j] = IF j = c.job THEN serial[j] ELSE LedgerWinner[j]
          BY <4>1, <4>2 DEF LedgerWinner, TypeOK
        <5> QED
          BY <5>1 DEF LedgerWinner
      <4>6. Ledger!Deliver(c.job)
        BY <4>1, <4>3, <4>4, <4>5 DEF Ledger!Deliver
      <4> QED
        BY <2>1, <4>6 DEF Ledger!Next
    <3>2. CASE ~CompletionApplies(c)
      <4>1. UNCHANGED <<state, attempt, serial, token>>
        BY <2>4, <3>2 DEF Complete
      <4>2. SweepShape
        BY <4>1 DEF SweepShape
      <4> QED
        BY <1>0, <4>2, SweepRefines
    <3> QED
      BY <3>1, <3>2
  <2> QED
    BY <1>4, <2>2, <2>3, <2>4 DEF CredentialNext
<1>5. ASSUME NEW j \in Job, Requeue(j) PROVE [Ledger!Next]_(Ledger!ledger)
  <2>1. /\ state[j] \in TerminalStates
        /\ state' = [state EXCEPT ![j] = "queued"]
        /\ attempt' = [attempt EXCEPT ![j] = 0]
        /\ serial' = serial
        /\ \A i \in Job \ {j} : token'[i] = token[i]
    BY <1>5 DEF Requeue, ClearLeases
  <2>2. LedgerPhase[j] = "closed"
    BY <2>1 DEF LedgerPhase, TerminalStates, Active, ActiveStates
  <2>3. LedgerPhase' = [i \in Job |-> IF i \in {} \cup {j} THEN "open" ELSE LedgerPhase[i]]
    BY <2>1 DEF LedgerPhase, Active, ActiveStates, TypeOK
  <2>4. LedgerWinner' = [i \in Job |-> IF i \in {j} THEN 0 ELSE LedgerWinner[i]]
    BY <2>1 DEF LedgerWinner, TypeOK
  <2>5. attempt' = [i \in Job |-> IF i \in {j} THEN 0 ELSE attempt[i]]
    BY <2>1 DEF TypeOK
  <2>6. Ledger!Ask({}, {j})
    BY <2>1, <2>2, <2>3, <2>4, <2>5 DEF Ledger!Ask
  <2> QED
    BY <2>6 DEF Ledger!Next
<1>6. ASSUME NEW j \in Job, Enqueue(j) PROVE [Ledger!Next]_(Ledger!ledger)
  <2>1. /\ state[j] = "absent"
        /\ state' = [state EXCEPT ![j] = "queued"]
        /\ UNCHANGED <<attempt, serial, token>>
    BY <1>6 DEF Enqueue, leaseVars
  <2>2. LedgerPhase[j] = "none"
    BY <2>1 DEF LedgerPhase
  <2>3. LedgerPhase' = [i \in Job |-> IF i \in {j} \cup {} THEN "open" ELSE LedgerPhase[i]]
    BY <2>1 DEF LedgerPhase, Active, ActiveStates, TypeOK
  <2>4. LedgerWinner' = [i \in Job |-> IF i \in {} THEN 0 ELSE LedgerWinner[i]]
    BY <2>1 DEF LedgerWinner, TypeOK
  <2>5. attempt' = [i \in Job |-> IF i \in {} THEN 0 ELSE attempt[i]]
    BY <2>1 DEF TypeOK
  <2>6. Ledger!Ask({j}, {})
    BY <2>1, <2>2, <2>3, <2>4, <2>5 DEF Ledger!Ask
  <2> QED
    BY <2>6 DEF Ledger!Next
<1>7. ASSUME UNCHANGED <<state, attempt, serial, token>> PROVE [Ledger!Next]_(Ledger!ledger)
  <2>1. SweepShape
    BY <1>7 DEF SweepShape
  <2> QED
    BY <1>0, <2>1, SweepRefines
<1>8. ASSUME NEW w \in Owner, Claim(w) PROVE [Ledger!Next]_(Ledger!ledger)
  BY <1>0, <1>8, ClaimRefines
<1>9. ASSUME NEW j \in Job, BackoffElapses(j) \/ LeaseExpires(j) PROVE [Ledger!Next]_(Ledger!ledger)
  BY <1>7, <1>9 DEF BackoffElapses, LeaseExpires, leaseVars
<1>10. ASSUME NEW e \in Edges, AddDependency(e[1], e[2]) PROVE [Ledger!Next]_(Ledger!ledger)
  BY <1>7, <1>10 DEF AddDependency, leaseVars
<1>11. CASE UNCHANGED vars
  BY <1>7, <1>11 DEF vars
<1> QED
  BY <1>1, <1>2, <1>3, <1>4, <1>5, <1>6, <1>8, <1>9, <1>10, <1>11
     DEF Next, Cancel, CancelOwnerJobs, RecoverExpired, RecoverExpiredJob

\* Owners of work see WorkLedger: each scheduler step is a ledger step or
\* changes nothing they can see.
THEOREM SchedulerImplementsLedger == Spec => ImplementsLedger
<1>1. Init => Ledger!Init
  BY DEF Init, Ledger!Init, LedgerPhase, LedgerWinner
<1>2. LeaseInv /\ [Next]_vars => [Ledger!Next]_(Ledger!ledger)
  BY StepRefines
<1> QED
  BY <1>1, <1>2, LeaseCorrect, PTL DEF Spec, ImplementsLedger, Ledger!Spec
=============================================================================
