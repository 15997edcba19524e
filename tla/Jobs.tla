-------------------------------- MODULE Jobs --------------------------------
(***************************************************************************)
(* The durable job scheduler (internal/jobs/jobs.go) and the statements    *)
(* other packages issue against its table: workers.Service.Revoke and the  *)
(* owner's requeue in speech.ensureSpeechJobTx and reader.QueueAnalysis.   *)
(*                                                                         *)
(* The SQLite pool has one connection (internal/store/db.go), so every     *)
(* transaction is one atomic step and each action below is one             *)
(* transaction.  What is not atomic is everything between them: a worker   *)
(* that holds a credential may present it late, twice, or after another    *)
(* worker got a newer one, so a handler is enabled for EVERY credential    *)
(* ever issued.                                                            *)
(*                                                                         *)
(* Wall-clock time enters only through comparisons with "now": a lease is  *)
(* live until LeaseExpires, a backoff is not due until BackoffElapses.     *)
(***************************************************************************)
EXTENDS Naturals

CONSTANTS
    Job,            \* idempotency keys; a row exists once it was enqueued
    Owner,          \* lease owners: workers and the server's own runners
    None,           \* the empty lease_owner
    Type,           \* job types
    JobType,        \* job_type of each job
    OwnerId,        \* owner_type/owner_id of each job (render, article, ...)
    Entity,         \* the values OwnerId takes
    MaxAttempts,    \* max_attempts of each job (validateSpec: 1..3)
    Priority,       \* priority of each job
    Serves,         \* the job types the predicate (and target) of an owner admits
    CapabilityOwner,\* owners that claim through ClaimMatchingCapability
    Revocable,      \* owners a Revoke may name (enrolled workers)
    Edges,          \* the dependencies AddDependency may be asked for
    MaxRequeues     \* bound: times an owner asks again for one finished job

ASSUME JobsAssumption ==
    /\ None \notin Owner
    /\ JobType \in [Job -> Type]
    /\ OwnerId \in [Job -> Entity]
    /\ MaxAttempts \in [Job -> 1..3]
    /\ Priority \in [Job -> Nat]
    /\ Serves \in [Owner -> SUBSET Type]
    /\ CapabilityOwner \subseteq Owner
    /\ Revocable \subseteq Owner
    /\ Edges \subseteq Job \X Job
    /\ MaxRequeues \in Nat

VARIABLES
    state,      \* job.state, "absent" before the row exists
    attempt,    \* job.attempt_count
    due,        \* job.available_at <= now
    owner,      \* job.lease_owner
    token,      \* job.lease_token_hash; 0 is the empty string
    expiry,     \* job.lease_expires_at compared with now; "none" is empty
    older,      \* <<i, j>>: the row of i was created before the row of j
    deps,       \* job_dependency: <<j, d>> when j depends on d
    serial,     \* claim tokens drawn so far for a job (each is fresh)
    epoch,      \* how often the owner asked again for the job
    issued,     \* the credentials in the hands of lease owners
    acked       \* tokens whose Complete was acknowledged in this epoch

leaseVars == <<attempt, owner, token, expiry>>
vars == <<state, attempt, due, owner, token, expiry, older, deps, serial,
          epoch, issued, acked>>

-----------------------------------------------------------------------------
(* States, rows and credentials.                                           *)

ActiveStates   == {"leased", "running"}
TerminalStates == {"succeeded", "failed", "canceled"}
States == {"absent", "queued"} \cup ActiveStates \cup TerminalStates

Credential ==
    [job : Job, token : Nat, attempt : Nat, owner : Owner, epoch : Nat]

Active(j) == state[j] \in ActiveStates
Live(j)   == expiry[j] = "live"

\* Faulty: the token hash is not compared.
MatchesAttemptOnly(c) == attempt[c.job] = c.attempt /\ token[c.job] # 0

\* attempt_count and the token hash both match the presented credential
Matches(c) == attempt[c.job] = c.attempt /\ token[c.job] = c.token

\* the credential a claim of j by w hands out
Fresh(j, w) == [job |-> j, token |-> serial[j] + 1, attempt |-> attempt[j] + 1,
                owner |-> w, epoch |-> epoch[j]]

Init ==
    /\ state   = [j \in Job |-> "absent"]
    /\ attempt = [j \in Job |-> 0]
    /\ due     = [j \in Job |-> TRUE]
    /\ owner   = [j \in Job |-> None]
    /\ token   = [j \in Job |-> 0]
    /\ expiry  = [j \in Job |-> "none"]
    /\ older   = {}
    /\ deps    = {}
    /\ serial  = [j \in Job |-> 0]
    /\ epoch   = [j \in Job |-> 0]
    /\ issued  = {}
    /\ acked   = [j \in Job |-> {}]

-----------------------------------------------------------------------------
(* Creating rows and dependencies.                                         *)

\* INSERT ... ON CONFLICT(idempotency_key) DO NOTHING: an existing row is
\* returned untouched whatever its state.
Enqueue(j) ==
    /\ state[j] = "absent"
    /\ state' = [state EXCEPT ![j] = "queued"]
    /\ older' = older \cup {<<i, j>> : i \in {k \in Job : state[k] # "absent"}}
    /\ UNCHANGED <<leaseVars, due, deps, serial, epoch, issued, acked>>

\* The rows the recursive query reaches from j: the least set that holds the
\* dependencies of j and of each of its members.
Ancestors(edges, j) ==
    {a \in Job : \A S \in SUBSET Job :
        (\A e \in edges : e[1] = j \/ e[1] \in S => e[2] \in S) => a \in S}

\* Faulty: the reachability test runs in the wrong direction.
AddDependencySwapped(j, d) ==
    /\ j # d
    /\ state[j] # "absent" /\ state[d] # "absent"
    /\ d \notin Ancestors(deps, j)
    /\ deps' = deps \cup {<<j, d>>}
    /\ UNCHANGED <<state, leaseVars, due, older, serial, epoch, issued, acked>>

AddDependency(j, d) ==
    /\ j # d
    /\ state[j] # "absent" /\ state[d] # "absent"
    /\ j \notin Ancestors(deps, d)
    /\ deps' = deps \cup {<<j, d>>}
    /\ UNCHANGED <<state, leaseVars, due, older, serial, epoch, issued, acked>>

\* reconcileDependencyFailuresTx repeats its UPDATE until no row changes: it
\* fails the least set of queued jobs with a failed or canceled dependency.
Doomed(st) ==
    {j \in Job : \A S \in SUBSET Job :
        (\A e \in deps : /\ st[e[1]] = "queued"
                         /\ st[e[2]] \in {"failed", "canceled"} \/ e[2] \in S
                         => e[1] \in S) => j \in S}

reconcileDependencyFailures(st) ==
    [j \in Job |-> IF j \in Doomed(st) THEN "failed" ELSE st[j]]

-----------------------------------------------------------------------------
(* Claims.                                                                 *)

Claimable(st) ==
    {j \in Job : /\ st[j] = "queued"
                 /\ due[j]
                 /\ attempt[j] < MaxAttempts[j]
                 /\ \A e \in deps : e[1] = j => st[e[2]] = "succeeded"}

\* ORDER BY priority DESC, created_at ASC
First(j, C) ==
    /\ j \in C
    /\ \A i \in C \ {j} : \/ Priority[j] > Priority[i]
                          \/ Priority[j] = Priority[i] /\ <<j, i>> \in older

Grant(j, w, st) ==
    LET c == Fresh(j, w) IN
    /\ state'   = [st EXCEPT ![j] = "leased"]
    /\ attempt' = [attempt EXCEPT ![j] = c.attempt]
    /\ owner'   = [owner EXCEPT ![j] = w]
    /\ token'   = [token EXCEPT ![j] = c.token]
    /\ expiry'  = [expiry EXCEPT ![j] = "live"]
    /\ serial'  = [serial EXCEPT ![j] = c.token]
    /\ issued'  = issued \cup {c}
    /\ UNCHANGED <<due, older, deps, epoch, acked>>

\* Both claims reconcile first, and commit that even when they find no work.
ClaimFrom(w, C, st) ==
    \/ \E j \in C : First(j, C) /\ Grant(j, w, st)
    \/ /\ C = {}
       /\ st # state
       /\ state' = st
       /\ UNCHANGED <<leaseVars, due, older, deps, serial, epoch, issued, acked>>

ClaimMatching(w) ==
    LET st == reconcileDependencyFailures(state) IN
    /\ w \notin CapabilityOwner
    /\ ClaimFrom(w, {j \in Claimable(st) : JobType[j] \in Serves[w]}, st)

\* Faulty: a lease without a heartbeat yet does not occupy its lane.
LaneRunning(w, t) == \E i \in Job : owner[i] = w /\ JobType[i] = t /\ state[i] = "running"

\* One active lease per worker and exact job type.
LaneBusy(w, t) == \E i \in Job : owner[i] = w /\ JobType[i] = t /\ Active(i)

ClaimMatchingCapability(w, t) ==
    LET st == reconcileDependencyFailures(state) IN
    /\ w \in CapabilityOwner
    /\ t \in Serves[w]
    /\ ClaimFrom(w, {j \in Claimable(st) : JobType[j] = t /\ ~LaneBusy(w, t)}, st)

-----------------------------------------------------------------------------
(* What a lease owner does with a credential, at any time after its issue. *)

Heartbeat(c) ==
    /\ Matches(c) /\ state[c.job] = "leased" /\ Live(c.job)
    /\ state' = [state EXCEPT ![c.job] = "running"]
    /\ UNCHANGED <<leaseVars, due, older, deps, serial, epoch, issued, acked>>

\* finishTx(success): needs a live lease, or repeats an earlier success.
CompletionApplies(c) == Matches(c) /\ Active(c.job) /\ Live(c.job)

Complete(c) ==
    /\ \/ /\ CompletionApplies(c)
          /\ state'  = [state EXCEPT ![c.job] = "succeeded"]
          /\ expiry' = [expiry EXCEPT ![c.job] = "none"]
       \/ /\ Matches(c) /\ state[c.job] = "succeeded"
          /\ UNCHANGED <<state, expiry>>
    /\ acked' = [acked EXCEPT ![c.job] = @ \cup {c.token}]
    /\ UNCHANGED <<attempt, due, owner, token, older, deps, serial, epoch, issued>>

\* Faulty: a failure is written whatever the row became.
FailureAlwaysApplies(c) == Matches(c)

\* finishTx(failure): no liveness test; owner and token stay in the row.
FailureApplies(c) == Matches(c) /\ Active(c.job)

Fail(c, retry) ==
    LET again == retry /\ c.attempt < MaxAttempts[c.job] IN
    /\ FailureApplies(c)
    /\ state'  = [state EXCEPT ![c.job] = IF again THEN "queued" ELSE "failed"]
    /\ due'    = [due EXCEPT ![c.job] = ~again]
    /\ expiry' = [expiry EXCEPT ![c.job] = "none"]
    /\ UNCHANGED <<attempt, owner, token, older, deps, serial, epoch, issued, acked>>

-----------------------------------------------------------------------------
(* Cancellation, recovery, revocation, requeue.                            *)

\* The leases of the rows in S go back to empty.
ClearLeases(S) ==
    /\ owner'  = [j \in Job |-> IF j \in S THEN None ELSE owner[j]]
    /\ token'  = [j \in Job |-> IF j \in S THEN 0 ELSE token[j]]
    /\ expiry' = [j \in Job |-> IF j \in S THEN "none" ELSE expiry[j]]

\* A queued row loses its lease columns, an active one keeps them so that its
\* holder can observe the cancellation.
CancelRows(S) ==
    LET open == {j \in S : state[j] = "queued" \/ Active(j)} IN
    /\ open # {}
    /\ state' = [j \in Job |-> IF j \in open THEN "canceled" ELSE state[j]]
    /\ ClearLeases({j \in S : state[j] = "queued"})
    /\ UNCHANGED <<attempt, due, older, deps, serial, epoch, issued, acked>>

Cancel(j) == CancelRows({j})

CancelOwnerJobs(o, t) == CancelRows({j \in Job : OwnerId[j] = o /\ JobType[j] = t})

\* Faulty: the sweep takes every lease / only leases with a heartbeat.
ExpiredAnyTime == {j \in Job : Active(j)}
ExpiredRunning == {j \in Job : state[j] = "running" /\ expiry[j] = "past"}

Expired == {j \in Job : Active(j) /\ expiry[j] = "past"}

\* Faulty: the sweep retries the last attempt too.
RecoverEveryRow(S) ==
    /\ state' = reconcileDependencyFailures([j \in Job |-> IF j \in S THEN "queued" ELSE state[j]])
    /\ due'   = [j \in Job |-> IF j \in S THEN FALSE ELSE due[j]]
    /\ ClearLeases(S)
    /\ UNCHANGED <<attempt, older, deps, serial, epoch, issued, acked>>

\* Expired rows return to the queue with a backoff, or fail on their last
\* attempt; failed dependencies propagate in the same transaction.
RecoverRows(S) ==
    LET retried == {j \in S : attempt[j] < MaxAttempts[j]}
        st == [j \in Job |-> IF j \in retried THEN "queued"
                             ELSE IF j \in S THEN "failed" ELSE state[j]]
    IN  /\ state' = reconcileDependencyFailures(st)
        /\ due'   = [j \in Job |-> IF j \in S THEN j \notin retried ELSE due[j]]
        /\ ClearLeases(S)
        /\ UNCHANGED <<attempt, older, deps, serial, epoch, issued, acked>>

RecoverExpired ==
    /\ Expired # {} \/ Doomed(state) # {}
    /\ RecoverRows(Expired)

RecoverExpiredJob(j) == j \in Expired /\ RecoverRows({j})

\* Faulty: revocation gives the attempt back.
RevokeLeasesRefund(w) ==
    LET held == {j \in Job : owner[j] = w /\ Active(j)} IN
    /\ w \in Revocable
    /\ held # {}
    /\ state' = [j \in Job |-> IF j \in held THEN "queued" ELSE state[j]]
    /\ attempt' = [j \in Job |-> IF j \in held THEN attempt[j] - 1 ELSE attempt[j]]
    /\ ClearLeases(held)
    /\ UNCHANGED <<due, older, deps, serial, epoch, issued, acked>>

\* The second statement of workers.Service.Revoke: attempt_count and
\* available_at stay as they are.
RevokeLeases(w) ==
    LET held == {j \in Job : owner[j] = w /\ Active(j)} IN
    /\ w \in Revocable
    /\ held # {}
    /\ state' = [j \in Job |-> IF j \in held THEN "queued" ELSE state[j]]
    /\ ClearLeases(held)
    /\ UNCHANGED <<attempt, due, older, deps, serial, epoch, issued, acked>>

\* An owner asks again for work that ended: the row starts over.
Requeue(j) ==
    /\ state[j] \in TerminalStates
    /\ epoch[j] < MaxRequeues
    /\ state'   = [state EXCEPT ![j] = "queued"]
    /\ attempt' = [attempt EXCEPT ![j] = 0]
    /\ due'     = [due EXCEPT ![j] = TRUE]
    /\ epoch'   = [epoch EXCEPT ![j] = @ + 1]
    /\ acked'   = [acked EXCEPT ![j] = {}]
    /\ ClearLeases({j})
    /\ UNCHANGED <<older, deps, serial, issued>>

-----------------------------------------------------------------------------
(* Time.                                                                   *)

LeaseExpires(j) ==
    /\ Active(j) /\ Live(j)
    /\ expiry' = [expiry EXCEPT ![j] = "past"]
    /\ UNCHANGED <<state, attempt, due, owner, token, older, deps, serial,
                   epoch, issued, acked>>

BackoffElapses(j) ==
    /\ state[j] = "queued" /\ ~due[j]
    /\ due' = [due EXCEPT ![j] = TRUE]
    /\ UNCHANGED <<state, leaseVars, older, deps, serial, epoch, issued, acked>>

-----------------------------------------------------------------------------

CredentialNext(c) ==
    \/ Heartbeat(c)
    \/ Complete(c)
    \/ \E retry \in BOOLEAN : Fail(c, retry)

Claim(w) == ClaimMatching(w) \/ \E t \in Type : ClaimMatchingCapability(w, t)

Next ==
    \/ \E j \in Job : \/ Enqueue(j) \/ Cancel(j) \/ Requeue(j)
                      \/ RecoverExpiredJob(j)
                      \/ LeaseExpires(j) \/ BackoffElapses(j)
    \/ \E e \in Edges : AddDependency(e[1], e[2])
    \/ \E w \in Owner : Claim(w) \/ RevokeLeases(w)
    \/ \E c \in issued : CredentialNext(c)
    \/ \E o \in Entity, t \in Type : CancelOwnerJobs(o, t)
    \/ RecoverExpired

Spec == Init /\ [][Next]_vars

\* The server keeps sweeping expired leases, its runners and at least the
\* workers in Owner keep polling, clocks advance, and no attempt lasts for ever:
\* its holder reports while the lease is live, or stops heartbeating and the
\* lease runs out.  Nothing obliges the holder of an expired lease to report.
AttemptEnds(j) ==
    \/ LeaseExpires(j)
    \/ \E c \in issued : /\ c.job = j
                         /\ CompletionApplies(c) /\ Complete(c)
    \/ \E c \in issued, retry \in BOOLEAN : c.job = j /\ Live(j) /\ Fail(c, retry)

Fairness ==
    /\ WF_vars(RecoverExpired)
    /\ \A w \in Owner : WF_vars(Claim(w))
    /\ \A j \in Job : WF_vars(BackoffElapses(j)) /\ WF_vars(AttemptEnds(j))

FairSpec == Spec /\ Fairness

-----------------------------------------------------------------------------
(* Correctness.                                                            *)

\* Every column holds a value the schema and the handlers allow, and
\* attempt_count never passes max_attempts (the claim's guard, jobs.go).
TypeOK ==
    /\ state   \in [Job -> States]
    /\ attempt \in [Job -> Nat]
    /\ \A j \in Job : attempt[j] <= MaxAttempts[j]
    /\ due     \in [Job -> BOOLEAN]
    /\ owner   \in [Job -> Owner \cup {None}]
    /\ token   \in [Job -> Nat]
    /\ expiry  \in [Job -> {"none", "live", "past"}]
    /\ older   \subseteq Job \X Job
    /\ deps    \subseteq Job \X Job
    /\ serial  \in [Job -> Nat]
    /\ epoch   \in [Job -> Nat]
    /\ issued  \subseteq Credential
    /\ acked   \in [Job -> SUBSET Nat]

\* The credential the row of j was leased under.
RowCredential(j) == [job |-> j, token |-> token[j], attempt |-> attempt[j],
                     owner |-> owner[j], epoch |-> epoch[j]]

\* A row that holds a token hash holds the latest token drawn for it, with the
\* attempt, the owner and the epoch of the claim that drew it; an active row always does, and has an expiry.
RowsMatchTheirLease ==
    \A j \in Job : /\ Active(j) => token[j] # 0 /\ expiry[j] # "none"
                   /\ token[j] # 0 => /\ token[j] = serial[j]
                                      /\ RowCredential(j) \in issued

\* No credential is from the future of its row.
CredentialsAreOld ==
    \A c \in issued : /\ c.token \in 1..serial[c.job]
                      /\ c.epoch <= epoch[c.job]
                      /\ c.epoch = epoch[c.job] => c.attempt <= attempt[c.job]

\* Each claim draws a token of its own (randomToken in Claim*).
TokenIdentifiesLease ==
    \A c, d \in issued : c.job = d.job /\ c.token = d.token => c = d

\* Between two requests of the owner no attempt number is handed out twice,
\* whatever recovery, revocation and late failures did in between: a job is
\* leased at most max_attempts times (jobs.go: "The fourth attempt is never
\* automatically created").
AttemptIdentifiesLease ==
    \A c, d \in issued :
        c.job = d.job /\ c.epoch = d.epoch /\ c.attempt = d.attempt => c = d

\* At most one lease has its completion acknowledged, it is the one the row
\* names, and an acknowledged completion is never taken back except by an
\* owner who asks again (finishTx).
ExactlyOnceCompletion ==
    \A j \in Job : acked[j] # {} => /\ state[j] = "succeeded"
                                    /\ acked[j] = {token[j]}

\* A worker of the common protocol never holds two active leases of one job
\* type (ClaimMatchingCapability).
OneActiveLeasePerLane ==
    \A i, j \in Job : /\ Active(i) /\ Active(j)
                      /\ owner[i] = owner[j] /\ owner[i] \in CapabilityOwner
                      /\ JobType[i] = JobType[j]
                      => i = j

\* AddDependency keeps the dependency graph acyclic.
DependenciesAcyclic == \A j \in Job : j \notin Ancestors(deps, j)

\* A terminal row keeps its outcome, attempt and credential, so a late or
\* repeated report can neither change the outcome nor lose its
\* acknowledgement; only the owner's requeue starts it over.
TerminalRowsAreFrozen ==
    [][\A j \in Job : state[j] \in TerminalStates =>
        \/ /\ state'[j] = state[j] /\ attempt'[j] = attempt[j]
           /\ owner'[j] = owner[j] /\ token'[j] = token[j]
        \/ epoch'[j] = epoch[j] + 1]_vars

\* A live lease ends only by a report made with its own credential, by a
\* cancellation or by revoking its holder: no sweep and no credential of an
\* older lease takes it away.
LiveLeaseIsProtected ==
    [][\A j \in Job : Active(j) /\ Live(j) /\ state'[j] \notin ActiveStates =>
        \/ state'[j] = "canceled"
        \/ RevokeLeases(owner[j])
        \/ \E c \in issued : /\ c = RowCredential(j)
                             /\ Complete(c) \/ \E retry \in BOOLEAN : Fail(c, retry)]_vars

\* A queued row can still be claimed; an exhausted row is terminal.
QueuedRowsHaveAttemptsLeft ==
    \A j \in Job : state[j] = "queued" => attempt[j] < MaxAttempts[j]

\* Every queued or leased job reaches an outcome, through retries, expired
\* leases, backoffs and failed dependencies.
EveryJobSettles ==
    \A j \in Job : (state[j] \in {"queued"} \cup ActiveStates)
                       ~> (state[j] \in TerminalStates)

-----------------------------------------------------------------------------
(* The scheduler implements the ledger its owners rely on.                 *)

LedgerPhase == [j \in Job |->
    IF state[j] = "absent" THEN "none"
    ELSE IF state[j] = "queued" THEN "open"
    ELSE IF Active(j) THEN "held" ELSE "closed"]

LedgerWinner == [j \in Job |-> IF state[j] = "succeeded" THEN token[j] ELSE 0]

Ledger == INSTANCE WorkLedger WITH phase <- LedgerPhase, grant <- serial,
                                   tries <- attempt, winner <- LedgerWinner

\* Whatever workers, sweeps, cancellations and revocations do, owners see
\* WorkLedger: one holder at a time, a bounded number of grants per request,
\* and a delivery by the latest grant that only they can reopen.
ImplementsLedger == Ledger!Spec
=============================================================================
