------------------------------- MODULE Relay -------------------------------
(***************************************************************************)
(* A model call relayed to a worker: the caller's side (the mac_relay      *)
(* session, llmrelay.ChatCompletion, ListRelayModels and their durable     *)
(* Wait), the workers' side of both protocols for relay jobs, and the      *)
(* presence by which the caller decides whether a worker is there at all.  *)
(*                                                                         *)
(* A call makes a fresh request id, so each call has a child job of its    *)
(* own and the call is named by that job.  One statement or transaction is *)
(* one step: Wait reads the row in one step and acts on what it read in    *)
(* the next, and the worker may have done anything in between.             *)
(*                                                                         *)
(* A request that passed Authenticate commutes with the first statement of *)
(* Revoke (both only write rows that are not revoked) and is refused after *)
(* the second, so a handler needs no step between authentication and its   *)
(* transaction; the long poll of a lease, which may claim after the        *)
(* revocation, has one.                                                    *)
(***************************************************************************)
EXTENDS Jobs

CONSTANTS
    RelayJob,       \* the child jobs, one per call
    Worker,         \* enrolled workers with the relay capability
    Operation,      \* operation of each call: chat_completion or list_models
    Body,           \* result parts as uploaded, byte for byte
    Answer,         \* their canonical encodings
    Canonical,      \* canonical encoding of each body
    Foreign,        \* uploads may answer another call or hold no valid result
    FailureCode,    \* failure codes workers report
    PresenceState   \* states a presence entry of the relay may name

\* Codes of the errors a call may return instead of an answer.
ProviderCode == {"unavailable", "not_authenticated", "timeout", "invalid_output",
                 "provider_failure"}

ASSUME RelayAssumption ==
    /\ RelayJob \subseteq Job
    /\ Worker \subseteq Owner
    /\ Operation \in [RelayJob -> {"chat_completion", "list_models"}]
    /\ Canonical \in [Body -> Answer]
    /\ Foreign \in BOOLEAN
    /\ None \notin Answer \cup Body
    /\ ProviderCode \cap Answer = {}

VARIABLES
    revoked,    \* speech_worker.revoked_at <> ''
    snapshot,   \* state of the relay entry in ailocals_presence_json
    seen,       \* last_seen_at is within the presence window
    relaySeen,  \* relay_last_seen_at is within the presence window
    polls,      \* workers inside the long poll of a lease request
    result,     \* llm_relay_result.result_json (canonical) of a job
    digest,     \* job.ailocals_result_sha256: the body it is the hash of
    code,       \* job.error_code
    accepted,   \* the uploads of a job that were answered with success
    phase,      \* where the caller is: idle, enqueue, wait, act, returned
    saw,        \* the job state Wait read
    parent,     \* the call's context: live, canceled or deadline
    outcome     \* what the call returned: an answer or a provider code

presenceVars == <<revoked, snapshot, seen, relaySeen, polls>>
resultVars   == <<result, digest, accepted>>
callVars     == <<phase, saw, outcome>>
relayVars    == <<vars, presenceVars, resultVars, code, callVars, parent>>

-----------------------------------------------------------------------------
(* Messages.                                                               *)

\* The result parts a worker may upload: DecodeChatResult and
\* DecodeListModelsResult want the echoed request id, the job's operation and
\* a body within the bounds.
Upload == [request : RelayJob, operation : {"chat_completion", "list_models"},
           body : Body, valid : BOOLEAN]

Uploads(j) == IF Foreign THEN Upload
              ELSE {u \in Upload : u.request = j /\ u.operation = Operation[j] /\ u.valid}

Decodes(j, u) == u.request = j /\ u.operation = Operation[j] /\ u.valid

\* The product code of a common failure code, for a relay job; other codes are
\* refused before the lease is looked at.
MapFailureToProductCode(f) ==
    CASE f = "canceled"               -> "v1.relay_canceled"
      [] f = "relay_unreachable"      -> "v1.relay_unreachable"
      [] f = "relay_auth"             -> "v1.relay_auth"
      [] f = "relay_invalid_response" -> "v1.relay_invalid_response"
      [] f = "relay_model_unknown"    -> "v1.relay_model_unknown"
      [] f = "interrupted"            -> "v1.interrupted"
      [] f = "resource_exhausted"     -> "v1.resource_exhausted"
      [] f = "invalid_payload"        -> "v1.invalid_payload"
      [] f = "execution_failed"       -> "v1.execution_failed"

Mappable == {"canceled", "relay_unreachable", "relay_auth", "relay_invalid_response",
             "relay_model_unknown", "interrupted", "resource_exhausted",
             "invalid_payload", "execution_failed"}

\* Only an unreachable endpoint may ask for a retry.
ValidateFailure(product, retry) ==
    \/ product = "v1.relay_unreachable"
    \/ /\ product \in {"v1.relay_auth", "v1.relay_invalid_response",
                       "v1.relay_model_unknown", "v1.relay_canceled"}
       /\ ~retry

Reasons == {"none", "slot_busy", "user_paused"}

\* The presence entries of the relay that ValidatePresenceRequest lets through.
Entry == [state : PresenceState, accepting : BOOLEAN, activeJobs : {0, 1}, reason : Reasons]

validateReason(e) ==
    /\ e.state = "ready" => e.accepting /\ e.activeJobs = 0 /\ e.reason = "none"
    /\ e.state = "busy" => \/ e.activeJobs = 1 /\ e.reason = "none"
                           \/ e.activeJobs = 0 /\ ~e.accepting /\ e.reason = "slot_busy"
    /\ e.state \in {"paused", "setup_required", "error"} => ~e.accepting

-----------------------------------------------------------------------------
(* Presence.                                                               *)

Common(w) == w \in CapabilityOwner

\* The legacy query reads relay_last_seen_at of EVERY enrollment with a relay
\* capability; the common one reads the snapshot and last_seen_at.
AvailableThrough(w) ==
    /\ w \notin revoked
    /\ \/ relaySeen[w]
       \/ Common(w) /\ seen[w] /\ snapshot[w] \in {"ready", "busy"}

Available == \E w \in Worker : AvailableThrough(w)

Touch(f, w) == [f EXCEPT ![w] = @ \/ w \notin revoked]

RelayInit ==
    /\ Init
    /\ revoked   = {}
    /\ snapshot  = [w \in Worker |-> "omitted"]
    /\ seen      = [w \in Worker |-> FALSE]
    /\ relaySeen = [w \in Worker |-> FALSE]
    /\ polls     = {}
    /\ result    = [j \in RelayJob |-> None]
    /\ digest    = [j \in RelayJob |-> None]
    /\ code      = [j \in RelayJob |-> ""]
    /\ accepted  = [j \in RelayJob |-> {}]
    /\ phase     = [j \in RelayJob |-> "idle"]
    /\ saw       = [j \in RelayJob |-> "absent"]
    /\ parent    = [j \in RelayJob |-> "live"]
    /\ outcome   = [j \in RelayJob |-> None]

\* A snapshot replaces the previous one; an entry may be left out of it.
PresenceAilocals(w) ==
    /\ Common(w) /\ w \notin revoked
    /\ \E s \in {e.state : e \in {x \in Entry : validateReason(x)}} \cup {"omitted"} :
        /\ snapshot'  = [snapshot EXCEPT ![w] = s]
        /\ relaySeen' = [relaySeen EXCEPT ![w] = s \in {"ready", "busy"}]
    /\ seen' = [seen EXCEPT ![w] = TRUE]
    /\ UNCHANGED <<vars, revoked, polls, resultVars, code, callVars, parent>>

\* Any other authenticated request, the worker's TTS lanes included.
Authenticate(w) ==
    /\ w \notin revoked /\ ~seen[w]
    /\ seen' = [seen EXCEPT ![w] = TRUE]
    /\ UNCHANGED <<vars, revoked, snapshot, relaySeen, polls, resultVars, code,
                   callVars, parent>>

\* More than two minutes without a request, or without relay traffic.
PresenceLapses(w) ==
    /\ seen[w] \/ relaySeen[w]
    /\ \E s \in {FALSE, seen[w]} : seen' = [seen EXCEPT ![w] = s]
    /\ relaySeen' = [relaySeen EXCEPT ![w] = FALSE]
    /\ UNCHANGED <<vars, revoked, snapshot, polls, resultVars, code, callVars, parent>>

-----------------------------------------------------------------------------
(* The caller.                                                             *)

\* mapWaitError: a done context wins over whatever was read.
Stopped(j, out) ==
    CASE parent[j] = "canceled" -> "provider_failure"
      [] parent[j] = "deadline" -> "timeout"
      [] OTHER -> out

Terminal(c) ==
    CASE c = "v1.relay_auth" -> "not_authenticated"
      [] c = "v1.relay_invalid_response" -> "invalid_output"
      [] c \in {"v1.relay_unreachable", "v1.relay_model_unknown", "v1.lease_expired",
                "v1.relay_parent_canceled", "v1.relay_canceled"} -> "unavailable"
      [] OTHER -> "provider_failure"

Returns(j, out) ==
    /\ phase'   = [phase EXCEPT ![j] = "returned"]
    /\ outcome' = [outcome EXCEPT ![j] = Stopped(j, out)]
    /\ UNCHANGED saw

Goes(j, p) == phase' = [phase EXCEPT ![j] = p] /\ UNCHANGED <<saw, outcome>>

\* Build the request and fail fast when nobody is there.
ChatCompletion(j) ==
    /\ phase[j] = "idle"
    /\ IF Available /\ parent[j] = "live" THEN Goes(j, "enqueue")
                                          ELSE Returns(j, "unavailable")
    /\ UNCHANGED <<vars, presenceVars, resultVars, code, parent>>

EnqueueChild(j) ==
    /\ phase[j] = "enqueue"
    /\ IF parent[j] = "live" THEN Enqueue(j) /\ Goes(j, "wait")
                             ELSE Returns(j, "provider_failure") /\ UNCHANGED vars
    /\ UNCHANGED <<presenceVars, resultVars, code, parent>>

\* jobs.Cancel on a context detached from the caller's; a finished row stays.
\* Faulty: a worker that claimed the child keeps it.
CancelQueued(j) ==
    IF state[j] = "queued"
    THEN Cancel(j) /\ code' = [code EXCEPT ![j] = "v1.relay_parent_canceled"]
    ELSE UNCHANGED <<vars, code>>

CancelChild(j) ==
    IF state[j] = "queued" \/ Active(j)
    THEN Cancel(j) /\ code' = [code EXCEPT ![j] = "v1.relay_parent_canceled"]
    ELSE UNCHANGED <<vars, code>>

\* The select sees the done context...
WaitCanceled(j) ==
    /\ phase[j] = "wait" /\ parent[j] # "live"
    /\ CancelChild(j)
    /\ Returns(j, "provider_failure")
    /\ UNCHANGED <<presenceVars, resultVars, parent>>

\* ... or the timer, and then Get fails on it and the child is left alone.
WaitReads(j) ==
    /\ phase[j] = "wait"
    /\ IF parent[j] = "live"
       THEN /\ phase' = [phase EXCEPT ![j] = "act"]
            /\ saw' = [saw EXCEPT ![j] = state[j]]
            /\ UNCHANGED outcome
       ELSE Returns(j, "provider_failure")
    /\ UNCHANGED <<vars, presenceVars, resultVars, code, parent>>

WaitSucceeded(j) ==
    /\ saw[j] = "succeeded"
    /\ Returns(j, result[j])
    /\ UNCHANGED <<vars, code>>

WaitFailed(j) ==
    /\ saw[j] \in {"failed", "canceled"}
    /\ Returns(j, Terminal(code[j]))
    /\ UNCHANGED <<vars, code>>

\* Available reads with the caller's context, so a done context looks like
\* an absent worker.
WaitQueued(j) ==
    /\ saw[j] = "queued"
    /\ IF Available /\ parent[j] = "live"
       THEN Goes(j, "wait") /\ UNCHANGED <<vars, code>>
       ELSE CancelChild(j) /\ Returns(j, "unavailable")

\* An expired lease is recovered for this child alone.
Failing(st) == [j \in RelayJob |-> IF st[j] = "failed" /\ state[j] # "failed"
                                   THEN "v1.lease_expired" ELSE code[j]]

WaitLeased(j) ==
    /\ saw[j] \in ActiveStates
    /\ IF parent[j] # "live" THEN Returns(j, "provider_failure") /\ UNCHANGED <<vars, code>>
       ELSE /\ Goes(j, "wait")
            /\ IF j \in Expired THEN RecoverExpiredJob(j) /\ code' = Failing(state')
                                ELSE UNCHANGED <<vars, code>>

WaitActs(j) ==
    /\ phase[j] = "act"
    /\ WaitSucceeded(j) \/ WaitFailed(j) \/ WaitQueued(j) \/ WaitLeased(j)
    /\ UNCHANGED <<presenceVars, resultVars, parent>>

\* The pipeline stops the call, or the provider timeout of the session ends it.
ParentEnds(j) ==
    /\ parent[j] = "live" /\ phase[j] # "returned"
    /\ \E why \in {"canceled", "deadline"} : parent' = [parent EXCEPT ![j] = why]
    /\ UNCHANGED <<vars, presenceVars, resultVars, code, callVars>>

-----------------------------------------------------------------------------
(* The workers.                                                            *)

Sweep == IF Expired # {} THEN RecoverExpired /\ code' = Failing(state')
                         ELSE UNCHANGED <<vars, code>>

\* A lease request up to its long poll: the common protocol refuses a second
\* lease of the lane, the older one marks relay presence.
LeaseRelay(w) ==
    /\ w \notin revoked \cup polls
    /\ Common(w) => ~LaneBusy(w, "relay")
    /\ polls' = polls \cup {w}
    /\ seen' = [seen EXCEPT ![w] = TRUE]
    /\ relaySeen' = IF Common(w) THEN relaySeen ELSE Touch(relaySeen, w)
    /\ Sweep
    /\ UNCHANGED <<revoked, snapshot, resultVars, callVars, parent>>

\* One round of the poll: it never looks at revoked_at again.
PollClaims(w) ==
    /\ w \in polls
    /\ ClaimMatching(w) \/ ClaimMatchingCapability(w, "relay")
    /\ polls' = polls \ {w}
    /\ UNCHANGED <<revoked, snapshot, seen, relaySeen, resultVars, code, callVars, parent>>

PollEnds(w) ==
    /\ w \in polls
    /\ polls' = polls \ {w}
    /\ UNCHANGED <<vars, revoked, snapshot, seen, relaySeen, resultVars, code, callVars, parent>>

\* jobs.VerifyLease: an active row wants its owner and a live lease; a row the
\* credential finished, or lost to a cancellation, is let through.
VerifyLease(c) ==
    /\ Matches(c)
    /\ \/ Active(c.job) /\ owner[c.job] = c.owner /\ Live(c.job)
       \/ state[c.job] = "succeeded"
       \/ state[c.job] \in {"canceled", "failed", "queued"} /\ owner[c.job] = c.owner

RelayHeartbeat(c) ==
    /\ c.owner \notin revoked /\ VerifyLease(c)
    /\ relaySeen' = Touch(relaySeen, c.owner)
    /\ seen' = [seen EXCEPT ![c.owner] = TRUE]
    /\ IF state[c.job] = "leased" THEN Heartbeat(c) ELSE UNCHANGED vars
    /\ UNCHANGED <<revoked, snapshot, polls, resultVars, code, callVars, parent>>

\* llmrelay.CompleteTx and jobs.CompleteTx in one transaction: the first
\* accepted result stays, a second one must be equal to it.
\* Faulty: the hash of the stored result is not compared.
CompleteTxUnchecked(c, u) ==
    /\ Decodes(c.job, u)
    /\ Complete(c)
    /\ result' = [result EXCEPT ![c.job] = IF @ = None THEN Canonical[u.body] ELSE @]

CompleteTx(c, u) ==
    /\ Decodes(c.job, u)
    /\ result[c.job] \in {None, Canonical[u.body]}
    /\ Complete(c)
    /\ result' = [result EXCEPT ![c.job] = Canonical[u.body]]

\* completeRelay and completeRelayCommon.  A different second result is
\* answered with a conflict; the Fail that follows finds a finished row.
CompleteRelay(c, u) ==
    /\ c.owner \notin revoked /\ VerifyLease(c)
    /\ CompleteTx(c, u)
    /\ accepted' = [accepted EXCEPT ![c.job] = @ \cup {u.body}]
    /\ digest' = IF Common(c.owner) THEN [digest EXCEPT ![c.job] = u.body] ELSE digest
    /\ relaySeen' = IF Common(c.owner) THEN relaySeen ELSE Touch(relaySeen, c.owner)
    /\ seen' = [seen EXCEPT ![c.owner] = TRUE]
    /\ UNCHANGED <<revoked, snapshot, polls, code, callVars, parent>>

\* CompleteAilocals of a finished job, by any common worker, looks at the
\* digest and the stored result and never at the credential.
RepeatCompletion(j, u) ==
    /\ \E w \in Worker : Common(w) /\ w \notin revoked
    /\ state[j] = "succeeded"
    /\ Decodes(j, u)
    /\ digest[j] = u.body
    /\ result[j] = Canonical[u.body]
    /\ accepted' = [accepted EXCEPT ![j] = @ \cup {u.body}]
    /\ UNCHANGED <<vars, presenceVars, result, digest, code, callVars, parent>>

\* FailAilocals maps the worker's code first; the older protocol sends the
\* product code.  Then both check it against the relay's own list.
FailRelay(c, f, retry) ==
    LET product == MapFailureToProductCode(f) IN
    /\ c.owner \notin revoked /\ VerifyLease(c)
    /\ f \in Mappable
    /\ seen' = [seen EXCEPT ![c.owner] = TRUE]
    /\ IF ValidateFailure(product, retry)
       THEN /\ relaySeen' = Touch(relaySeen, c.owner)
            /\ FailureApplies(c)
            /\ Fail(c, retry)
            /\ code' = [code EXCEPT ![c.job] = product]
       ELSE UNCHANGED <<vars, relaySeen, code>>
    /\ UNCHANGED <<revoked, snapshot, polls, resultVars, callVars, parent>>

\* Revoke, first statement; RevokeLeases of Jobs is the second.
MarkRevoked(w) ==
    /\ w \in Revocable \ revoked
    /\ revoked' = revoked \cup {w}
    /\ UNCHANGED <<vars, snapshot, seen, relaySeen, polls, resultVars, code, callVars, parent>>

GiveBackLeases(w) ==
    /\ w \in revoked
    /\ RevokeLeases(w)
    /\ UNCHANGED <<presenceVars, resultVars, code, callVars, parent>>

\* Leases of relay jobs run out; the server sweeps them too.
RelayTime ==
    /\ \/ \E j \in RelayJob : LeaseExpires(j) \/ BackoffElapses(j)
       \/ RecoverExpired
    /\ code' = Failing(state')
    /\ UNCHANGED <<presenceVars, resultVars, callVars, parent>>

RelayNext ==
    \/ \E w \in Worker : \/ PresenceAilocals(w) \/ Authenticate(w) \/ PresenceLapses(w)
                         \/ LeaseRelay(w) \/ PollClaims(w) \/ PollEnds(w)
                         \/ MarkRevoked(w) \/ GiveBackLeases(w)
    \/ \E j \in RelayJob : \/ ChatCompletion(j) \/ EnqueueChild(j) \/ WaitCanceled(j)
                           \/ WaitReads(j) \/ WaitActs(j) \/ ParentEnds(j)
                           \/ \E u \in Uploads(j) : RepeatCompletion(j, u)
    \/ \E c \in issued : \/ RelayHeartbeat(c)
                         \/ \E u \in Uploads(c.job) : CompleteRelay(c, u)
                         \/ \E f \in FailureCode, retry \in BOOLEAN : FailRelay(c, f, retry)
    \/ RelayTime

RelaySpec == RelayInit /\ [][RelayNext]_relayVars

-----------------------------------------------------------------------------
(* Correctness.                                                            *)

\* One answer per call: a job has a result exactly when it succeeded, every
\* upload a worker was thanked for (a repeat, a late one, one of another
\* worker) says the same, and the caller gets that answer and no other
\* (CompleteTx, verifyAilocalsRepeatedCompletion, Wait).
AnswersAgree ==
    \A j \in RelayJob :
        /\ result[j] # None <=> state[j] = "succeeded"
        /\ \A b \in accepted[j] : Canonical[b] = result[j]
        /\ outcome[j] \in Answer => outcome[j] = result[j]

\* A call nobody canceled leaves no child behind for a worker to spend time
\* on: when it returned, its job is over, also when the worker claimed it just
\* as the caller gave up on its presence (Wait).
ReturnedCallsLeaveNoWork ==
    \A j \in RelayJob : phase[j] = "returned" /\ parent[j] = "live"
                            => state[j] \in TerminalStates \cup {"absent"}
=============================================================================
