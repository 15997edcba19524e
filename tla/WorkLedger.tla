----------------------------- MODULE WorkLedger -----------------------------
(***************************************************************************)
(* What the scheduler promises the owners of work, without leases, clocks, *)
(* tokens or dependencies: a job is granted to one holder at a time and at *)
(* most MaxAttempts times per request, every grant has a number of its     *)
(* own, and a job that was delivered was delivered by the latest grant and *)
(* stays so until its owner asks again.  One step may put back or close    *)
(* many jobs, as a sweep does.                                             *)
(***************************************************************************)
EXTENDS Naturals

CONSTANTS Job, MaxAttempts

VARIABLES
    phase,      \* "none", "open", "held" or "closed"
    grant,      \* the number of the latest grant of a job
    tries,      \* grants since its owner last asked
    winner      \* the grant that delivered it, 0 when none did

ledger == <<phase, grant, tries, winner>>

Init ==
    /\ phase  = [j \in Job |-> "none"]
    /\ grant  = [j \in Job |-> 0]
    /\ tries  = [j \in Job |-> 0]
    /\ winner = [j \in Job |-> 0]

\* Owners submit new jobs and reopen closed ones, many in one step.
Ask(new, again) ==
    /\ \A j \in new : phase[j] = "none"
    /\ \A j \in again : phase[j] = "closed"
    /\ phase'  = [j \in Job |-> IF j \in new \cup again THEN "open" ELSE phase[j]]
    /\ tries'  = [j \in Job |-> IF j \in again THEN 0 ELSE tries[j]]
    /\ winner' = [j \in Job |-> IF j \in again THEN 0 ELSE winner[j]]
    /\ UNCHANGED grant

\* Jobs in back return to their owners' queue, jobs in closing end undelivered.
Sweep(back, closing) ==
    /\ \A j \in back : phase[j] = "held"
    /\ \A j \in closing : phase[j] \in {"open", "held"}
    /\ phase' = [j \in Job |-> IF j \in closing THEN "closed"
                               ELSE IF j \in back THEN "open" ELSE phase[j]]
    /\ UNCHANGED <<grant, tries, winner>>

\* A grant closes the jobs it finds hopeless on its way.
Grant(j, closing) ==
    /\ phase[j] = "open" /\ j \notin closing
    /\ tries[j] < MaxAttempts[j]
    /\ \A i \in closing : phase[i] = "open"
    /\ phase' = [i \in Job |-> IF i = j THEN "held"
                               ELSE IF i \in closing THEN "closed" ELSE phase[i]]
    /\ grant' = [grant EXCEPT ![j] = @ + 1]
    /\ tries' = [tries EXCEPT ![j] = @ + 1]
    /\ UNCHANGED winner

Deliver(j) ==
    /\ phase[j] = "held"
    /\ phase'  = [phase EXCEPT ![j] = "closed"]
    /\ winner' = [winner EXCEPT ![j] = grant[j]]
    /\ UNCHANGED <<grant, tries>>

Next ==
    \/ \E new, again \in SUBSET Job : Ask(new, again)
    \/ \E j \in Job : Deliver(j)
    \/ \E j \in Job, closing \in SUBSET Job : Grant(j, closing)
    \/ \E back, closing \in SUBSET Job : Sweep(back, closing)

Spec == Init /\ [][Next]_ledger
=============================================================================
