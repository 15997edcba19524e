------------------------------ MODULE OnDemand ------------------------------
(***************************************************************************)
(* What a reader is promised who asks for the dictionary entry of a form   *)
(* or the translation of a sentence, without jobs, leases, runs, pointers  *)
(* or crashes: of each subject at most one generation is open; it ends     *)
(* once, with a result or without; and a result that is there is replaced  *)
(* only by a generation that was asked to replace it.  A generation is     *)
(* named by the request that opens it.                                     *)
(***************************************************************************)
CONSTANTS
    Request, Subject, None,
    Of,         \* the subject of each request
    Replacing   \* the requests for a replacement

VARIABLES
    open,       \* the open generations of each subject
    result,     \* the generation whose result the subject has, or None
    begun       \* the requests that have opened one

demands == <<open, result, begun>>

Init ==
    /\ open   = [s \in Subject |-> {}]
    /\ result = [s \in Subject |-> None]
    /\ begun  = {}

Begin(r) ==
    /\ r \notin begun /\ open[Of[r]] = {}
    /\ open'  = [open EXCEPT ![Of[r]] = {r}]
    /\ begun' = begun \cup {r}
    /\ UNCHANGED result

Deliver(r) ==
    /\ r \in open[Of[r]]
    /\ result[Of[r]] # None => r \in Replacing
    /\ result' = [result EXCEPT ![Of[r]] = r]
    /\ open'   = [open EXCEPT ![Of[r]] = {}]
    /\ UNCHANGED begun

\* A sweep may give up many at once.
GiveUp(rs) ==
    /\ \A r \in rs : r \in open[Of[r]]
    /\ open' = [s \in Subject |-> open[s] \ rs]
    /\ UNCHANGED <<result, begun>>

Next ==
    \/ \E r \in Request : Begin(r) \/ Deliver(r)
    \/ \E rs \in SUBSET Request : GiveUp(rs)

Spec == Init /\ [][Next]_demands
=============================================================================
