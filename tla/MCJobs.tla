------------------------------- MODULE MCJobs -------------------------------
(* Small instances of Jobs for TLC. *)
EXTENDS Jobs, TLC

CONSTANTS j1, j2, w1, w2

\* Two workers race for two synthesis jobs of one render owner: w1 speaks the
\* common protocol, w2 the older one.
RaceType       == [j \in Job |-> "tts"]
RaceOwnerId    == [j \in Job |-> "render"]
RaceAttempts   == (j1 :> 2) @@ (j2 :> 1)
SamePriority   == [j \in Job |-> 1]
RaceServes     == [w \in Owner |-> {"tts"}]

\* Two dependencies that would form a cycle.
CycleEdges     == {<<j1, j2>>, <<j2, j1>>}

\* One job with two attempts.
TwoAttempts    == [j \in Job |-> 2]
=============================================================================
