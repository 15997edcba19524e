------------------------------ MODULE MCRelay ------------------------------
EXTENDS Relay, TLC
CONSTANTS c1, w1, w2, x1, x2, y1, x, y
RelayType == [j \in Job |-> "relay"]
RelayOwner == [j \in Job |-> "call"]
TwoAttempts == [j \in Job |-> 2]
SamePriority == [j \in Job |-> 0]
ServesRelay == [w \in Owner |-> {"relay"}]
ChatCalls == [j \in RelayJob |-> "chat_completion"]
\* Two spellings of one answer, and another answer.
Spellings == (x1 :> x) @@ (x2 :> x) @@ (y1 :> y)
=============================================================================
