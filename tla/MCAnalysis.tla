----------------------------- MODULE MCAnalysis -----------------------------
(* Small instances of Analysis for TLC. *)
EXTENDS Analysis, TLC

CONSTANTS a1, n1, server


AnalysisType    == [j \in Job |-> "analysis"]
ArticleOfJob    == [j \in Job |-> a1]
NormalJob       == [a \in Article |-> n1]
TwoThenOne      == [j \in Job |-> IF j = n1 THEN 2 ELSE 1]
OneAttempt      == [j \in Job |-> 1]
SamePriority    == [j \in Job |-> 100]
ServesAnalysis  == [w \in Owner |-> {"analysis"}]
=============================================================================
