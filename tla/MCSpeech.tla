------------------------------ MODULE MCSpeech ------------------------------
(* Small instances of Speech for TLC. *)
EXTENDS Speech, TLC

CONSTANTS r1, r2, r3, a1, a2, w1, w2, d1, d2, h1, h2

\* Narration is synthesized by one engine and words by another (the two job
\* types of internal/jobs); a worker may be able to run only the first.
SynthesisType   == [j \in Job |-> IF j = r3 THEN "avspeech" ELSE "chatterbox"]
ServesNarration == [w \in Owner |-> {"chatterbox"}]
RenderOwner     == [j \in Job |-> "audio_render"]
TwoAttempts     == [j \in Job |-> 2]
OneAttempt      == [j \in Job |-> 1]
SamePriority    == [j \in Job |-> 1]
RenderPosition  == [j \in Job |-> IF j = r2 THEN 1 ELSE 0]

\* One article of one sentence.
OneSentence     == [a \in Article |-> {r1}]
NoWords         == [a \in Article |-> {}]

\* Two articles share a sentence; the second has another one, the first a word.
SharedSentence  == (a1 :> {r1}) @@ (a2 :> {r1, r2})
SpokenWord      == [a \in Article |-> IF a = a1 THEN {r3} ELSE {}]

Interchangeable == Permutations({h1, h2}) \cup Permutations({w1, w2})
                   \cup Permutations({d1, d2})
=============================================================================
