---------------------------- MODULE SpeechProofs ----------------------------
(* Proofs about Speech.                                                    *)
EXTENDS Speech, JobsProofs, SequenceTheorems

-----------------------------------------------------------------------------
(* Requests in flight.                                                     *)

\* What is left of an upload that may still publish its audio.
UploadPlans == {<<"commit", "recompute">>, <<"prepare", "commit", "recompute">>,
                <<"generate", "prepare", "commit", "recompute">>,
                <<"verify", "generate", "prepare", "commit", "recompute">>}

\* The steps of an upload up to its commit.
UploadSteps == {"verify", "generate", "prepare", "commit"}

\* A request uses a credential that was issued and follows one of the plans; an
\* upload has the digest of some audio.
Disciplined(call, creds) ==
    /\ call \in Call
    /\ call.steps \in Plans \ {<<>>}
    /\ call.cred \in creds
    /\ call.steps \in UploadPlans => call.digest \in Digest

CallsInv ==
    /\ calls \in [Handler -> {Idle} \cup Call]
    /\ \A h \in Handler : calls[h] = Idle \/ Disciplined(calls[h], issued)

\* Plans are sequences of steps (completeSpeech, Service.Fail, leaseResponse).
LEMMA PlansAreSequences == Plans \subseteq Seq(Steps)
BY DEF Plans, Steps

\* What is left after the first step of a plan is a plan.
LEMMA RestIsAPlan == \A s \in Plans : s # <<>> => Tail(s) \in Plans
<1>1. /\ Tail(<<"respond">>) = <<>>
      /\ Tail(<<"fail">>) = <<>>
      /\ Tail(<<"status">>) = <<>>
      /\ Tail(<<"recompute">>) = <<>>
      /\ Tail(<<"mark">>) = <<>>
  OBVIOUS
<1>2. /\ Tail(<<"mark", "fail">>) = <<"fail">>
      /\ Tail(<<"mark", "recompute">>) = <<"recompute">>
      /\ Tail(<<"status", "fail">>) = <<"fail">>
      /\ Tail(<<"recompute", "fail">>) = <<"fail">>
      /\ Tail(<<"commit", "recompute">>) = <<"recompute">>
  OBVIOUS
<1>3. /\ Tail(<<"fail", "mark", "recompute">>) = <<"mark", "recompute">>
      /\ Tail(<<"mark", "recompute", "fail">>) = <<"recompute", "fail">>
      /\ Tail(<<"prepare", "commit", "recompute">>) = <<"commit", "recompute">>
      /\ Tail(<<"generate", "prepare", "commit", "recompute">>) = <<"prepare", "commit", "recompute">>
      /\ Tail(<<"verify", "generate", "prepare", "commit", "recompute">>)
            = <<"generate", "prepare", "commit", "recompute">>
  OBVIOUS
<1> QED
  BY <1>1, <1>2, <1>3, Zenon DEF Plans

\* Only the rest of an upload is an upload, and only an upload gets as far as a
\* commit.
LEMMA RestOfAPlan ==
    ASSUME NEW s \in Plans, s # <<>>
    PROVE  /\ Tail(s) \in UploadPlans => s \in UploadPlans
           /\ Head(s) \in UploadSteps => s \in UploadPlans
           /\ Head(s) = "recompute" => Tail(s) \in {<<>>, <<"fail">>}
<1>1. \A u \in UploadPlans : u # <<>> /\ Head(u) \in UploadSteps
  BY DEF UploadPlans, UploadSteps
<1>2. Tail(s) # <<>> /\ Head(Tail(s)) \in UploadSteps => Head(s) \in UploadSteps
  BY DEF Plans, UploadSteps
<1>3. Head(s) \in UploadSteps => s \in UploadPlans
  BY DEF Plans, UploadPlans, UploadSteps
<1>4. Head(s) = "recompute" => s \in {<<"recompute">>, <<"recompute", "fail">>}
  BY DEF Plans
<1>5. Tail(<<"recompute">>) = <<>> /\ Tail(<<"recompute", "fail">>) = <<"fail">>
  OBVIOUS
<1> QED
  BY <1>1, <1>2, <1>3, <1>4, <1>5

\* Sequences of one and two steps.
LEMMA ShortPlans ==
    /\ \A t \in Seq(Steps) : Len(t) = 1 => t = <<t[1]>>
    /\ \A t \in Seq(Steps) : Len(t) = 2 => t = <<t[1], t[2]>>
OBVIOUS

\* The updates of the articles come before the rest of the plan.
LEMMA StatusPlans ==
    /\ <<"status">> \o <<>> \in Plans \ (UploadPlans \cup {<<>>})
    /\ <<"status">> \o <<"fail">> \in Plans \ (UploadPlans \cup {<<>>})
<1>1. <<"status">> \in Seq(Steps) /\ <<>> \in Seq(Steps) /\ <<"fail">> \in Seq(Steps)
  BY DEF Steps
<1>2. <<"status">> \o <<>> = <<"status">>
  BY <1>1, ConcatEmptySeq
<1>3. PICK t \in Seq(Steps) : t = <<"status">> \o <<"fail">>
  BY <1>1, ConcatProperties
<1>4. Len(t) = 2 /\ t[1] = "status" /\ t[2] = "fail"
  BY <1>1, <1>3, ConcatProperties
<1>5. t = <<"status", "fail">>
  BY <1>4, ShortPlans
<1>6. {<<"status">>, <<"status", "fail">>} \subseteq Plans \ (UploadPlans \cup {<<>>})
  BY DEF Plans, UploadPlans
<1> QED
  BY <1>2, <1>3, <1>5, <1>6

\* Of the plans, exactly those that continue an upload publish audio.
LEMMA OtherPlans ==
    /\ {<<"respond">>, <<"fail">>, <<"mark", "fail">>, <<"fail", "mark", "recompute">>,
        <<"mark">>, <<"mark", "recompute", "fail">>} \subseteq Plans \ (UploadPlans \cup {<<>>})
    /\ <<>> \in Plans \ UploadPlans
    /\ <<"generate", "prepare", "commit", "recompute">> \in Plans \ {<<>>}
    /\ <<"verify", "generate", "prepare", "commit", "recompute">> \in Plans \ {<<>>}
BY DEF Plans, UploadPlans

\* Starting a request keeps the requests disciplined.
LEMMA BeginKeepsCalls ==
    ASSUME CallsInv, issued \subseteq issued', NEW h \in Handler, NEW plan \in Plans \ {<<>>},
           NEW c \in Credential, c \in issued', NEW d \in Digest \cup {NoBlob},
           NEW retry \in BOOLEAN, plan \in UploadPlans => d \in Digest,
           NEW protocol \in {"older", "common"}, Begin(h, plan, c, d, retry, protocol)
    PROVE  CallsInv'
<1> DEFINE call == [steps |-> plan, cred |-> c, digest |-> d, retry |-> retry,
                    articles |-> {}, protocol |-> protocol]
<1>1. calls' = [calls EXCEPT ![h] = call]
  BY DEF Begin
<1>2. call \in Call
  BY PlansAreSequences DEF Call
<1>3. Disciplined(call, issued')
  BY <1>2 DEF Disciplined
<1> HIDE DEF call
<1>4. \A g \in Handler \ {h} : calls'[g] = calls[g]
  BY <1>1 DEF CallsInv
<1>5. calls'[h] = call
  BY <1>1 DEF CallsInv
<1>6. \A g \in Handler : calls[g] = Idle \/ Disciplined(calls[g], issued')
  BY DEF CallsInv, Disciplined
<1>7. calls' \in [Handler -> {Idle} \cup Call]
  BY <1>1, <1>2 DEF CallsInv
<1> QED
  BY <1>3, <1>4, <1>5, <1>6, <1>7 DEF CallsInv

\* Going on with a request keeps the requests disciplined.
LEMMA ContinueKeepsCalls ==
    ASSUME CallsInv, issued \subseteq issued', NEW h \in Handler, calls[h] # Idle,
           NEW plan \in Plans, plan \in UploadPlans => calls[h].steps \in UploadPlans,
           NEW retry \in BOOLEAN, Continue(h, plan, retry)
    PROVE  CallsInv'
<1> DEFINE call == [calls[h] EXCEPT !.steps = plan, !.retry = retry]
<1>1. calls[h] \in Call /\ Disciplined(calls[h], issued)
  BY DEF CallsInv, Disciplined
<1>2. /\ call \in Call
      /\ call.steps = plan /\ call.cred = calls[h].cred /\ call.digest = calls[h].digest
  BY <1>1, PlansAreSequences DEF Call
<1>3. plan # <<>> => Disciplined(call, issued')
  BY <1>1, <1>2 DEF Disciplined
<1>4. calls' = [calls EXCEPT ![h] = IF plan = <<>> THEN Idle ELSE call]
  BY DEF Continue
<1> HIDE DEF call
<1>5. \A g \in Handler \ {h} : calls'[g] = calls[g]
  BY <1>4 DEF CallsInv
<1>6. calls'[h] = IF plan = <<>> THEN Idle ELSE call
  BY <1>4 DEF CallsInv
<1>7. \A g \in Handler : calls[g] = Idle \/ Disciplined(calls[g], issued')
  BY DEF CallsInv, Disciplined
<1>8. calls' \in [Handler -> {Idle} \cup Call]
  BY <1>2, <1>4 DEF CallsInv
<1> QED
  BY <1>3, <1>5, <1>6, <1>7, <1>8 DEF CallsInv

\* Going on with the rest of the plan.
LEMMA ProceedKeepsCalls ==
    ASSUME CallsInv, issued \subseteq issued', NEW h \in Handler, calls[h] # Idle, Proceed(h)
    PROVE  CallsInv'
<1>1. calls[h].steps \in Plans \ {<<>>} /\ calls[h].retry \in BOOLEAN
  BY DEF CallsInv, Disciplined, Call
<1>2. Rest(h) \in Plans /\ (Rest(h) \in UploadPlans => calls[h].steps \in UploadPlans)
  BY <1>1, RestIsAPlan, RestOfAPlan DEF Rest
<1> QED
  BY <1>1, <1>2, ContinueKeepsCalls DEF Proceed

\* A rejected upload never publishes.
LEMMA GiveUpKeepsCalls ==
    ASSUME CallsInv, issued \subseteq issued', NEW h \in Handler, calls[h] # Idle,
           NEW retry \in BOOLEAN, GiveUp(h, retry)
    PROVE  CallsInv'
BY OtherPlans, ContinueKeepsCalls DEF GiveUp

-----------------------------------------------------------------------------
(* The rows of the scheduler.                                              *)

\* ensureSpeechJobTx writes legal rows and takes no credential back.
LEMMA EnsureJobsRows ==
    ASSUME TypeOK, NEW S \in SUBSET Job, NEW R, EnsureJobs(S, R)
    PROVE  TypeOK' /\ issued' = issued
<1> DEFINE new   == {j \in S : state[j] = "absent"}
           again == Restarted(S, R)
<1>1. new \in SUBSET Job /\ again \in SUBSET Job
  BY DEF Restarted
<1> HIDE DEF new, again
<1>2. /\ state'   = [j \in Job |-> IF j \in new \cup again THEN "queued" ELSE state[j]]
      /\ attempt' = [j \in Job |-> IF j \in again THEN 0 ELSE attempt[j]]
      /\ due'     = [j \in Job |-> j \in again \/ due[j]]
      /\ epoch'   = [j \in Job |-> IF j \in again THEN epoch[j] + 1 ELSE epoch[j]]
      /\ acked'   = [j \in Job |-> IF j \in again THEN {} ELSE acked[j]]
      /\ ClearLeases(again)
      /\ UNCHANGED <<deps, serial, issued>>
  BY DEF EnsureJobs, new, again
<1>3. older' \subseteq Job \X Job
  <2>1. older' = older \cup {e \in Job \X new :
                     \/ state[e[1]] # "absent"
                     \/ e[1] \in new /\ Position[e[1]] < Position[e[2]]}
    BY DEF EnsureJobs, new
  <2> QED
    BY <1>1, <2>1 DEF TypeOK
<1>4. /\ state' \in [Job -> States] /\ due' \in [Job -> BOOLEAN]
      /\ epoch' \in [Job -> Nat] /\ acked' \in [Job -> SUBSET Nat]
  BY <1>2 DEF TypeOK, States
<1>5. attempt' \in [Job -> Nat] /\ \A j \in Job : attempt'[j] <= MaxAttempts[j]
  BY <1>2, JobsAssumption DEF TypeOK
<1>6. /\ owner' \in [Job -> Owner \cup {None}] /\ token' \in [Job -> Nat]
      /\ expiry' \in [Job -> {"none", "live", "past"}]
  BY <1>2 DEF ClearLeases, TypeOK
<1> QED
  BY <1>2, <1>3, <1>4, <1>5, <1>6 DEF TypeOK

\* Canceling the jobs of purged renders writes legal rows.
LEMMA CancelRowsRows ==
    ASSUME TypeOK, NEW S \in SUBSET Job, CancelRows(S)
    PROVE  TypeOK' /\ issued' = issued
BY DEF CancelRows, ClearLeases, TypeOK, States, TerminalStates

\* The sweeps are steps of the scheduler.
LEMMA SweepRows ==
    ASSUME TypeOK, RecoverExpired
    PROVE  TypeOK' /\ issued' = issued
BY StepTypeOK DEF RecoverExpired, RecoverRows, Next

\* So is a claim, and it issues one credential more.
LEMMA ClaimRows ==
    ASSUME TypeOK, NEW w \in Owner, ClaimMatching(w)
    PROVE  TypeOK' /\ issued \subseteq issued'
BY StepTypeOK DEF ClaimMatching, ClaimFrom, Grant, Claim, Next

\* So are the reports of a worker with a credential it was given.
LEMMA ReportRows ==
    ASSUME TypeOK, NEW c \in issued, NEW retry \in BOOLEAN,
           Heartbeat(c) \/ Complete(c) \/ Fail(c, retry)
    PROVE  TypeOK' /\ issued' = issued
BY StepTypeOK DEF Heartbeat, Complete, Fail, CredentialNext, Next

\* So are a lease that expires, a backoff that elapses and a revocation.
LEMMA SchedulerRows ==
    ASSUME TypeOK, SchedulerStep
    PROVE  TypeOK' /\ issued' = issued
BY StepTypeOK DEF SchedulerStep, LeaseExpires, BackoffElapses, RevokeLeases, Next

\* Nothing happened to the rows.
LEMMA SameRows ==
    ASSUME TypeOK, UNCHANGED vars
    PROVE  TypeOK' /\ issued' = issued
BY DEF TypeOK, vars, leaseVars
-----------------------------------------------------------------------------
(* The inductive invariant.                                                *)

RenderStates == {"absent", "queued", "generating", "ready", "failed", "purged"}
NarrationStates == {"absent", "not_requested", "queued", "partial", "ready", "failed", "purged"}

AudioTypeOK ==
    /\ render \in [Job -> RenderStates]
    /\ ref \in [Job -> Digest \cup {NoBlob}]
    /\ bound \subseteq Article
    /\ narration \in [Article -> NarrationStates]

SpeechInv == /\ TypeOK /\ AudioTypeOK /\ CallsInv
             /\ held \subseteq issued
             /\ ReadyRendersHaveAudio

\* A status is one of those article.narration_status holds.
LEMMA StatusType ==
    \A a, B, R : Status(a, B, R) \in NarrationStates
BY DEF Status, NarrationStates

\* Nothing happens to the audio.
LEMMA SameAudio ==
    ASSUME SpeechInv, UNCHANGED audioVars
    PROVE  (AudioTypeOK /\ ReadyRendersHaveAudio)'
BY DEF SpeechInv, audioVars, AudioTypeOK, ReadyRendersHaveAudio

\* No request in flight moves.
LEMMA SameCalls ==
    ASSUME CallsInv, issued \subseteq issued', UNCHANGED calls
    PROVE  CallsInv'
BY DEF CallsInv, Disciplined

\* Renders that are asked for again are never ready.
LEMMA EnsureKeepsInv ==
    ASSUME SpeechInv, NEW S \in SUBSET Job, NEW T, Ensure(S, T),
           bound' \subseteq Article, narration' \in [Article -> NarrationStates]
    PROVE  SpeechInv'
<1>1. TypeOK' /\ issued' = issued
  BY EnsureJobsRows DEF Ensure, SpeechInv
<1>2. /\ render' = EnsuredRender(S, T)
      /\ UNCHANGED <<ref, held, calls>>
  BY DEF Ensure
<1>3. AudioTypeOK'
  BY <1>2 DEF SpeechInv, AudioTypeOK, EnsuredRender, RenderStates
<1>4. ReadyRendersHaveAudio'
  BY <1>2 DEF SpeechInv, ReadyRendersHaveAudio, EnsuredRender
<1> QED
  BY <1>1, <1>2, <1>3, <1>4, SameCalls DEF SpeechInv

\* The articles' requests: CreateArticle, QueueBlockPronunciations and
\* QueueArticleAudio.
LEMMA RequestsKeepInv ==
    ASSUME SpeechInv, NEW a \in Article,
           CreateArticle(a) \/ QueueBlockPronunciations(a) \/ QueueArticleAudio(a)
    PROVE  SpeechInv'
<1>1. Sentences[a] \in SUBSET Job /\ Words[a] \in SUBSET Job
  BY SpeechAssumption
<1>2. narration \in [Article -> NarrationStates] /\ bound \subseteq Article
  BY DEF SpeechInv, AudioTypeOK
<1>3. CASE CreateArticle(a)
  BY <1>1, <1>2, <1>3, StatusType, EnsureKeepsInv DEF CreateArticle
<1>4. CASE QueueBlockPronunciations(a)
  BY <1>1, <1>2, <1>4, EnsureKeepsInv DEF QueueBlockPronunciations
<1>5. CASE QueueArticleAudio(a)
  BY <1>1, <1>2, <1>5, StatusType, EnsureKeepsInv DEF QueueArticleAudio
<1> QED
  BY <1>3, <1>4, <1>5

\* ClearNarration takes the reference away together with the state.
LEMMA ClearKeepsInv ==
    ASSUME SpeechInv, NEW a \in Article, ClearNarration(a)
    PROVE  SpeechInv'
<1> DEFINE gone == IF a \in bound THEN UnboundByClear(a) ELSE {}
<1>1. gone \in SUBSET Job
  BY SpeechAssumption DEF UnboundByClear
<1>2. /\ CancelRows(gone) \/ UNCHANGED vars
      /\ bound' = bound \ {a}
      /\ ref'    = [j \in Job |-> IF j \in gone THEN NoBlob ELSE ref[j]]
      /\ render' = [j \in Job |-> IF j \in gone THEN "purged" ELSE render[j]]
      /\ narration' = [narration EXCEPT ![a] = "purged"]
      /\ UNCHANGED <<held, calls>>
  BY DEF ClearNarration
<1> HIDE DEF gone
<1>3. TypeOK' /\ issued' = issued
  BY <1>1, <1>2, CancelRowsRows, SameRows DEF SpeechInv
<1>4. AudioTypeOK'
  BY <1>2 DEF SpeechInv, AudioTypeOK, RenderStates, NarrationStates
<1>5. ReadyRendersHaveAudio'
  BY <1>2 DEF SpeechInv, ReadyRendersHaveAudio
<1> QED
  BY <1>2, <1>3, <1>4, <1>5, SameCalls DEF SpeechInv

\* The sweeps, with and without the terminal callback.
LEMMA SweepsKeepInv ==
    ASSUME SpeechInv, Sweep \/ ForeignSweep
    PROVE  SpeechInv'
<1>1. TypeOK' /\ issued' = issued /\ UNCHANGED <<ref, bound, held, calls>>
  BY SweepRows DEF Sweep, ForeignSweep, SpeechInv, audioVars
<1>2. CASE Sweep
  <2>1. PICK S : ReconcileTerminalJobs(S)
    BY <1>2 DEF Sweep
  <2>2. AudioTypeOK'
    BY <1>1, <2>1, StatusType DEF ReconcileTerminalJobs, SpeechInv, AudioTypeOK, RenderStates
  <2>3. ReadyRendersHaveAudio'
    BY <1>1, <2>1 DEF ReconcileTerminalJobs, SpeechInv, AudioTypeOK, ReadyRendersHaveAudio
  <2> QED
    BY <1>1, <2>2, <2>3, SameCalls DEF SpeechInv
<1>3. CASE ForeignSweep
  BY <1>1, <1>3, SameAudio, SameCalls DEF ForeignSweep, SpeechInv
<1> QED
  BY <1>2, <1>3

-----------------------------------------------------------------------------
(* Steps of the handlers.                                                  *)

\* A handler at a step has a disciplined request, which is of an upload if the
\* step is one.
LEMMA HandlerAt ==
    ASSUME SpeechInv, NEW h \in Handler, NEW step, At(h, step)
    PROVE  /\ calls[h] # Idle
           /\ Disciplined(calls[h], issued)
           /\ calls[h].cred \in issued /\ calls[h].cred \in Credential
           /\ calls[h].cred.job \in Job
           /\ calls[h].retry \in BOOLEAN
           /\ step \in {"verify", "generate", "prepare", "commit"} =>
                 calls[h].steps \in UploadPlans /\ calls[h].digest \in Digest
<1>1. calls[h] # Idle /\ Head(calls[h].steps) = step
  BY DEF At
<1>2. Disciplined(calls[h], issued)
  BY <1>1 DEF SpeechInv, CallsInv
<1>3. calls[h].cred \in Credential /\ calls[h].retry \in BOOLEAN
  BY <1>2 DEF Disciplined, Call
<1>4. calls[h].cred.job \in Job
  BY <1>3 DEF Credential
<1>5. step \in {"verify", "generate", "prepare", "commit"} => calls[h].steps \in UploadPlans
  BY <1>1, <1>2, RestOfAPlan DEF Disciplined, UploadSteps
<1> QED
  BY <1>1, <1>2, <1>3, <1>4, <1>5 DEF Disciplined

\* Lease begins a request with the credential it drew.
LEMMA LeaseKeepsInv ==
    ASSUME SpeechInv, NEW h \in Handler, NEW w \in Owner, Lease(h, w)
    PROVE  SpeechInv'
<1>1. TypeOK' /\ issued \subseteq issued'
  BY ClaimRows DEF Lease, SpeechInv
<1>2. PICK c \in issued' \ issued : Begin(h, <<"respond">>, c, NoBlob, FALSE, "older")
  BY DEF Lease
<1>3. c \in Credential
  BY <1>1 DEF TypeOK
<1>4. CallsInv'
  BY <1>1, <1>2, <1>3, OtherPlans, BeginKeepsCalls DEF SpeechInv
<1>5. UNCHANGED audioVars /\ UNCHANGED held
  BY DEF Lease
<1> QED
  BY <1>1, <1>4, <1>5, SameAudio DEF SpeechInv

\* Heartbeats and the start of a report or an upload.
LEMMA ReportsKeepInv ==
    ASSUME SpeechInv, NEW c \in held,
           \/ WorkerHeartbeat(c)
           \/ \E h \in Handler, retry \in RetryReports : ReportFailure(h, c, retry)
           \/ \E h \in Handler, d \in Digest : Upload(h, c, d) \/ UploadCommon(h, c, d)
    PROVE  SpeechInv'
<1>1. c \in issued /\ c \in Credential
  BY DEF SpeechInv, TypeOK
<1>2. UNCHANGED audioVars /\ UNCHANGED held
  BY DEF WorkerHeartbeat, ReportFailure, Upload, UploadCommon
<1>3. (AudioTypeOK /\ ReadyRendersHaveAudio)'
  BY <1>2, SameAudio
<1>4. CASE WorkerHeartbeat(c)
  <2>1. TypeOK' /\ issued' = issued
    BY <1>1, <1>4, ReportRows DEF WorkerHeartbeat, SpeechInv
  <2> QED
    BY <1>2, <1>3, <1>4, <2>1, SameCalls DEF WorkerHeartbeat, SpeechInv
<1>5. ASSUME NEW h \in Handler, NEW retry \in RetryReports, ReportFailure(h, c, retry)
      PROVE  SpeechInv'
  <2>1. TypeOK' /\ issued' = issued
    BY <1>5, SameRows DEF ReportFailure, SpeechInv
  <2>2. PICK plan \in {<<"fail">>, <<"fail", "mark", "recompute">>} :
           Begin(h, plan, c, NoBlob, retry, "older")
    BY <1>5 DEF ReportFailure
  <2>3. retry \in BOOLEAN
    BY SpeechAssumption
  <2>4. CallsInv'
    BY <1>1, <2>1, <2>2, <2>3, OtherPlans, BeginKeepsCalls DEF SpeechInv
  <2> QED
    BY <1>2, <1>3, <2>1, <2>4 DEF SpeechInv
<1>6. ASSUME NEW h \in Handler, NEW d \in Digest, Upload(h, c, d) \/ UploadCommon(h, c, d)
      PROVE  SpeechInv'
  <2>1. TypeOK' /\ issued' = issued
    BY <1>6, SameRows DEF Upload, UploadCommon, SpeechInv
  <2>2. PICK plan \in Plans \ {<<>>}, protocol \in {"older", "common"} :
           Begin(h, plan, c, d, TRUE, protocol)
    BY <1>6, OtherPlans DEF Upload, UploadCommon
  <2>3. CallsInv'
    BY <1>1, <2>1, <2>2, BeginKeepsCalls DEF SpeechInv
  <2> QED
    BY <1>2, <1>3, <2>1, <2>3 DEF SpeechInv
<1> QED
  BY <1>4, <1>5, <1>6

\* leaseResponse and rejectMalformedLease.
LEMMA RespondKeepsInv ==
    ASSUME SpeechInv, NEW h \in Handler, Respond(h)
    PROVE  SpeechInv'
<1>1. At(h, "respond") /\ UNCHANGED vars /\ UNCHANGED audioVars
  BY DEF Respond
<1>2. TypeOK' /\ issued' = issued /\ (AudioTypeOK /\ ReadyRendersHaveAudio)'
  BY <1>1, SameRows, SameAudio DEF SpeechInv
<1>3. calls[h] # Idle /\ calls[h].cred \in issued
  BY <1>1, HandlerAt
<1>4. held' \subseteq issued'
  BY <1>2, <1>3 DEF Respond, SpeechInv
<1>5. Proceed(h) \/ Continue(h, <<"mark", "recompute", "fail">>, FALSE)
  BY DEF Respond
<1>6. CallsInv'
  BY <1>2, <1>3, <1>5, OtherPlans, ProceedKeepsCalls, ContinueKeepsCalls DEF SpeechInv
<1> QED
  BY <1>2, <1>4, <1>6 DEF SpeechInv

\* Steps that change the state of one render, never to "ready".
LEMMA RenderStepsKeepInv ==
    ASSUME SpeechInv, NEW h \in Handler, SetRenderGenerating(h) \/ MarkRenderFailed(h)
    PROVE  SpeechInv'
<1>1. /\ At(h, "generate") \/ At(h, "mark")
      /\ UNCHANGED <<vars, ref, bound, narration, held>>
      /\ Proceed(h) \/ Continue(h, <<>>, FALSE)
      /\ \E s \in {"generating", "failed", render[calls[h].cred.job]} :
            render' = [render EXCEPT ![calls[h].cred.job] = s]
  BY DEF SetRenderGenerating, MarkRenderFailed
<1>2. TypeOK' /\ issued' = issued
  BY <1>1, SameRows DEF SpeechInv
<1>3. calls[h] # Idle /\ calls[h].cred.job \in Job
  BY <1>1, HandlerAt
<1>4. CallsInv'
  BY <1>1, <1>2, <1>3, OtherPlans, ProceedKeepsCalls, ContinueKeepsCalls DEF SpeechInv
<1>5. AudioTypeOK'
  BY <1>1, <1>3 DEF SpeechInv, AudioTypeOK, RenderStates
<1>6. ReadyRendersHaveAudio'
  BY <1>1, <1>3 DEF SpeechInv, AudioTypeOK, ReadyRendersHaveAudio
<1> QED
  BY <1>1, <1>2, <1>4, <1>5, <1>6 DEF SpeechInv

\* Steps that change neither rows nor audio.
LEMMA QuietStepsKeepInv ==
    ASSUME SpeechInv, NEW h \in Handler,
           PrepareWrite(h) \/ VerifyLease(h) \/ Recompute(h) \/ Disconnect(h)
    PROVE  SpeechInv'
<1>1. TypeOK' /\ issued' = issued /\ (AudioTypeOK /\ ReadyRendersHaveAudio)' /\ held' = held
  BY SameRows, SameAudio DEF PrepareWrite, VerifyLease, Recompute, Disconnect, SpeechInv
<1>2. CASE PrepareWrite(h)
  BY <1>1, <1>2, HandlerAt, ProceedKeepsCalls, GiveUpKeepsCalls DEF PrepareWrite, SpeechInv
<1>3. CASE Recompute(h)
  <2> DEFINE articles == Bindings(calls[h].cred.job)
             call == [calls[h] EXCEPT !.steps = <<"status">> \o Rest(h), !.articles = articles]
  <2>1. At(h, "recompute")
    BY <1>3 DEF Recompute
  <2>2. calls[h] # Idle /\ Disciplined(calls[h], issued)
    BY <2>1, HandlerAt
  <2>3. CASE Proceed(h)
    BY <1>1, <2>2, <2>3, ProceedKeepsCalls DEF SpeechInv
  <2>4. CASE calls' = [calls EXCEPT ![h] = call]
    <3>1. <<"status">> \o Rest(h) \in Plans \ (UploadPlans \cup {<<>>})
      BY <2>1, <2>2, RestOfAPlan, StatusPlans DEF At, Rest, Disciplined
    <3>2. articles \subseteq Article
      BY DEF Bindings, SpeechInv, AudioTypeOK
    <3>3. /\ call \in Call
          /\ call.steps = <<"status">> \o Rest(h) /\ call.cred = calls[h].cred
      BY <2>2, <3>1, <3>2, PlansAreSequences DEF Call, Disciplined
    <3>4. Disciplined(call, issued')
      BY <1>1, <2>2, <3>1, <3>3 DEF Disciplined
    <3> HIDE DEF call
    <3>5. CallsInv'
      BY <1>1, <2>4, <3>3, <3>4 DEF CallsInv, SpeechInv, Disciplined
    <3> QED
      BY <1>1, <3>5 DEF SpeechInv
  <2> QED
    BY <1>3, <2>3, <2>4 DEF Recompute
<1>4. CASE Disconnect(h)
  <2>1. calls' = [calls EXCEPT ![h] = Idle]
    BY <1>4 DEF Disconnect
  <2>2. CallsInv'
    BY <1>1, <2>1 DEF CallsInv, SpeechInv, Disciplined
  <2> QED
    BY <1>1, <2>2 DEF SpeechInv
<1>5. CASE VerifyLease(h)
  <2>1. calls[h] # Idle /\ calls[h].retry \in BOOLEAN
    BY <1>5, HandlerAt DEF VerifyLease
  <2>2. Proceed(h) \/ Continue(h, <<>>, FALSE)
    BY <1>5 DEF VerifyLease
  <2> QED
    BY <1>1, <2>1, <2>2, OtherPlans, ProceedKeepsCalls, ContinueKeepsCalls DEF SpeechInv
<1> QED
  BY <1>2, <1>3, <1>4, <1>5

\* recomputeRenderArticles, one article.
LEMMA UpdateStatusKeepsInv ==
    ASSUME SpeechInv, NEW h \in Handler, UpdateStatus(h)
    PROVE  SpeechInv'
<1>1. At(h, "status") /\ UNCHANGED <<vars, render, ref, bound, held>>
  BY DEF UpdateStatus
<1>2. TypeOK' /\ issued' = issued
  BY <1>1, SameRows DEF SpeechInv
<1>3. PICK a \in calls[h].articles :
         /\ narration' = [narration EXCEPT ![a] = Status(a, bound, render)]
         /\ \/ Proceed(h)
            \/ calls' = [calls EXCEPT ![h].articles = @ \ {a}]
  BY DEF UpdateStatus
<1>4. calls[h] # Idle /\ Disciplined(calls[h], issued)
  BY <1>1, HandlerAt
<1>5. AudioTypeOK' /\ ReadyRendersHaveAudio'
  BY <1>1, <1>3, StatusType DEF SpeechInv, AudioTypeOK, ReadyRendersHaveAudio
<1>6. CallsInv'
  <2>1. CASE Proceed(h)
    BY <1>2, <1>4, <2>1, ProceedKeepsCalls DEF SpeechInv
  <2>2. CASE calls' = [calls EXCEPT ![h].articles = @ \ {a}]
    <3> DEFINE call == [calls[h] EXCEPT !.articles = @ \ {a}]
    <3>1. calls' = [calls EXCEPT ![h] = call]
      BY <2>2
    <3>2. call \in Call /\ Disciplined(call, issued')
      BY <1>2, <1>4 DEF Disciplined, Call
    <3> HIDE DEF call
    <3> QED
      BY <1>2, <3>1, <3>2 DEF CallsInv, SpeechInv, Disciplined
  <2> QED
    BY <1>3, <2>1, <2>2
<1> QED
  BY <1>1, <1>2, <1>5, <1>6 DEF SpeechInv

\* jobs.Fail with the credential of the request.
LEMMA FailJobKeepsInv ==
    ASSUME SpeechInv, NEW h \in Handler, FailJob(h)
    PROVE  SpeechInv'
<1>1. At(h, "fail") /\ UNCHANGED audioVars /\ UNCHANGED held
  BY DEF FailJob
<1>2. calls[h] # Idle /\ calls[h].cred \in issued /\ calls[h].retry \in BOOLEAN
  BY <1>1, HandlerAt
<1>3. Fail(calls[h].cred, calls[h].retry) \/ UNCHANGED vars
  BY DEF FailJob
<1>4. TypeOK' /\ issued' = issued
  BY <1>2, <1>3, ReportRows, SameRows DEF SpeechInv
<1>5. Proceed(h) \/ Continue(h, <<>>, FALSE)
  BY DEF FailJob
<1>6. CallsInv'
  BY <1>2, <1>4, <1>5, OtherPlans, ProceedKeepsCalls, ContinueKeepsCalls DEF SpeechInv
<1> QED
  BY <1>1, <1>4, <1>6, SameAudio DEF SpeechInv

\* What a commit does: it accepts the digest of the request, and finishes the
\* job, or it changes nothing.
LEMMA CommitEffect ==
    ASSUME SpeechInv, NEW h \in Handler, CommitPrepared(h)
    PROVE  LET c == calls[h].cred
               d == calls[h].digest
           IN  \/ /\ Acceptable(c.job, d) /\ CompletionAccepted(c)
                  /\ Complete(c) /\ Accepted(c.job, d)
               \/ UNCHANGED <<vars, ref, render>>
BY DEF CommitPrepared

\* A render that becomes ready gets its reference in the same transaction.
LEMMA CommitKeepsInv ==
    ASSUME SpeechInv, NEW h \in Handler, CommitPrepared(h)
    PROVE  SpeechInv'
<1> DEFINE c == calls[h].cred
           d == calls[h].digest
<1>1. At(h, "commit") /\ UNCHANGED <<bound, narration, held>>
  BY DEF CommitPrepared
<1>2. calls[h] # Idle /\ c \in issued /\ c.job \in Job /\ d \in Digest
  BY <1>1, HandlerAt
<1>3. TypeOK' /\ issued' = issued
  BY <1>2, CommitEffect, ReportRows, SameRows DEF SpeechInv
<1>4. Proceed(h) \/ GiveUp(h, TRUE) \/ GiveUp(h, FALSE)
  BY DEF CommitPrepared
<1>5. CallsInv'
  BY <1>2, <1>3, <1>4, ProceedKeepsCalls, GiveUpKeepsCalls DEF SpeechInv
<1>6. CASE UNCHANGED <<vars, ref, render>>
  BY <1>1, <1>3, <1>5, <1>6, SameAudio DEF SpeechInv, audioVars
<1>7. CASE Accepted(c.job, d)
  <2>1. AudioTypeOK'
    BY <1>1, <1>2, <1>7 DEF Accepted, SpeechInv, AudioTypeOK, RenderStates
  <2>2. ReadyRendersHaveAudio'
    BY <1>2, <1>7, SpeechAssumption DEF Accepted, SpeechInv, AudioTypeOK, ReadyRendersHaveAudio
  <2> QED
    BY <1>1, <1>3, <1>5, <2>1, <2>2 DEF SpeechInv
<1> QED
  BY <1>6, <1>7, CommitEffect

\* Every step keeps the invariant.
LEMMA StepKeepsSpeechInv ==
    ASSUME SpeechInv, [SpeechNext]_speechVars
    PROVE  SpeechInv'
<1>1. CASE SchedulerStep
  <2>1. TypeOK' /\ issued' = issued
    BY <1>1, SchedulerRows DEF SpeechInv
  <2> QED
    BY <1>1, <2>1, SameAudio, SameCalls DEF SchedulerStep, SpeechInv
<1>2. CASE UNCHANGED speechVars
  <2>1. TypeOK' /\ issued' = issued
    BY <1>2, SameRows DEF SpeechInv, speechVars
  <2> QED
    BY <1>2, <2>1, SameAudio, SameCalls DEF speechVars, SpeechInv
<1>3. ASSUME NEW a \in Article,
             \/ CreateArticle(a) \/ QueueBlockPronunciations(a)
             \/ QueueArticleAudio(a) \/ ClearNarration(a)
      PROVE  SpeechInv'
  BY <1>3, RequestsKeepInv, ClearKeepsInv
<1>4. ASSUME NEW h \in Handler, HandlerStep(h) \/ Disconnect(h) PROVE SpeechInv'
  BY <1>4, RespondKeepsInv, RenderStepsKeepInv, QuietStepsKeepInv, CommitKeepsInv,
     FailJobKeepsInv, UpdateStatusKeepsInv DEF HandlerStep
<1>5. ASSUME NEW h \in Handler, Request(h) PROVE SpeechInv'
  BY <1>5, LeaseKeepsInv, ReportsKeepInv DEF Request
<1>6. ASSUME NEW c \in held, WorkerHeartbeat(c) PROVE SpeechInv'
  BY <1>6, ReportsKeepInv
<1>7. CASE Sweep \/ ForeignSweep
  BY <1>7, SweepsKeepInv
<1> QED
  BY <1>1, <1>2, <1>3, <1>4, <1>5, <1>6, <1>7 DEF SpeechNext

\* The invariant is inductive, and no state of the server violates it.
THEOREM SpeechCorrect == SpeechSpec => []SpeechInv
<1>1. SpeechInit => SpeechInv
  <2> SUFFICES ASSUME SpeechInit PROVE SpeechInv
    OBVIOUS
  <2>1. TypeOK
    <3>1. Init
      BY DEF SpeechInit
    <3> QED
      BY <3>1, InitTypeOK
  <2>2. AudioTypeOK
    BY DEF SpeechInit, AudioTypeOK, RenderStates, NarrationStates
  <2>3. CallsInv
    BY DEF SpeechInit, CallsInv
  <2>4. held \subseteq issued /\ ReadyRendersHaveAudio
    BY DEF SpeechInit, ReadyRendersHaveAudio
  <2> QED
    BY <2>1, <2>2, <2>3, <2>4 DEF SpeechInv
<1>2. SpeechInv /\ [SpeechNext]_speechVars => SpeechInv'
  BY StepKeepsSpeechInv
<1> QED
  BY <1>1, <1>2, PTL DEF SpeechSpec

\* Rows hold the values the schema allows and handlers follow their plans.
THEOREM SpeechTypeCorrect == SpeechSpec => []SpeechTypeOK
<1>1. SpeechInv => \A h \in Handler : calls[h].steps \in Plans
  BY OtherPlans DEF SpeechInv, CallsInv, Disciplined, Idle
<1>2. SpeechInv => SpeechTypeOK
  BY <1>1 DEF SpeechInv, AudioTypeOK, RenderStates, NarrationStates, CallsInv, SpeechTypeOK
<1> QED
  BY <1>2, SpeechCorrect, PTL

\* A reader is never offered audio that is not there (MarkRenderReadyTx,
\* ClearNarration), for any number of articles, workers and requests in flight.
THEOREM ReadyRendersAreBacked == SpeechSpec => []ReadyRendersHaveAudio
<1>1. SpeechInv => ReadyRendersHaveAudio
  BY DEF SpeechInv
<1> QED
  BY <1>1, SpeechCorrect, PTL
-----------------------------------------------------------------------------
(* What happens to audio that was accepted.                                *)

\* A reference is written by a commit that accepts it and taken away by the
\* clearing of a narration, and by nothing else.
LEMMA ReferencesChange ==
    ASSUME SpeechInv, [SpeechNext]_speechVars
    PROVE  \/ UNCHANGED ref
           \/ \E a \in Article : ClearNarration(a)
           \/ \E h \in Handler :
                 /\ At(h, "commit")
                 /\ Acceptable(calls[h].cred.job, calls[h].digest)
                 /\ Accepted(calls[h].cred.job, calls[h].digest)
<1>1. CASE UNCHANGED speechVars \/ SchedulerStep \/ Sweep \/ ForeignSweep
  BY <1>1 DEF speechVars, audioVars, SchedulerStep, Sweep, ForeignSweep
<1>2. ASSUME NEW a \in Article,
             \/ CreateArticle(a) \/ QueueBlockPronunciations(a)
             \/ QueueArticleAudio(a)
      PROVE  UNCHANGED ref
  BY <1>2 DEF CreateArticle, QueueBlockPronunciations, QueueArticleAudio, Ensure
<1>3. ASSUME NEW c \in held, WorkerHeartbeat(c) PROVE UNCHANGED ref
  BY <1>3 DEF WorkerHeartbeat, audioVars
<1>4. ASSUME NEW h \in Handler, Request(h) \/ Disconnect(h) PROVE UNCHANGED ref
  BY <1>4 DEF Request, Lease, ReportFailure, Upload, UploadCommon, Disconnect, audioVars
<1>5. ASSUME NEW h \in Handler, CommitPrepared(h)
      PROVE  \/ UNCHANGED ref
             \/ /\ At(h, "commit")
                /\ Acceptable(calls[h].cred.job, calls[h].digest)
                /\ Accepted(calls[h].cred.job, calls[h].digest)
  BY <1>5, CommitEffect DEF CommitPrepared
<1>6. ASSUME NEW h \in Handler,
             \/ Respond(h) \/ VerifyLease(h) \/ SetRenderGenerating(h) \/ PrepareWrite(h)
             \/ MarkRenderFailed(h) \/ FailJob(h) \/ Recompute(h) \/ UpdateStatus(h)
      PROVE  UNCHANGED ref
  BY <1>6 DEF Respond, VerifyLease, SetRenderGenerating, PrepareWrite, MarkRenderFailed, FailJob,
              Recompute, UpdateStatus, audioVars
<1> QED
  BY <1>1, <1>2, <1>3, <1>4, <1>5, <1>6 DEF SpeechNext, HandlerStep

\* The first accepted digest of a render stays (NondeterministicResultError):
\* Acceptable, read in the commit's own transaction, is what keeps it.
THEOREM AcceptedAudioStays == SpeechSpec => AcceptedAudioIsImmutable
<1> DEFINE Stays == \A j \in Job : ref[j] # NoBlob => ref'[j] \in {ref[j], NoBlob}
<1>1. SpeechInv /\ [SpeechNext]_speechVars => [Stays]_speechVars
  <2> SUFFICES ASSUME SpeechInv, [SpeechNext]_speechVars PROVE Stays
    OBVIOUS
  <2>1. CASE UNCHANGED ref
    BY <2>1
  <2>2. ASSUME NEW a \in Article, ClearNarration(a) PROVE Stays
    BY <2>2 DEF ClearNarration
  <2>3. ASSUME NEW h \in Handler, At(h, "commit"),
               Acceptable(calls[h].cred.job, calls[h].digest),
               Accepted(calls[h].cred.job, calls[h].digest)
        PROVE  Stays
    BY <2>3 DEF Accepted, Acceptable, SpeechInv, AudioTypeOK
  <2> QED
    BY <2>1, <2>2, <2>3, ReferencesChange
<1> QED
  BY <1>1, SpeechCorrect, PTL DEF SpeechSpec, AcceptedAudioIsImmutable

\* ClearNarration gives up the audio of renders no other article is bound to,
\* and no lexical audio, which the disjointness of the two kinds ensures.
THEOREM SharedAudioStays == SpeechSpec => SharedAudioSurvivesClear
<1> DEFINE Survives == \A j \in Job : ref[j] # NoBlob /\ ref'[j] = NoBlob =>
                          /\ \A a \in bound' : j \notin Sentences[a]
                          /\ \A a \in Article : j \notin Words[a]
<1>1. SpeechInv /\ [SpeechNext]_speechVars => [Survives]_speechVars
  <2> SUFFICES ASSUME SpeechInv, [SpeechNext]_speechVars PROVE Survives
    OBVIOUS
  <2>1. CASE UNCHANGED ref
    BY <2>1
  <2>2. ASSUME NEW a \in Article, ClearNarration(a), NEW j \in Job,
               ref[j] # NoBlob, ref'[j] = NoBlob
        PROVE  /\ \A b \in bound' : j \notin Sentences[b]
               /\ \A b \in Article : j \notin Words[b]
    <3>1. j \in UnboundByClear(a)
      BY <2>2 DEF ClearNarration
    <3>2. j \in Sentences[a] /\ Bindings(j) = {a}
      BY <3>1 DEF UnboundByClear
    <3>3. \A b \in bound' : j \notin Sentences[b]
      BY <2>2, <3>2 DEF ClearNarration, Bindings
    <3>4. \A b \in Article : j \notin Words[b]
      BY <3>2, SpeechAssumption
    <3> QED
      BY <3>3, <3>4
  <2>3. ASSUME NEW h \in Handler, At(h, "commit"),
               Accepted(calls[h].cred.job, calls[h].digest)
        PROVE  Survives
    <3>1. calls[h].digest \in Digest /\ calls[h].digest # NoBlob
      BY <2>3, HandlerAt, SpeechAssumption
    <3> QED
      BY <2>3, <3>1 DEF Accepted, SpeechInv, AudioTypeOK
  <2> QED
    BY <2>1, <2>2, <2>3, ReferencesChange
<1> QED
  BY <1>1, SpeechCorrect, PTL DEF SpeechSpec, SharedAudioSurvivesClear
-----------------------------------------------------------------------------
(* The rows under the requests of articles and workers.                    *)

\* A request of an owner, for many jobs at once, keeps the lease invariant: a
\* job that starts over forgets its token and its acknowledgement together, and
\* its old credentials are of an earlier epoch.
LEMMA EnsureKeepsLeaseInv ==
    ASSUME LeaseInv, TypeOK', NEW S \in SUBSET Job, NEW R, EnsureJobs(S, R)
    PROVE  LeaseInv'
<1> DEFINE new   == {j \in S : state[j] = "absent"}
           again == Restarted(S, R)
<1> USE DEF LeaseInv
<1>1. /\ UNCHANGED <<serial, issued>>
      /\ \A j \in again : /\ state'[j] = "queued" /\ token'[j] = 0 /\ acked'[j] = {}
                          /\ epoch'[j] = epoch[j] + 1
      /\ \A j \in Job \ again : /\ attempt'[j] = attempt[j] /\ owner'[j] = owner[j]
                                /\ token'[j] = token[j] /\ expiry'[j] = expiry[j]
                                /\ epoch'[j] = epoch[j] /\ acked'[j] = acked[j]
                                /\ \/ state'[j] = state[j]
                                   \/ state[j] = "absent" /\ state'[j] = "queued"
  BY DEF EnsureJobs, ClearLeases, Restarted
<1>2. again \subseteq Job
  BY DEF Restarted
<1> HIDE DEF again
<1>3. RowsMatchTheirLease'
  BY <1>1, <1>2 DEF RowsMatchTheirLease, RowCredential, Active, ActiveStates
<1>4. CredentialsAreOld'
  <2>1. \A c \in issued : c.job \in Job /\ c.epoch \in Nat
    BY DEF TypeOK, Credential
  <2> QED
    BY <1>1, <1>2, <2>1 DEF CredentialsAreOld, TypeOK
<1>5. TokenIdentifiesLease' /\ AttemptIdentifiesLease'
  BY <1>1 DEF TokenIdentifiesLease, AttemptIdentifiesLease
<1>6. ExactlyOnceCompletion'
  BY <1>1, <1>2 DEF ExactlyOnceCompletion
<1> QED
  BY <1>3, <1>4, <1>5, <1>6

\* The owner of a render asks again for closed jobs only, which is all the
\* ledger lets an owner do.
LEMMA EnsureRefines ==
    ASSUME TypeOK, TypeOK', NEW S \in SUBSET Job, NEW R, EnsureJobs(S, R)
    PROVE  [Ledger!Next]_(Ledger!ledger)
<1> DEFINE new   == {j \in S : state[j] = "absent"}
           again == Restarted(S, R)
<1>1. /\ state'   = [j \in Job |-> IF j \in new \cup again THEN "queued" ELSE state[j]]
      /\ attempt' = [j \in Job |-> IF j \in again THEN 0 ELSE attempt[j]]
      /\ token'   = [j \in Job |-> IF j \in again THEN 0 ELSE token[j]]
      /\ serial'  = serial
  BY DEF EnsureJobs, ClearLeases
<1>2. /\ new \in SUBSET Job /\ again \in SUBSET Job
      /\ \A j \in new : state[j] = "absent"
      /\ \A j \in again : state[j] \in TerminalStates
  BY DEF Restarted, TerminalStates
<1> HIDE DEF new, again
<1>3. \A j \in new : LedgerPhase[j] = "none"
  BY <1>2 DEF LedgerPhase
<1>4. \A j \in again : LedgerPhase[j] = "closed"
  BY <1>2 DEF LedgerPhase, TerminalStates, Active, ActiveStates
<1>5. LedgerPhase' = [j \in Job |-> IF j \in new \cup again THEN "open" ELSE LedgerPhase[j]]
  <2>1. \A j \in Job : LedgerPhase'[j] = IF j \in new \cup again THEN "open" ELSE LedgerPhase[j]
    BY <1>1 DEF LedgerPhase, Active, ActiveStates
  <2> QED
    BY <2>1 DEF LedgerPhase
<1>6. LedgerWinner' = [j \in Job |-> IF j \in again THEN 0 ELSE LedgerWinner[j]]
  <2>1. \A j \in Job : LedgerWinner'[j] = IF j \in again THEN 0 ELSE LedgerWinner[j]
    BY <1>1, <1>2 DEF LedgerWinner
  <2> QED
    BY <2>1 DEF LedgerWinner
<1>7. Ledger!Ask(new, again)
  BY <1>1, <1>3, <1>4, <1>5, <1>6 DEF Ledger!Ask
<1> QED
  BY <1>2, <1>7 DEF Ledger!Next

\* What a step of the speech store does to the rows: a step of the scheduler,
\* the cancellation of a cleared narration, or an article's request.
LEMMA StepRows ==
    ASSUME SpeechInv, [SpeechNext]_speechVars
    PROVE  \/ [Next]_vars
           \/ \E S \in SUBSET Job : CancelRows(S)
           \/ \E S \in SUBSET Job, R \in [Job -> RenderStates] : EnsureJobs(S, R)
<1>1. ASSUME NEW a \in Article,
             CreateArticle(a) \/ QueueBlockPronunciations(a) \/ QueueArticleAudio(a)
      PROVE  \E S \in SUBSET Job, R \in [Job -> RenderStates] : EnsureJobs(S, R)
  <2>1. \A S, T : EnsuredRender(S, T) \in [Job -> RenderStates]
    BY DEF EnsuredRender, SpeechInv, AudioTypeOK, RenderStates
  <2>2. Sentences[a] \in SUBSET Job /\ Words[a] \in SUBSET Job
    BY SpeechAssumption
  <2>3. \E S \in SUBSET Job : \E T : Ensure(S, T)
    BY <1>1, <2>2 DEF CreateArticle, QueueBlockPronunciations, QueueArticleAudio
  <2> QED
    BY <2>1, <2>3 DEF Ensure
<1>2. ASSUME NEW a \in Article, ClearNarration(a)
      PROVE  (\E S \in SUBSET Job : CancelRows(S)) \/ UNCHANGED vars
  <2>1. UnboundByClear(a) \in SUBSET Job
    BY SpeechAssumption DEF UnboundByClear
  <2> QED
    BY <1>2, <2>1 DEF ClearNarration
<1>3. ASSUME NEW h \in Handler, Request(h) \/ Disconnect(h) PROVE [Next]_vars
  BY <1>3 DEF Request, Lease, ReportFailure, Upload, UploadCommon, Disconnect, Next, Claim
<1>4. ASSUME NEW h \in Handler, HandlerStep(h) PROVE [Next]_vars
  <2>1. CASE CommitPrepared(h)
    <3>1. calls[h].cred \in issued
      BY <2>1, HandlerAt DEF CommitPrepared
    <3> QED
      BY <2>1, <3>1, CommitEffect DEF Next, CredentialNext
  <2>2. CASE FailJob(h)
    <3>1. calls[h].cred \in issued /\ calls[h].retry \in BOOLEAN
      BY <2>2, HandlerAt DEF FailJob
    <3> QED
      BY <2>2, <3>1 DEF FailJob, Next, CredentialNext
  <2> QED
    BY <1>4, <2>1, <2>2 DEF HandlerStep, Respond, VerifyLease, SetRenderGenerating, PrepareWrite,
       MarkRenderFailed, Recompute, UpdateStatus
<1>5. ASSUME NEW c \in held, WorkerHeartbeat(c) PROVE [Next]_vars
  BY <1>5 DEF WorkerHeartbeat, SpeechInv, Next, CredentialNext
<1>6. CASE Sweep \/ ForeignSweep \/ SchedulerStep
  BY <1>6 DEF Sweep, ForeignSweep, SchedulerStep, Next
<1>7. CASE UNCHANGED speechVars
  BY <1>7 DEF speechVars
<1> QED
  BY <1>1, <1>2, <1>3, <1>4, <1>5, <1>6, <1>7 DEF SpeechNext

\* Both invariants hold together: the requests in flight need the rows, and the
\* rows stay legal whatever the requests do.
RowsInv == SpeechInv /\ LeaseInv

\* Every step keeps them.
LEMMA StepKeepsRowsInv ==
    ASSUME RowsInv, [SpeechNext]_speechVars
    PROVE  RowsInv'
<1> USE DEF RowsInv
<1>1. SpeechInv' /\ TypeOK'
  BY StepKeepsSpeechInv DEF SpeechInv
<1>2. CASE [Next]_vars
  BY <1>1, <1>2, StepLeaseInv
<1>3. ASSUME NEW S \in SUBSET Job, CancelRows(S) PROVE RowsInv'
  BY <1>1, <1>3, CancelSweeps, SweepKeepsLeaseInv DEF LeaseInv
<1>4. ASSUME NEW S \in SUBSET Job, NEW R, EnsureJobs(S, R) PROVE RowsInv'
  BY <1>1, <1>4, EnsureKeepsLeaseInv
<1> QED
  BY <1>2, <1>3, <1>4, StepRows

\* The promises of the lease invariant - one acknowledged completion, no token
\* and no attempt twice - survive the requests of articles and workers.
THEOREM SpeechRowsCorrect == SpeechSpec => []RowsInv
<1>1. SpeechInit => LeaseInv
  <2> SUFFICES ASSUME SpeechInit PROVE LeaseInv
    OBVIOUS
  <2>1. Init
    BY DEF SpeechInit
  <2> QED
    BY <2>1, InitTypeOK DEF Init, LeaseInv, RowsMatchTheirLease, Active, ActiveStates,
       CredentialsAreOld, TokenIdentifiesLease, AttemptIdentifiesLease, ExactlyOnceCompletion
<1>2. LeaseInv /\ SpeechInv /\ [SpeechNext]_speechVars => LeaseInv'
  BY StepKeepsRowsInv DEF RowsInv
<1> QED
  BY <1>1, <1>2, SpeechCorrect, PTL DEF SpeechSpec, RowsInv

\* Every step of an article or a worker shows the owners of synthesis jobs a
\* step of the ledger, or nothing.
THEOREM SpeechImplementsLedger == SpeechSpec => SpeechKeepsLedger
<1>1. SpeechInit => Ledger!Init
  BY DEF SpeechInit, Init, Ledger!Init, LedgerPhase, LedgerWinner
<1>2. RowsInv /\ RowsInv' /\ [SpeechNext]_speechVars => [Ledger!Next]_(Ledger!ledger)
  <2> SUFFICES ASSUME RowsInv, RowsInv', [SpeechNext]_speechVars
               PROVE  [Ledger!Next]_(Ledger!ledger)
    OBVIOUS
  <2> USE DEF RowsInv, LeaseInv
  <2>1. CASE [Next]_vars
    BY <2>1, StepRefines
  <2>2. ASSUME NEW S \in SUBSET Job, CancelRows(S) PROVE [Ledger!Next]_(Ledger!ledger)
    <3>1. SweepShape
      BY <2>2 DEF CancelRows, ClearLeases, SweepShape, Active, ActiveStates
    <3> QED
      BY <3>1, SweepRefines
  <2>3. ASSUME NEW S \in SUBSET Job, NEW R, EnsureJobs(S, R)
        PROVE  [Ledger!Next]_(Ledger!ledger)
    BY <2>3, EnsureRefines
  <2> QED
    BY <2>1, <2>2, <2>3, StepRows
<1> QED
  BY <1>1, <1>2, SpeechRowsCorrect, PTL
     DEF SpeechSpec, SpeechKeepsLedger, ImplementsLedger, Ledger!Spec

-----------------------------------------------------------------------------
(* Who publishes.                                                          *)

\* No row becomes "succeeded" in this step.
NoSuccess == \A j \in Job : state'[j] = "succeeded" => state[j] = "succeeded"

\* A job succeeds, and a reference appears, in the commit of an upload only.
LEMMA OnlyCommitsPublish ==
    ASSUME SpeechInv, [SpeechNext]_speechVars
    PROVE  \/ /\ NoSuccess
              /\ \A j \in Job : ref'[j] \in {ref[j], NoBlob}
           \/ \E h \in Handler :
                 /\ At(h, "commit")
                 /\ Complete(calls[h].cred)
                 /\ Accepted(calls[h].cred.job, calls[h].digest)
<1> DEFINE Quietly == NoSuccess /\ \A j \in Job : ref'[j] \in {ref[j], NoBlob}
<1> USE DEF SpeechInv
<1>1. CASE UNCHANGED speechVars \/ Sweep \/ ForeignSweep \/ SchedulerStep
  <2>1. UNCHANGED ref
    BY <1>1 DEF speechVars, audioVars, Sweep, ForeignSweep, SchedulerStep
  <2>2. ASSUME SchedulerStep PROVE NoSuccess
    <3>1. UNCHANGED state \/ \E w \in Owner : RevokeLeases(w)
      BY <2>2 DEF SchedulerStep, LeaseExpires, BackoffElapses
    <3> QED
      BY <3>1 DEF RevokeLeases, NoSuccess
  <2>3. ASSUME Sweep \/ ForeignSweep PROVE NoSuccess
    <3>1. Expired \in SUBSET Expired /\ RecoverRows(Expired) /\ Expired \subseteq Job
      BY <2>3 DEF Sweep, ForeignSweep, RecoverExpired, Expired
    <3>2. \A j \in Job : state'[j] = state[j] \/ state'[j] \in {"queued", "failed"}
      BY <3>1, RecoverEffect
    <3> QED
      BY <3>2 DEF NoSuccess
  <2>4. ASSUME UNCHANGED speechVars PROVE NoSuccess
    BY <2>4 DEF speechVars, vars, NoSuccess
  <2> QED
    BY <1>1, <2>1, <2>2, <2>3, <2>4
<1>2. ASSUME NEW a \in Article,
             \/ CreateArticle(a) \/ QueueBlockPronunciations(a)
             \/ QueueArticleAudio(a) \/ ClearNarration(a)
      PROVE  Quietly
  <2>1. \A j \in Job : ref'[j] \in {ref[j], NoBlob}
    BY <1>2 DEF CreateArticle, QueueBlockPronunciations, QueueArticleAudio,
       ClearNarration, Ensure
  <2>2. NoSuccess
    BY <1>2 DEF CreateArticle, QueueBlockPronunciations, QueueArticleAudio, Ensure,
       EnsureJobs, ClearNarration, CancelRows, vars, NoSuccess
  <2> QED
    BY <2>1, <2>2
<1>3. ASSUME NEW c \in held, WorkerHeartbeat(c) PROVE Quietly
  <2>1. c \in issued
    OBVIOUS
  <2> QED
    BY <1>3, <2>1 DEF WorkerHeartbeat, Heartbeat, audioVars, NoSuccess, TypeOK
<1>4. ASSUME NEW h \in Handler, Request(h) \/ Disconnect(h) PROVE Quietly
  <2>1. UNCHANGED ref
    BY <1>4 DEF Request, Lease, ReportFailure, Upload, UploadCommon, Disconnect, audioVars
  <2>2. ASSUME NEW w \in Owner, Lease(h, w) PROVE NoSuccess
    <3>1. ClaimMatching(w)
      BY <2>2 DEF Lease
    <3>2. reconcileDependencyFailures(state) \in [Job -> States]
      BY ReconcileEffect DEF TypeOK
    <3>3. \A j \in Job : reconcileDependencyFailures(state)[j] = "succeeded"
                            => state[j] = "succeeded"
      BY ReconcileEffect DEF TypeOK
    <3> QED
      BY <3>1, <3>2, <3>3, ClaimEffect DEF Claim, Grant, NoSuccess
  <2>3. (\A w \in Owner : ~Lease(h, w)) => UNCHANGED state
    BY <1>4 DEF Request, ReportFailure, Upload, UploadCommon, Disconnect, vars
  <2> QED
    BY <2>1, <2>2, <2>3 DEF NoSuccess
<1>5. ASSUME NEW h \in Handler, CommitPrepared(h)
      PROVE  \/ Quietly
             \/ /\ At(h, "commit") /\ Complete(calls[h].cred)
                /\ Accepted(calls[h].cred.job, calls[h].digest)
  BY <1>5, CommitEffect DEF CommitPrepared, vars, NoSuccess
<1>6. ASSUME NEW h \in Handler, FailJob(h) PROVE Quietly
  <2>1. UNCHANGED state \/ \E c \in issued, s \in {"queued", "failed"} :
                                state' = [state EXCEPT ![c.job] = s]
    <3>1. calls[h].cred \in issued
      BY <1>6, HandlerAt DEF FailJob
    <3>2. \A c \in issued, retry \in BOOLEAN : Fail(c, retry) =>
             \E s \in {"queued", "failed"} : state' = [state EXCEPT ![c.job] = s]
      BY DEF Fail
    <3>3. calls[h].retry \in BOOLEAN
      BY <1>6, HandlerAt DEF FailJob
    <3> QED
      BY <1>6, <3>1, <3>2, <3>3 DEF FailJob, vars
  <2>2. UNCHANGED ref
    BY <1>6 DEF FailJob, audioVars
  <2> QED
    BY <2>1, <2>2 DEF NoSuccess, TypeOK
<1>7. ASSUME NEW h \in Handler,
             \/ Respond(h) \/ VerifyLease(h) \/ SetRenderGenerating(h) \/ PrepareWrite(h)
             \/ MarkRenderFailed(h) \/ Recompute(h) \/ UpdateStatus(h)
      PROVE  Quietly
  BY <1>7 DEF Respond, VerifyLease, SetRenderGenerating, PrepareWrite, MarkRenderFailed, Recompute,
     UpdateStatus, audioVars, vars, NoSuccess
<1> QED
  BY <1>1, <1>2, <1>3, <1>4, <1>5, <1>6, <1>7 DEF SpeechNext, HandlerStep

\* A job succeeds under a live lease only, in the commit that leaves its audio
\* referenced, and audio appears only then or when such an upload is repeated:
\* the commit compares attempt and token with the row, and by the lease
\* invariant these identify one lease.
THEOREM NoStaleWorkerPublishes == SpeechSpec => PublicationNeedsTheLease
<1> DEFINE Published == \A j \in Job :
              /\ state[j] # "succeeded" /\ state'[j] = "succeeded" => Active(j) /\ Live(j)
              /\ \/ ref[j] = NoBlob /\ ref'[j] # NoBlob
                 \/ state[j] # "succeeded" /\ state'[j] = "succeeded"
                 => /\ ref'[j] # NoBlob /\ state'[j] = "succeeded"
                    /\ \E h \in Handler : /\ At(h, "commit")
                                          /\ calls[h].cred = RowCredential(j)
                                          /\ calls[h].digest = ref'[j]
<1>1. RowsInv /\ [SpeechNext]_speechVars => [Published]_speechVars
  <2> SUFFICES ASSUME RowsInv, [SpeechNext]_speechVars PROVE Published
    OBVIOUS
  <2> USE DEF RowsInv
  <2>1. CASE NoSuccess /\ \A j \in Job : ref'[j] \in {ref[j], NoBlob}
    BY <2>1 DEF NoSuccess
  <2>2. ASSUME NEW h \in Handler, At(h, "commit"), Complete(calls[h].cred),
               Accepted(calls[h].cred.job, calls[h].digest)
        PROVE  Published
    <3> DEFINE c == calls[h].cred
               d == calls[h].digest
    <3>1. c \in issued /\ c.job \in Job /\ d \in Digest
      BY <2>2, HandlerAt
    <3>2. d # NoBlob
      BY <3>1, SpeechAssumption
    <3>3. \A j \in Job \ {c.job} : ref'[j] = ref[j] /\ state'[j] = state[j]
      BY <2>2 DEF Accepted, Complete, SpeechInv, AudioTypeOK, TypeOK
    <3>4. ref'[c.job] = d /\ state'[c.job] = "succeeded"
      BY <2>2, <3>1 DEF Accepted, Complete, SpeechInv, AudioTypeOK, TypeOK
    <3>5. Matches(c)
      BY <2>2 DEF Complete, CompletionApplies
    <3>6. c = RowCredential(c.job)
      BY <3>1, <3>5, MatchingCredential
    <3>7. state[c.job] # "succeeded" => Active(c.job) /\ Live(c.job)
      BY <2>2 DEF Complete, CompletionApplies
    <3> HIDE DEF c, d
    <3>8. At(h, "commit") /\ calls[h].cred = c /\ calls[h].digest = d
      BY <2>2 DEF c, d
    <3> QED
      BY <3>1, <3>2, <3>3, <3>4, <3>6, <3>7, <3>8
  <2> QED
    BY <2>1, <2>2, OnlyCommitsPublish
<1> QED
  BY <1>1, SpeechRowsCorrect, PTL DEF SpeechSpec, PublicationNeedsTheLease

-----------------------------------------------------------------------------
(* What a reader may play.                                                 *)

\* A narration is called ready for bound articles with ready renders only.
LEMMA ReadyStatus ==
    ASSUME NEW a \in Article, NEW B, NEW R, Status(a, B, R) = "ready"
    PROVE  a \in B /\ \A j \in Sentences[a] : R[j] = "ready"
BY DEF Status

\* A status is stored as it was, or computed from the renders and bindings that
\* the same transaction leaves behind, or "purged".
LEMMA NarrationChanges ==
    ASSUME SpeechInv, [SpeechNext]_speechVars, NEW a \in Article
    PROVE  narration'[a] \in {narration[a], Status(a, bound', render'), "purged"}
<1> USE DEF SpeechInv, AudioTypeOK
<1>1. CASE UNCHANGED speechVars \/ ForeignSweep \/ SchedulerStep
  BY <1>1 DEF speechVars, audioVars, ForeignSweep, SchedulerStep
<1>2. CASE Sweep
  BY <1>2 DEF Sweep, ReconcileTerminalJobs
<1>3. ASSUME NEW b \in Article,
             \/ CreateArticle(b) \/ QueueBlockPronunciations(b)
             \/ QueueArticleAudio(b) \/ ClearNarration(b)
      PROVE  narration'[a] \in {narration[a], Status(a, bound', render'), "purged"}
  BY <1>3 DEF CreateArticle, QueueBlockPronunciations, QueueArticleAudio, ClearNarration
<1>4. ASSUME NEW c \in held, WorkerHeartbeat(c) PROVE UNCHANGED narration
  BY <1>4 DEF WorkerHeartbeat, audioVars
<1>5. ASSUME NEW h \in Handler, Request(h) \/ Disconnect(h) PROVE UNCHANGED narration
  BY <1>5 DEF Request, Lease, ReportFailure, Upload, UploadCommon, Disconnect, audioVars
<1>6. ASSUME NEW h \in Handler, UpdateStatus(h)
      PROVE  narration'[a] \in {narration[a], Status(a, bound', render'), "purged"}
  BY <1>6 DEF UpdateStatus
<1>7. ASSUME NEW h \in Handler, HandlerStep(h), ~UpdateStatus(h) PROVE UNCHANGED narration
  BY <1>7 DEF HandlerStep, Respond, VerifyLease, SetRenderGenerating, PrepareWrite, CommitPrepared,
     MarkRenderFailed, FailJob, Recompute, audioVars
<1> QED
  BY <1>1, <1>2, <1>3, <1>4, <1>5, <1>6, <1>7 DEF SpeechNext

\* A ready render and a binding are given up by clearing a narration and by
\* nothing else: failures, sweeps and requests leave a ready render alone.
LEMMA ReadyRendersStay ==
    ASSUME SpeechInv, [SpeechNext]_speechVars
    PROVE  \/ /\ bound \subseteq bound'
              /\ \A j \in Job : render[j] = "ready" => render'[j] = "ready"
           \/ \E a \in Article : ClearNarration(a)
<1> DEFINE Stays == /\ bound \subseteq bound'
                    /\ \A j \in Job : render[j] = "ready" => render'[j] = "ready"
<1> USE DEF SpeechInv, AudioTypeOK
<1>1. CASE UNCHANGED speechVars \/ ForeignSweep \/ SchedulerStep
  BY <1>1 DEF speechVars, audioVars, ForeignSweep, SchedulerStep
<1>2. CASE Sweep
  BY <1>2 DEF Sweep, ReconcileTerminalJobs, Pending
<1>3. ASSUME NEW b \in Article,
             CreateArticle(b) \/ QueueBlockPronunciations(b) \/ QueueArticleAudio(b)
      PROVE  Stays
  BY <1>3 DEF CreateArticle, QueueBlockPronunciations, QueueArticleAudio, Ensure, EnsuredRender
<1>4. ASSUME NEW c \in held, WorkerHeartbeat(c) PROVE Stays
  BY <1>4 DEF WorkerHeartbeat, audioVars
<1>5. ASSUME NEW h \in Handler, Request(h) \/ Disconnect(h) PROVE Stays
  BY <1>5 DEF Request, Lease, ReportFailure, Upload, UploadCommon, Disconnect, audioVars
<1>6. ASSUME NEW h \in Handler, SetRenderGenerating(h) \/ MarkRenderFailed(h) PROVE Stays
  BY <1>6 DEF SetRenderGenerating, MarkRenderFailed, Pending
<1>7. ASSUME NEW h \in Handler, CommitPrepared(h) PROVE Stays
  BY <1>7 DEF CommitPrepared, Accepted
<1>8. ASSUME NEW h \in Handler,
             \/ Respond(h) \/ VerifyLease(h) \/ PrepareWrite(h) \/ FailJob(h)
             \/ Recompute(h) \/ UpdateStatus(h)
      PROVE  Stays
  BY <1>8 DEF Respond, VerifyLease, PrepareWrite, FailJob, Recompute, UpdateStatus, audioVars
<1> QED
  BY <1>1, <1>2, <1>3, <1>4, <1>5, <1>6, <1>7, <1>8 DEF SpeechNext, HandlerStep

\* No step leaves an article "ready" with a sentence that cannot be played.
LEMMA StepKeepsNarration ==
    ASSUME SpeechInv, SpeechInv', ReadyNarrationIsPlayable, [SpeechNext]_speechVars
    PROVE  ReadyNarrationIsPlayable'
<1> SUFFICES ASSUME NEW a \in Article, narration'[a] = "ready"
             PROVE  a \in bound' /\ \A j \in Sentences[a] : render'[j] = "ready"
  <2>1. \A b \in Article : \A j \in Sentences[b] : j \in Job
    BY SpeechAssumption
  <2> QED
    BY <2>1 DEF ReadyNarrationIsPlayable, SpeechInv, ReadyRendersHaveAudio
<1>1. \A j \in Sentences[a] : j \in Job
  BY SpeechAssumption
<1>2. CASE Status(a, bound', render') = "ready"
  BY <1>2, ReadyStatus
<1>3. CASE narration[a] = "ready"
  <2>1. a \in bound /\ \A j \in Sentences[a] : render[j] = "ready"
    BY <1>3 DEF ReadyNarrationIsPlayable
  <2>2. CASE /\ bound \subseteq bound'
             /\ \A j \in Job : render[j] = "ready" => render'[j] = "ready"
    BY <1>1, <2>1, <2>2
  <2>3. ASSUME NEW b \in Article, ClearNarration(b)
        PROVE  a \in bound' /\ \A j \in Sentences[a] : render'[j] = "ready"
    <3>1. a # b
      BY <2>3 DEF ClearNarration, SpeechInv, AudioTypeOK
    <3>2. \A j \in Sentences[a] : j \notin UnboundByClear(b)
      BY <2>1, <3>1 DEF UnboundByClear, Bindings
    <3> QED
      BY <1>1, <2>1, <2>3, <3>1, <3>2 DEF ClearNarration
  <2> QED
    BY <2>2, <2>3, ReadyRendersStay
<1> QED
  BY <1>2, <1>3, NarrationChanges

\* An article that calls its narration ready is played from the first sentence
\* to the last, for any number of articles that share sentences, although the
\* status is written in a transaction after the one that made a render ready.
THEOREM ReadyNarrationsPlay == SpeechSpec => []ReadyNarrationIsPlayable
<1>1. SpeechInit => ReadyNarrationIsPlayable
  BY DEF SpeechInit, ReadyNarrationIsPlayable
<1>2. SpeechInv /\ SpeechInv' /\ ReadyNarrationIsPlayable /\ [SpeechNext]_speechVars
         => ReadyNarrationIsPlayable'
  BY StepKeepsNarration
<1> QED
  BY <1>1, <1>2, SpeechCorrect, PTL DEF SpeechSpec
=============================================================================
