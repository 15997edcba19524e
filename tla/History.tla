------------------------------- MODULE History -------------------------------
(* What the history says of one attempt of an analysis job: its row in      *)
(* analysis_run, its stage attempts and their turns (internal/analysis:     *)
(* history.go, stage_history.go, the bookkeeping of pipeline_runner.go;     *)
(* internal/annotator: stage_executor.go).  Analysis.tla has the article    *)
(* and several attempts, Compile.tla what the stages say.                   *)
(*                                                                          *)
(* Every write is a statement of its own: storage may refuse it, and the    *)
(* process may end, or the lease be lost, before the next.                  *)
EXTENDS Integers, Sequences

CONSTANTS
    TotalParagraphs, \* paragraphs of the article, from 0
    Corrections,    \* maxStageCorrectiveTurns
    BypassCache,    \* whether the job asks for a fresh analysis
    Unrecorded,     \* no row
    MaxFaults,      \* bound: statements storage refuses
    MaxExits        \* bound: processes that end

StageName   == {"linguistic_analysis", "translation"}
Disposition == {"miss", "hit", "bypassed"}

\* Rows of analysis_run, and of analysis_stage_attempt with their turns.
RunRow     == [status : {"running", "succeeded", "failed"}, phase : {"running", "finished"},
               completed : Nat, failed_block : Int, failed_stage : {""} \cup StageName]
AttemptRow == [status : {"running", "succeeded", "failed"}, disposition : Disposition,
               turns : Seq({"accepted", "rejected", "failed"})]

ASSUME HistoryAssumption ==
    /\ TotalParagraphs \in Nat \ {0} /\ Corrections \in Nat /\ BypassCache \in BOOLEAN
    /\ Unrecorded \notin RunRow \cup AttemptRow

VARIABLES
    leased,      \* the job: leased to the runner, to be retried, or ended
    runRow,      \* analysis_run
    stageRow,    \* analysis_stage_attempt and its turns, per paragraph and stage
    doing,        \* what the runner does next
    place,       \* the paragraph and stage it is at
    outcome,     \* cache disposition of the stage
    counted,     \* completedParagraphs
    blame,       \* block and stage a failure is reported with
    faults, exits

histories == <<runRow, stageRow>>
memory    == <<place, outcome, counted, blame>>
historyVars == <<leased, histories, doing, memory, faults, exits>>

Place     == (0 .. TotalParagraphs - 1) \X StageName
Here      == place[1]
Owns      == leased = "leased"
Up        == doing \notin {"down", "recovering"}

FirstPlace == <<0, "linguistic_analysis">>
Nobody     == <<-1, "">>

\* The runner's memory ends with the run, or with the process.
Forget == place' = FirstPlace /\ outcome' = "miss" /\ counted' = 0 /\ blame' = Nobody

HistoryInit ==
    /\ leased = "leased" /\ doing = "claimed"
    /\ runRow = Unrecorded
    /\ stageRow = [p \in Place |-> Unrecorded]
    /\ place = FirstPlace
    /\ outcome = "miss"
    /\ counted = 0 /\ blame = Nobody
    /\ faults = 0 /\ exits = 0

-----------------------------------------------------------------------------
(* Statements.                                                              *)

\* Storage takes the statement, or refuses it and the runner goes another way.
Takes(next)   == doing' = next /\ UNCHANGED <<leased, faults, exits>>
Refuses(next) == /\ faults < MaxFaults /\ faults' = faults + 1
                 /\ doing' = next /\ UNCHANGED <<leased, histories, exits>>

\* failRun is called with the paragraph and stage to blame.
Blames(p, stage) == blame' = <<p, stage>> /\ UNCHANGED <<place, outcome, counted>>

\* The heartbeat gives the run up when the job is no longer its own, or when
\* the database did not answer.
Lost(next) == IF Owns THEN Refuses(next) ELSE Takes(next) /\ UNCHANGED histories

CheckOwnership(at, next) ==
    /\ doing = at
    /\ \/ Owns /\ Takes(next) /\ UNCHANGED <<histories, memory>>
       \/ Lost("lost") /\ UNCHANGED memory

-----------------------------------------------------------------------------
(* The run's own row.                                                       *)

StartAnalysisRun ==
    /\ doing = "claimed"
    /\ \/ /\ runRow' = [status |-> "running", phase |-> "running", completed |-> 0,
                        failed_block |-> -1, failed_stage |-> ""]
          /\ Takes("provenance") /\ UNCHANGED stageRow
       \/ Refuses("failjob")
    /\ UNCHANGED memory

SetRunPipelineProvenance ==
    /\ doing = "provenance"
    /\ \/ Takes("owned") /\ UNCHANGED histories
       \/ Refuses("failjob")
    /\ UNCHANGED memory

UpdateProgress(failed) == runRow' = [runRow EXCEPT !.completed = counted, !.failed_block = failed]

\* The run is closed whatever it was before.
FinishAnalysisRun(status, failed) ==
    runRow' = [runRow EXCEPT !.status = status, !.phase = "finished",
                             !.completed = counted, !.failed_block = failed]

-----------------------------------------------------------------------------
(* A stage of a paragraph.                                                  *)

Checks == \/ CheckOwnership("owned", "paragraph")
          \/ CheckOwnership("erred", "unsuccessful")
          \/ CheckOwnership("checked", "successful")
          \/ CheckOwnership("merged", "publish")
          \/ CheckOwnership("audited", "ready")

\* MarkBlockProcessing and PrepareChunk.
BeginParagraph ==
    /\ doing = "paragraph"
    /\ \/ Takes("attempt") /\ UNCHANGED <<histories, memory>>
       \/ \E stage \in {"", "linguistic_analysis"} :
             Refuses("failrun") /\ Blames(Here, stage)

StartStageAttempt ==
    /\ doing = "attempt"
    /\ \/ /\ stageRow' = [stageRow EXCEPT ![place] =
                             [status |-> "running", disposition |-> "miss", turns |-> <<>>]]
          /\ Takes("stage") /\ UNCHANGED <<runRow, memory>>
       \/ Refuses("failrun") /\ Blames(Here, "")

Outcome(disposition) == outcome' = disposition /\ UNCHANGED <<place, counted, blame>>

\* A validated artifact of the cache, or a provider's session, after another
\* look at the lease; a fresh analysis does not look into the cache.
RunStage ==
    /\ doing = "stage"
    /\ \/ ~BypassCache /\ Takes("checked") /\ Outcome("hit")
       \/ /\ \/ Owns /\ Takes("turn")
             \/ Takes("erred")
          /\ Outcome(IF BypassCache THEN "bypassed" ELSE "miss")
    /\ UNCHANGED histories

\* recordTurn: the turn is kept before it is acted on.  A run whose context
\* ended cannot write it.
Turn(result) ==
    LET turns == Append(stageRow[place].turns, result)
        next  == CASE result = "accepted" -> "accepted"
                   [] result = "rejected" /\ Len(turns) <= Corrections -> "turn"
                   [] OTHER -> "erred"
    IN  /\ doing = "turn"
        /\ \/ stageRow' = [stageRow EXCEPT ![place].turns = turns]
              /\ Takes(next) /\ UNCHANGED runRow
           \/ Lost("erred")
        /\ UNCHANGED memory

\* Merging or validating as a whole, the lease, or the cache write may still
\* fail.
KeepArtifact ==
    /\ doing = "accepted"
    /\ \/ Owns /\ Takes("checked")
       \/ Takes("erred")
    /\ UNCHANGED <<histories, memory>>

\* finishStage writes the disposition, then the end of the attempt.
WriteDisposition ==
    \E at \in {"successful", "unsuccessful"} :
        /\ doing = at
        /\ \/ /\ stageRow' = [stageRow EXCEPT ![place].disposition = outcome]
              /\ Takes(IF at = "successful" THEN "succeeding" ELSE "ending")
              /\ UNCHANGED <<runRow, memory>>
           \/ /\ Refuses("failrun")
              /\ Blames(Here, IF at = "successful" THEN "" ELSE place[2])

NextPlace == IF place[2] = "linguistic_analysis" THEN <<Here, "translation">>
             ELSE IF Here + 1 < TotalParagraphs THEN <<Here + 1, "linguistic_analysis">>
             ELSE place

\* Faulty: an attempt whose end is not written counts as ended.
FinishStageAnyway ==
    /\ doing = "succeeding"
    /\ \/ stageRow' = [stageRow EXCEPT ![place].status = "succeeded"]
          /\ UNCHANGED <<leased, runRow, faults, exits>>
       \/ faults < MaxFaults /\ faults' = faults + 1 /\ UNCHANGED <<leased, histories, exits>>
    /\ doing' = IF place[2] = "translation" THEN "namespace" ELSE "attempt"
    /\ place' = IF place[2] = "translation" THEN place ELSE NextPlace
    /\ UNCHANGED <<outcome, counted, blame>>

FinishStage ==
    /\ doing = "succeeding"
    /\ \/ /\ stageRow' = [stageRow EXCEPT ![place].status = "succeeded"]
          /\ Takes(IF place[2] = "translation" THEN "namespace" ELSE "attempt")
          /\ place' = IF place[2] = "translation" THEN place ELSE NextPlace
          /\ UNCHANGED <<runRow, outcome, counted, blame>>
       \/ Refuses("failrun") /\ Blames(Here, "")

\* finishStageAndFail: the run fails with the stage whether or not the
\* attempt's end is written.
FinishStageAndFail ==
    /\ doing = "ending"
    /\ \/ /\ stageRow' = [stageRow EXCEPT ![place].status = "failed"]
          /\ Takes("failrun") /\ UNCHANGED runRow
       \/ Refuses("failrun")
    /\ Blames(Here, place[2])

\* Namespacing and validating the merged answer, before the lease is checked.
Namespace ==
    /\ doing = "namespace"
    /\ \/ Takes("merged") /\ UNCHANGED memory
       \/ Takes("failrun") /\ Blames(Here, "translation")
    /\ UNCHANGED histories

PublishParagraph ==
    /\ doing = "publish"
    /\ \/ Takes("progress") /\ counted' = Here + 1 /\ UNCHANGED <<place, outcome, blame>>
       \/ Takes("failrun") /\ Blames(Here, "translation")
    /\ UNCHANGED histories

CountParagraph ==
    /\ doing = "progress"
    /\ \/ UpdateProgress(-1) /\ Takes("beat") /\ UNCHANGED <<stageRow, memory>>
       \/ Refuses("failrun") /\ Blames(Here, "")

BeatParagraph ==
    /\ doing = "beat"
    /\ \/ /\ Owns
          /\ Takes(IF Here + 1 < TotalParagraphs THEN "owned" ELSE "audit")
          /\ place' = NextPlace /\ UNCHANGED <<histories, outcome, counted, blame>>
       \/ Lost("lost") /\ UNCHANGED memory

\* MergeChunks blames the paragraph after the last.
AuditArticle ==
    /\ doing = "audit"
    /\ \/ Takes("audited") /\ UNCHANGED memory
       \/ Takes("failrun") /\ Blames(counted, "translation")
    /\ UNCHANGED histories

ReadyArticle ==
    /\ doing = "ready"
    /\ \/ Takes("succeed") /\ UNCHANGED memory
       \/ Takes("failrun") /\ Blames(-1, "")
    /\ UNCHANGED histories

SucceedRun ==
    /\ doing = "succeed"
    /\ \/ FinishAnalysisRun("succeeded", -1) /\ Takes("complete") /\ UNCHANGED stageRow
       \/ Refuses("failjob")
    /\ UNCHANGED memory

-----------------------------------------------------------------------------
(* Failing: what failRun cannot write, it passes over.                      *)

FailProgress ==
    /\ doing = "failrun"
    /\ \/ UpdateProgress(blame[1]) /\ Takes("failstage") /\ UNCHANGED stageRow
       \/ Refuses("failstage")
    /\ UNCHANGED memory

SetRunPipelineFailure ==
    /\ doing = "failstage"
    /\ \/ /\ runRow' = IF blame[2] = "" THEN runRow ELSE [runRow EXCEPT !.failed_stage = blame[2]]
          /\ Takes("failfinish") /\ UNCHANGED stageRow
       \/ blame[2] # "" /\ Refuses("failfinish")
    /\ UNCHANGED memory

FailRow ==
    /\ doing \in {"failfinish", "lost"}
    /\ \/ /\ FinishAnalysisRun("failed", IF doing = "lost" THEN Here ELSE blame[1])
          /\ Takes("failjob") /\ UNCHANGED stageRow
       \/ Refuses("failjob")
    /\ UNCHANGED memory

\* The job ends as far as it is still the runner's; what then happens to it
\* is no business of this run.
ReturnJob ==
    /\ doing \in {"complete", "failjob"}
    /\ doing' = "idle"
    /\ leased' \in IF ~Owns THEN {leased}
                   ELSE IF doing = "complete" THEN {"ended"} ELSE {"queued", "ended"}
    /\ Forget
    /\ UNCHANGED <<histories, faults, exits>>

-----------------------------------------------------------------------------
(* Around the runner.                                                       *)

\* The lease expires, or an owner cancels; a job to be retried ends later.
LoseJob ==
    /\ leased \in {"leased", "queued"}
    /\ leased' \in {"queued", "ended"} \ {leased}
    /\ UNCHANGED <<histories, doing, memory, faults, exits>>

\* Each of the three runners sweeps the runs of ended jobs.
ReconcileTerminalRun ==
    /\ Up
    /\ leased = "ended" /\ runRow # Unrecorded /\ runRow.status = "running"
    /\ runRow' = [runRow EXCEPT !.status = "failed", !.phase = "finished"]
    /\ UNCHANGED <<leased, stageRow, doing, memory, faults, exits>>

Exit ==
    /\ doing # "down" /\ exits < MaxExits
    /\ exits' = exits + 1 /\ doing' = "down"
    /\ Forget
    /\ UNCHANGED <<leased, histories, faults>>

\* reader.RecoverInterrupted closes open runs but leaves their phase; the
\* stage attempts have a statement of their own.
RecoverInterruptedRuns ==
    /\ doing = "down"
    /\ runRow' = IF runRow # Unrecorded /\ runRow.status = "running"
                 THEN [runRow EXCEPT !.status = "failed"] ELSE runRow
    /\ doing' = "recovering"
    /\ UNCHANGED <<leased, stageRow, memory, faults, exits>>

RecoverInterruptedStageAttempts ==
    /\ doing = "recovering"
    /\ stageRow' = [p \in Place |->
                       IF stageRow[p] # Unrecorded /\ stageRow[p].status = "running"
                       THEN [stageRow[p] EXCEPT !.status = "failed"] ELSE stageRow[p]]
    /\ doing' = "idle"
    /\ UNCHANGED <<leased, runRow, memory, faults, exits>>

HistoryNext ==
    \/ StartAnalysisRun \/ SetRunPipelineProvenance
    \/ Checks \/ BeginParagraph \/ StartStageAttempt \/ RunStage
    \/ \E result \in {"accepted", "rejected", "failed"} : Turn(result)
    \/ KeepArtifact \/ WriteDisposition \/ FinishStage \/ FinishStageAndFail
    \/ Namespace \/ PublishParagraph \/ CountParagraph \/ BeatParagraph
    \/ AuditArticle \/ ReadyArticle \/ SucceedRun
    \/ FailProgress \/ SetRunPipelineFailure \/ FailRow \/ ReturnJob
    \/ LoseJob \/ ReconcileTerminalRun
    \/ Exit \/ RecoverInterruptedRuns \/ RecoverInterruptedStageAttempts

HistorySpec == HistoryInit /\ [][HistoryNext]_historyVars

-----------------------------------------------------------------------------

\* An attempt that succeeded was a cache hit, or its last turn alone was accepted.
WholeAttempt(p) ==
    LET row == stageRow[p] turns == row.turns IN
    /\ row # Unrecorded
    /\ row.status = "succeeded"
    /\ IF row.disposition = "hit" THEN turns = <<>>
       ELSE /\ Len(turns) \in 1 .. Corrections + 1
            /\ \A i \in 1 .. Len(turns) : (turns[i] = "accepted") = (i = Len(turns))

EarlierPlace(p, q) == p[1] < q[1] \/ (p[1] = q[1] /\ p[2] = "linguistic_analysis" /\ q[2] = "translation")

\* What the history shows an owner of a run is what happened in it: the
\* paragraphs it counts as done had both stages succeed, a succeeded run did
\* them all and names no failure, the linguistic stage it names as failed did
\* not succeed, and its attempts are in the order of the work, whatever
\* storage refused and wherever the process ended (pipeline_runner.go,
\* stage_history.go).
RunsTellTheTruth ==
    /\ runRow # Unrecorded =>
        /\ \A p \in Place : p[1] < runRow.completed => WholeAttempt(p)
        /\ runRow.status = "succeeded" =>
              runRow.completed = TotalParagraphs /\ runRow.failed_block = -1 /\ runRow.failed_stage = ""
        /\ \A p \in Place :
              p = <<runRow.failed_block, "linguistic_analysis">> /\ p[2] = runRow.failed_stage
              => stageRow[p] = Unrecorded \/ stageRow[p].status # "succeeded"
    /\ \A p, q \in Place :
          EarlierPlace(p, q) /\ stageRow[q] # Unrecorded => WholeAttempt(p)
=============================================================================
