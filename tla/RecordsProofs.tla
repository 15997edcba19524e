---------------------------- MODULE RecordsProofs ----------------------------
(* Theorems about what is recorded of an attempt of an analysis (History),  *)
(* about the conversations it records (Sessions) and about the senses of    *)
(* the answers it publishes (Compile).                                      *)
EXTENDS History, Sessions, Compile, TLAPS

-----------------------------------------------------------------------------
(* The history: its rows and the runner's memory.                          *)

USE HistoryAssumption

HistoryTypeOK ==
    /\ leased \in {"leased", "queued", "ended"}
    /\ runRow \in RunRow \cup {Unrecorded}
    /\ stageRow \in [Place -> AttemptRow \cup {Unrecorded}]
    /\ place \in Place
    /\ outcome \in Disposition
    /\ counted \in Nat
    /\ blame \in Int \X ({""} \cup StageName)

\* Where the runner may be: at a paragraph before its attempt, in the attempt,
\* after both attempts, at the whole article, and failing.
BeforeAttempt == {"claimed", "provenance", "owned", "paragraph", "attempt"}
Attempting    == {"stage", "turn", "accepted", "checked", "successful", "succeeding",
                  "erred", "unsuccessful", "ending"}
Merging       == {"namespace", "merged", "publish"}
Counting1     == {"progress", "beat"}
Finishing     == {"audit", "audited", "ready", "succeed"}
Working       == BeforeAttempt \cup Attempting \cup Merging \cup Counting1 \cup Finishing
Failing       == {"failrun", "failstage", "failfinish"}

\* The turns of an attempt a provider was asked for: refused ones, then one
\* that was accepted.
AllRejected(said) == \A i \in 1 .. Len(said) : said[i] = "rejected"
Conclusive(said) ==
    /\ Len(said) \in 1 .. Corrections + 1
    /\ \A i \in 1 .. Len(said) : (said[i] = "accepted") = (i = Len(said))

\* The runner's place divides the work: whole attempts before it, none after.
WorkIsInOrder ==
    /\ \A p, q \in Place : EarlierPlace(p, q) /\ stageRow[q] # Unrecorded => WholeAttempt(p)
    /\ doing \in Working => \A p \in Place :
          /\ EarlierPlace(p, place) => WholeAttempt(p)
          /\ EarlierPlace(place, p) => stageRow[p] = Unrecorded

\* The attempt at the runner's place is as far as the runner is.
AttemptIsCurrent ==
    LET row == stageRow[place] IN
    /\ doing \in BeforeAttempt => row = Unrecorded
    /\ doing \in BeforeAttempt \ {"attempt"} => place[2] = "linguistic_analysis"
    /\ doing \in Attempting => row # Unrecorded /\ row.status = "running"
    /\ doing = "stage" => row.turns = <<>>
    /\ doing = "turn" => outcome # "hit" /\ Len(row.turns) <= Corrections /\ AllRejected(row.turns)
    /\ doing = "accepted" => outcome # "hit" /\ Conclusive(row.turns)
    /\ doing \in {"checked", "successful", "succeeding"} =>
          IF outcome = "hit" THEN row.turns = <<>> ELSE Conclusive(row.turns)
    /\ doing = "succeeding" => row.disposition = outcome
    /\ doing \in Merging \cup Counting1 \cup Finishing =>
          place[2] = "translation" /\ WholeAttempt(place)

\* completedParagraphs counts whole paragraphs.
CountIsTrue ==
    /\ \A p \in Place : p[1] < counted => WholeAttempt(p)
    /\ doing \in BeforeAttempt \cup Attempting \cup Merging => counted = Here
    /\ doing \in Counting1 => counted = Here + 1
    /\ doing \in Finishing => counted = TotalParagraphs

\* A linguistic attempt that gets the blame did not succeed.
BlameIsTrue ==
    doing \in Failing /\ blame[2] = "linguistic_analysis" =>
        \A p \in Place : p = <<blame[1], "linguistic_analysis">> =>
            stageRow[p] = Unrecorded \/ stageRow[p].status # "succeeded"

\* How far the row of the run is.
RowFollows ==
    /\ doing \in (Working \cup Failing \cup {"lost", "complete"}) \ {"claimed"} => runRow # Unrecorded
    /\ runRow # Unrecorded =>
        /\ doing \in Working \cup {"failrun", "lost"} => runRow.failed_block = -1
        /\ doing \in Working \cup {"failrun", "failstage", "lost"} => runRow.failed_stage = ""
        /\ doing = "failstage" => runRow.failed_block \in {-1, blame[1]}
        /\ doing = "failfinish" => runRow.failed_stage \in {"", blame[2]}
        /\ runRow.status = "succeeded" => doing \in {"complete", "idle", "down", "recovering"}

HistoryInv ==
    /\ HistoryTypeOK
    /\ WorkIsInOrder
    /\ AttemptIsCurrent
    /\ CountIsTrue
    /\ BlameIsTrue
    /\ RowFollows
    /\ RunsTellTheTruth

\* Places are pairs.
LEMMA Places ==
    \A p \in Place : /\ p[1] \in Nat /\ p[1] < TotalParagraphs /\ p[2] \in StageName
                     /\ p = <<p[1], p[2]>>
                     /\ ~EarlierPlace(p, p)
<1>1. ASSUME NEW p \in Place
      PROVE  /\ p[1] \in Nat /\ p[1] < TotalParagraphs /\ p[2] \in StageName
             /\ p = <<p[1], p[2]>>
  BY SMT DEF Place
<1>2. ASSUME NEW p \in Place PROVE ~EarlierPlace(p, p)
  BY <1>1 DEF EarlierPlace
<1> QED
  BY <1>1, <1>2

\* What is blamed may be no place at all.
LEMMA NoPlace ==
    /\ FirstPlace \in Place
    /\ Nobody \in Int \X ({""} \cup StageName)
    /\ -1 \in Int
    /\ \A p \in Place : p # <<-1, "linguistic_analysis">>
<1>1. -1 \in Int /\ 0 \in 0 .. TotalParagraphs - 1
  OBVIOUS
<1>2. FirstPlace \in Place
  BY <1>1 DEF Place, FirstPlace, StageName
<1>3. Nobody \in Int \X ({""} \cup StageName)
  BY <1>1 DEF Nobody
<1>4. ASSUME NEW p \in Place, p = <<-1, "linguistic_analysis">> PROVE FALSE
  <2>1. p[1] \in Nat
    BY Places
  <2>2. p[1] = -1
    BY <1>4
  <2> QED
    BY <2>1, <2>2
<1> QED
  BY <1>1, <1>2, <1>3, <1>4

\* Any block and any stage may get the blame.
LEMMA Blamed ==
    ASSUME NEW i \in Int, NEW stage \in {""} \cup StageName
    PROVE  <<i, stage>> \in Int \X ({""} \cup StageName)
OBVIOUS

\* A row that stays stays whole.
LEMMA WholeStays ==
    ASSUME NEW p \in Place, stageRow'[p] = stageRow[p]
    PROVE  WholeAttempt(p)' <=> WholeAttempt(p)
BY DEF WholeAttempt

\* Steps that write no row: the runner goes on, fails, loses its lease or ends.
LEMMA QuietKeepsHistoryInv ==
    ASSUME HistoryInv, UNCHANGED histories, HistoryTypeOK',
           WorkIsInOrder', AttemptIsCurrent', CountIsTrue', BlameIsTrue', RowFollows'
    PROVE  HistoryInv'
<1>1. \A p \in Place : WholeAttempt(p)' <=> WholeAttempt(p)
  BY WholeStays DEF histories
<1>2. RunsTellTheTruth'
  BY <1>1 DEF HistoryInv, RunsTellTheTruth, histories
<1> QED
  BY <1>2 DEF HistoryInv

\* The moves that change nothing but where the runner is.
Onward == {<<"provenance", "owned">>, <<"owned", "paragraph">>, <<"paragraph", "attempt">>,
           <<"erred", "unsuccessful">>, <<"checked", "successful">>, <<"merged", "publish">>,
           <<"audited", "ready">>, <<"namespace", "merged">>, <<"audit", "audited">>,
           <<"ready", "succeed">>, <<"turn", "erred">>, <<"accepted", "erred">>,
           <<"accepted", "checked">>, <<"failrun", "failstage">>, <<"failstage", "failfinish">>,
           <<"down", "recovering">>}

\* The next check, statement or stage, with the same rows and memory.
LEMMA GoingOn ==
    ASSUME HistoryInv, UNCHANGED <<histories, memory>>, leased' \in {"leased", "queued", "ended"},
           \/ <<doing, doing'>> \in Onward
           \/ doing' = doing
           \/ doing \in Working \ {"claimed"} /\ doing' = "lost"
           \/ doing \in Working \cup {"failfinish", "lost"} /\ doing' = "failjob"
    PROVE  HistoryInv'
<1> USE DEF BeforeAttempt, Attempting, Merging, Counting1, Finishing, Working, Failing, Here
<1>1. /\ UNCHANGED <<runRow, stageRow, place, outcome, counted, blame>>
      /\ \A p \in Place : WholeAttempt(p)' <=> WholeAttempt(p)
      /\ place \in Place
  BY WholeStays DEF histories, memory, HistoryInv, HistoryTypeOK
<1>2. HistoryTypeOK'
  BY <1>1 DEF HistoryInv, HistoryTypeOK
<1>3. doing' \in Working => doing \in Working
  BY DEF Onward
<1>4. WorkIsInOrder'
  BY <1>1, <1>3 DEF HistoryInv, WorkIsInOrder
<1>5. AttemptIsCurrent'
  BY <1>1 DEF HistoryInv, AttemptIsCurrent, Onward
<1>6. CountIsTrue'
  BY <1>1 DEF HistoryInv, CountIsTrue, Onward
<1>7. BlameIsTrue'
  BY <1>1 DEF HistoryInv, BlameIsTrue, Onward
<1>8. RowFollows'
  BY <1>1 DEF HistoryInv, RowFollows, Onward
<1> QED
  BY <1>1, <1>2, <1>4, <1>5, <1>6, <1>7, <1>8, QuietKeepsHistoryInv DEF histories

\* The runner's memory goes with the run or the process.
LEMMA Forgetting ==
    ASSUME HistoryInv, UNCHANGED histories, Forget, leased' \in {"leased", "queued", "ended"},
           doing' \in {"idle", "down"}, doing \notin {"idle", "down", "recovering"} \/ doing' = "down"
    PROVE  HistoryInv'
<1> USE DEF BeforeAttempt, Attempting, Merging, Counting1, Finishing, Working, Failing, Here
<1>1. /\ UNCHANGED <<runRow, stageRow>>
      /\ \A p \in Place : WholeAttempt(p)' <=> WholeAttempt(p)
  BY WholeStays DEF histories
<1>2. HistoryTypeOK'
  BY <1>1, NoPlace DEF HistoryInv, HistoryTypeOK, Forget, Disposition
<1>3. WorkIsInOrder' /\ AttemptIsCurrent'
  BY <1>1 DEF HistoryInv, WorkIsInOrder, AttemptIsCurrent
<1>4. CountIsTrue'
  BY <1>1 DEF HistoryInv, CountIsTrue, Forget, Place
<1>5. BlameIsTrue' /\ RowFollows'
  BY <1>1 DEF HistoryInv, BlameIsTrue, RowFollows
<1> QED
  BY <1>2, <1>3, <1>4, <1>5, QuietKeepsHistoryInv

\* failRun gets a block and a stage to blame.
LEMMA GivingUp ==
    ASSUME HistoryInv, UNCHANGED <<histories, place, outcome, counted>>,
           leased' \in {"leased", "queued", "ended"},
           doing \in Working \ {"claimed"}, doing' = "failrun", blame' \in Int \X ({""} \cup StageName),
           blame'[2] = "linguistic_analysis" =>
              /\ blame'[1] = Here /\ place[2] = "linguistic_analysis"
              /\ doing \in BeforeAttempt \cup Attempting
    PROVE  HistoryInv'
<1> USE DEF BeforeAttempt, Attempting, Merging, Counting1, Finishing, Working, Failing, Here
<1>1. /\ UNCHANGED <<runRow, stageRow, place, outcome, counted>>
      /\ \A p \in Place : WholeAttempt(p)' <=> WholeAttempt(p)
      /\ place \in Place
  BY WholeStays DEF histories, HistoryInv, HistoryTypeOK
<1>2. HistoryTypeOK'
  BY <1>1 DEF HistoryInv, HistoryTypeOK
<1>3. WorkIsInOrder' /\ AttemptIsCurrent' /\ CountIsTrue'
  BY <1>1 DEF HistoryInv, WorkIsInOrder, AttemptIsCurrent, CountIsTrue
<1>4. BlameIsTrue'
  <2>1. place = <<Here, place[2]>>
    BY <1>1, Places
  <2>2. doing \in BeforeAttempt \cup Attempting =>
           stageRow[place] = Unrecorded \/ stageRow[place].status # "succeeded"
    BY DEF HistoryInv, AttemptIsCurrent
  <2> QED
    BY <1>1, <2>1, <2>2 DEF BlameIsTrue
<1>5. RowFollows'
  BY <1>1 DEF HistoryInv, RowFollows
<1> QED
  BY <1>1, <1>2, <1>3, <1>4, <1>5, QuietKeepsHistoryInv

-----------------------------------------------------------------------------
(* Steps that write the row of an attempt.                                 *)

\* Only the row at the runner's place changes, and only while it runs: whole
\* attempts stay whole, and so do the order and the count of them.
LEMMA WritingHere ==
    ASSUME HistoryInv, NEW row \in AttemptRow,
           doing \in {"attempt"} \cup Attempting,
           stageRow' = [stageRow EXCEPT ![place] = row],
           UNCHANGED <<runRow, outcome, counted>>,
           leased' \in {"leased", "queued", "ended"}
    PROVE  /\ \A p \in Place : p # place => /\ stageRow'[p] = stageRow[p]
                                            /\ WholeAttempt(p)' <=> WholeAttempt(p)
           /\ \A p \in Place : WholeAttempt(p) => p # place /\ WholeAttempt(p)'
           /\ stageRow' \in [Place -> AttemptRow \cup {Unrecorded}]
           /\ stageRow'[place] = row /\ row # Unrecorded /\ place \in Place
           /\ \A p, q \in Place : EarlierPlace(p, q) /\ stageRow'[q] # Unrecorded => WholeAttempt(p)'
           /\ \A p \in Place : EarlierPlace(p, place) => WholeAttempt(p)'
           /\ \A p \in Place : EarlierPlace(place, p) => stageRow'[p] = Unrecorded
           /\ \A p \in Place : p[1] < counted => WholeAttempt(p)'
<1>1. /\ stageRow \in [Place -> AttemptRow \cup {Unrecorded}] /\ place \in Place /\ doing \in Working
      /\ row # Unrecorded
  BY DEF HistoryInv, HistoryTypeOK, Working, BeforeAttempt
<1>2. /\ \A p \in Place : p # place => stageRow'[p] = stageRow[p]
      /\ stageRow'[place] = row
      /\ stageRow' \in [Place -> AttemptRow \cup {Unrecorded}]
  BY <1>1
<1>3. \A p \in Place : p # place => WholeAttempt(p)' <=> WholeAttempt(p)
  BY <1>2, WholeStays
<1>4. ~WholeAttempt(place)
  BY DEF HistoryInv, AttemptIsCurrent, BeforeAttempt, WholeAttempt
<1>5. \A p \in Place : ~EarlierPlace(p, p)
  BY Places DEF EarlierPlace
<1>6. \A p \in Place : EarlierPlace(p, place) => WholeAttempt(p) /\ p # place
  BY <1>1, <1>5 DEF HistoryInv, WorkIsInOrder
<1>7. \A p \in Place : EarlierPlace(place, p) => stageRow[p] = Unrecorded /\ p # place
  BY <1>1, <1>5 DEF HistoryInv, WorkIsInOrder
<1>8. ASSUME NEW p \in Place, NEW q \in Place, EarlierPlace(p, q), stageRow'[q] # Unrecorded
      PROVE  WholeAttempt(p)'
  <2>1. CASE q = place
    BY <1>3, <1>6, <1>8, <2>1
  <2>2. CASE q # place
    BY <1>2, <1>3, <1>4, <1>8, <2>2 DEF HistoryInv, WorkIsInOrder
  <2> QED
    BY <2>1, <2>2
<1>9. \A p \in Place : p[1] < counted => WholeAttempt(p)'
  BY <1>3, <1>4 DEF HistoryInv, CountIsTrue
<1> QED
  BY <1>1, <1>2, <1>3, <1>4, <1>6, <1>7, <1>8, <1>9

\* The row of the run says nothing of an attempt that runs.
LEMMA WritingHereIsTrue ==
    ASSUME HistoryInv, NEW row \in AttemptRow,
           doing \in {"attempt"} \cup Attempting,
           stageRow' = [stageRow EXCEPT ![place] = row],
           UNCHANGED <<runRow, outcome, counted>>,
           leased' \in {"leased", "queued", "ended"}
    PROVE  RunsTellTheTruth'
<1>1. doing \in Working
  BY DEF Working, BeforeAttempt
<1>2. runRow # Unrecorded => runRow.failed_block = -1 /\ runRow.status # "succeeded"
  BY <1>1 DEF HistoryInv, RowFollows, Working, BeforeAttempt, Attempting, Merging, Counting1, Finishing
<1>3. \A p \in Place : p # <<-1, "linguistic_analysis">>
  BY NoPlace
<1>4. \A p \in Place : runRow # Unrecorded /\ p[1] < runRow.completed => WholeAttempt(p)'
  BY WritingHere DEF HistoryInv, RunsTellTheTruth
<1>5. \A p \in Place : p = <<runRow.failed_block, "linguistic_analysis">> /\ runRow # Unrecorded => FALSE
  BY <1>2, <1>3
<1>6. \A p, q \in Place : EarlierPlace(p, q) /\ stageRow'[q] # Unrecorded => WholeAttempt(p)'
  BY WritingHere
<1> QED
  BY <1>2, <1>4, <1>5, <1>6 DEF RunsTellTheTruth

\* The row of an attempt is inserted, and its turns, its disposition and its
\* end are written into it.
LEMMA AttemptKeepsHistoryInv ==
    ASSUME HistoryInv, NEW row \in AttemptRow,
           stageRow' = [stageRow EXCEPT ![place] = row],
           UNCHANGED <<leased, runRow, memory>>,
           \/ doing = "attempt" /\ doing' = "stage" /\ row.status = "running" /\ row.turns = <<>>
           \/ /\ doing \in Attempting /\ row.status = "running"
              /\ \/ doing' = "erred"
                 \/ doing' = "turn" /\ outcome # "hit" /\ Len(row.turns) <= Corrections /\ AllRejected(row.turns)
                 \/ doing' = "accepted" /\ outcome # "hit" /\ Conclusive(row.turns)
                 \/ /\ doing' = "succeeding" /\ row.disposition = outcome
                    /\ IF outcome = "hit" THEN row.turns = <<>> ELSE Conclusive(row.turns)
                 \/ doing' = "ending"
    PROVE  HistoryInv'
<1> USE DEF BeforeAttempt, Attempting, Merging, Counting1, Finishing, Working, Failing, Here
<1>1. /\ doing \in {"attempt"} \cup Attempting /\ UNCHANGED <<runRow, place, outcome, counted, blame>>
      /\ leased' \in {"leased", "queued", "ended"}
  BY DEF HistoryInv, HistoryTypeOK, memory
<1>2. /\ stageRow' \in [Place -> AttemptRow \cup {Unrecorded}]
      /\ stageRow'[place] = row /\ row # Unrecorded
      /\ \A p, q \in Place : EarlierPlace(p, q) /\ stageRow'[q] # Unrecorded => WholeAttempt(p)'
      /\ \A p \in Place : EarlierPlace(p, place) => WholeAttempt(p)'
      /\ \A p \in Place : EarlierPlace(place, p) => stageRow'[p] = Unrecorded
      /\ \A p \in Place : p[1] < counted => WholeAttempt(p)'
  BY <1>1, WritingHere
<1>3. HistoryTypeOK'
  BY <1>1, <1>2 DEF HistoryInv, HistoryTypeOK
<1>4. WorkIsInOrder'
  BY <1>1, <1>2 DEF WorkIsInOrder, EarlierPlace
<1>5. AttemptIsCurrent'
  BY <1>1, <1>2 DEF AttemptIsCurrent, Conclusive, AllRejected
<1>6. CountIsTrue'
  BY <1>1, <1>2 DEF HistoryInv, CountIsTrue
<1>7. BlameIsTrue' /\ RowFollows'
  BY <1>1 DEF HistoryInv, BlameIsTrue, RowFollows
<1>8. RunsTellTheTruth'
  BY <1>1, WritingHereIsTrue
<1> QED
  BY <1>3, <1>4, <1>5, <1>6, <1>7, <1>8 DEF HistoryInv

\* An attempt that succeeded is whole; the translation of a paragraph follows
\* its linguistic analysis.
LEMMA SucceedingKeepsHistoryInv ==
    ASSUME HistoryInv, doing = "succeeding",
           stageRow' = [stageRow EXCEPT ![place].status = "succeeded"],
           UNCHANGED <<leased, runRow, outcome, counted, blame>>,
           doing' = IF place[2] = "translation" THEN "namespace" ELSE "attempt",
           place' = IF place[2] = "translation" THEN place ELSE NextPlace
    PROVE  HistoryInv'
<1> USE DEF BeforeAttempt, Attempting, Merging, Counting1, Finishing, Working, Failing, Here
<1> DEFINE row == [stageRow[place] EXCEPT !.status = "succeeded"]
<1>1. /\ place \in Place /\ leased' \in {"leased", "queued", "ended"} /\ stageRow[place] \in AttemptRow
      /\ stageRow[place].disposition = outcome
      /\ IF outcome = "hit" THEN stageRow[place].turns = <<>> ELSE Conclusive(stageRow[place].turns)
  BY DEF HistoryInv, HistoryTypeOK, AttemptIsCurrent
<1>2. row \in AttemptRow /\ stageRow' = [stageRow EXCEPT ![place] = row]
  BY <1>1 DEF AttemptRow
<1>3. /\ stageRow' \in [Place -> AttemptRow \cup {Unrecorded}]
      /\ stageRow'[place] = row /\ row # Unrecorded
      /\ \A p, q \in Place : EarlierPlace(p, q) /\ stageRow'[q] # Unrecorded => WholeAttempt(p)'
      /\ \A p \in Place : EarlierPlace(p, place) => WholeAttempt(p)'
      /\ \A p \in Place : EarlierPlace(place, p) => stageRow'[p] = Unrecorded
      /\ \A p \in Place : p[1] < counted => WholeAttempt(p)'
  <2> HIDE DEF row
  <2> QED
    BY <1>1, <1>2, WritingHere
<1>4. row.status = "succeeded" /\ row.disposition = outcome /\ row.turns = stageRow[place].turns
  BY <1>1 DEF AttemptRow
<1> HIDE DEF row
<1>5. \A p \in Place : p = place => WholeAttempt(p)'
  BY <1>1, <1>3, <1>4 DEF WholeAttempt, Conclusive
<1>6. /\ place' \in Place
      /\ place[2] = "linguistic_analysis" => /\ place' = <<Here, "translation">>
                                             /\ EarlierPlace(place, place')
      /\ place[2] = "translation" => place' = place
      /\ place'[1] = place[1]
      /\ place[2] \in {"linguistic_analysis", "translation"}
  <2>1. place[2] \in StageName /\ place = <<place[1], place[2]>>
    BY <1>1, Places
  <2>2. <<place[1], "translation">> \in Place
    BY <1>1, SMT DEF Place, StageName
  <2>3. CASE place[2] = "translation"
    BY <1>1, <2>3
  <2>4. CASE place[2] = "linguistic_analysis"
    <3>1. place' = <<place[1], "translation">>
      <4>1. NextPlace = <<place[1], "translation">>
        BY <2>4 DEF NextPlace
      <4>2. place' = NextPlace
        BY <2>4
      <4> QED
        BY <4>1, <4>2
    <3>2. EarlierPlace(place, place')
      BY <2>4, <3>1 DEF EarlierPlace
    <3> QED
      BY <2>2, <2>4, <3>1, <3>2
  <2> QED
    BY <2>1, <2>3, <2>4 DEF StageName
<1>7. HistoryTypeOK'
  BY <1>1, <1>3, <1>6 DEF HistoryInv, HistoryTypeOK
<1>8. WorkIsInOrder'
  <2>1. ASSUME NEW p \in Place, EarlierPlace(p, place') PROVE WholeAttempt(p)'
    <3>1. EarlierPlace(p, place) \/ p = place
      BY <1>1, <1>6, <2>1, Places DEF EarlierPlace, StageName
    <3> QED
      BY <1>3, <1>5, <3>1
  <2>2. ASSUME NEW p \in Place, EarlierPlace(place', p) PROVE stageRow'[p] = Unrecorded
    <3>1. EarlierPlace(place, p)
      BY <1>6, <2>2 DEF EarlierPlace
    <3> QED
      BY <1>3, <3>1
  <2> QED
    BY <1>3, <2>1, <2>2 DEF WorkIsInOrder, EarlierPlace
<1>9. AttemptIsCurrent'
  BY <1>1, <1>3, <1>5, <1>6 DEF AttemptIsCurrent
<1>10. CountIsTrue'
  BY <1>1, <1>3, <1>6 DEF HistoryInv, CountIsTrue
<1>11. BlameIsTrue' /\ RowFollows'
  BY DEF HistoryInv, BlameIsTrue, RowFollows
<1>12. RunsTellTheTruth'
  <2>1. doing \in {"attempt"} \cup Attempting /\ UNCHANGED <<runRow, outcome, counted>>
    OBVIOUS
  <2> QED
    BY <1>1, <1>2, <2>1, WritingHereIsTrue
<1> QED
  BY <1>7, <1>8, <1>9, <1>10, <1>11, <1>12 DEF HistoryInv

-----------------------------------------------------------------------------
(* Steps that count a paragraph, or write the row of the run.              *)

\* Publishing counts the paragraph, and the next one begins.
LEMMA CountingKeepsHistoryInv ==
    ASSUME HistoryInv, UNCHANGED <<leased, histories, outcome, blame>>,
           \/ /\ doing = "publish" /\ doing' = "progress"
              /\ counted' = Here + 1 /\ place' = place
           \/ /\ doing = "beat" /\ doing' = IF Here + 1 < TotalParagraphs THEN "owned" ELSE "audit"
              /\ counted' = counted /\ place' = NextPlace
    PROVE  HistoryInv'
<1> USE DEF BeforeAttempt, Attempting, Merging, Counting1, Finishing, Working, Failing, Here
<1>1. /\ UNCHANGED <<runRow, stageRow, outcome, blame>>
      /\ \A p \in Place : WholeAttempt(p)' <=> WholeAttempt(p)
      /\ place \in Place /\ place[1] \in Nat /\ place[1] < TotalParagraphs
      /\ place[2] = "translation" /\ WholeAttempt(place) /\ counted \in Nat
  BY WholeStays, Places DEF histories, HistoryInv, HistoryTypeOK, AttemptIsCurrent
<1>2. \A p \in Place : p[1] < Here + 1 => WholeAttempt(p)
  <2>1. ASSUME NEW p \in Place, p[1] < Here + 1 PROVE EarlierPlace(p, place) \/ p = place
    <3>1. /\ p[1] \in Nat /\ p[2] \in StageName /\ p = <<p[1], p[2]>> /\ place = <<place[1], place[2]>>
      BY <1>1, Places
    <3>2. p[1] < place[1] \/ p[1] = place[1]
      BY <1>1, <2>1, <3>1
    <3> QED
      BY <1>1, <3>1, <3>2 DEF EarlierPlace, StageName
  <2> QED
    BY <1>1, <2>1 DEF HistoryInv, WorkIsInOrder
<1>3. CASE doing = "publish"
  <2>1. doing' = "progress" /\ counted' = Here + 1 /\ place' = place
    BY <1>3
  <2>2. HistoryTypeOK'
    <3>1. counted' \in Nat
      BY <1>1, <2>1
    <3> QED
      BY <1>1, <2>1, <3>1 DEF HistoryInv, HistoryTypeOK
  <2>3. WorkIsInOrder' /\ AttemptIsCurrent'
    BY <1>1, <1>3, <2>1 DEF HistoryInv, WorkIsInOrder, AttemptIsCurrent
  <2>4. CountIsTrue'
    BY <1>1, <1>2, <2>1 DEF CountIsTrue
  <2>5. BlameIsTrue' /\ RowFollows'
    BY <1>1, <1>3, <2>1 DEF HistoryInv, BlameIsTrue, RowFollows
  <2> QED
    BY <1>1, <2>2, <2>3, <2>4, <2>5, QuietKeepsHistoryInv
<1>4. CASE doing = "beat" /\ ~(Here + 1 < TotalParagraphs)
  <2>1. doing' = "audit" /\ counted' = counted /\ place' = place /\ Here + 1 = TotalParagraphs
    BY <1>1, <1>4 DEF NextPlace
  <2>2. HistoryTypeOK'
    BY <1>1, <2>1 DEF HistoryInv, HistoryTypeOK
  <2>3. WorkIsInOrder' /\ AttemptIsCurrent'
    BY <1>1, <1>4, <2>1 DEF HistoryInv, WorkIsInOrder, AttemptIsCurrent
  <2>4. CountIsTrue'
    BY <1>1, <1>4, <2>1 DEF HistoryInv, CountIsTrue
  <2>5. BlameIsTrue' /\ RowFollows'
    BY <1>1, <1>4, <2>1 DEF HistoryInv, BlameIsTrue, RowFollows
  <2> QED
    BY <1>1, <2>2, <2>3, <2>4, <2>5, QuietKeepsHistoryInv
<1>5. CASE doing = "beat" /\ Here + 1 < TotalParagraphs
  <2>1. /\ doing' = "owned" /\ counted' = counted /\ counted = Here + 1
        /\ place' = <<Here + 1, "linguistic_analysis">>
    BY <1>1, <1>5 DEF NextPlace, HistoryInv, CountIsTrue
  <2>2. place' \in Place /\ place'[1] = Here + 1 /\ place'[2] = "linguistic_analysis"
    <3>1. Here + 1 \in 0 .. TotalParagraphs - 1
      BY <1>1, <1>5
    <3> QED
      BY <2>1, <3>1 DEF Place, StageName
  <2>3. HistoryTypeOK'
    BY <1>1, <2>1, <2>2 DEF HistoryInv, HistoryTypeOK
  <2>4. ASSUME NEW p \in Place, EarlierPlace(p, place') PROVE WholeAttempt(p)
    <3>1. p[1] \in Nat /\ p[1] < Here + 1
      BY <1>1, <2>2, <2>4, Places DEF EarlierPlace
    <3> QED
      BY <1>2, <3>1
  <2>5. ASSUME NEW p \in Place, EarlierPlace(place', p) \/ p = place' PROVE stageRow[p] = Unrecorded
    <3>1. p[1] \in Nat /\ place[1] < p[1]
      <4>1. p[1] \in Nat /\ (place'[1] < p[1] \/ place'[1] = p[1])
        BY <2>5, Places DEF EarlierPlace
      <4> QED
        BY <1>1, <2>2, <4>1
    <3>2. EarlierPlace(place, p)
      BY <3>1 DEF EarlierPlace
    <3> QED
      BY <1>5, <3>2 DEF HistoryInv, WorkIsInOrder
  <2>6. WorkIsInOrder'
    BY <1>1, <2>4, <2>5 DEF HistoryInv, WorkIsInOrder, EarlierPlace
  <2>7. AttemptIsCurrent'
    BY <1>1, <2>1, <2>2, <2>5 DEF AttemptIsCurrent
  <2>8. CountIsTrue'
    BY <1>1, <2>1, <2>2 DEF HistoryInv, CountIsTrue
  <2>9. BlameIsTrue' /\ RowFollows'
    BY <1>1, <1>5, <2>1 DEF HistoryInv, BlameIsTrue, RowFollows
  <2> QED
    BY <1>1, <2>3, <2>6, <2>7, <2>8, <2>9, QuietKeepsHistoryInv
<1> QED
  BY <1>3, <1>4, <1>5

\* Steps that write the row of the run and leave the attempts alone: what is
\* to show is that the new row is true and where it is.
LEMMA RowKeepsHistoryInv ==
    ASSUME HistoryInv, UNCHANGED <<leased, stageRow, memory>>, runRow' \in RunRow,
           \/ <<doing, doing'>> \in Onward \cup {<<"claimed", "provenance">>, <<"progress", "beat">>}
           \/ doing = "succeed" /\ doing' = "complete"
           \/ doing' \in {"failjob", "recovering"} \/ doing' = doing,
           RowFollows',
           \A p \in Place : p[1] < runRow'.completed => WholeAttempt(p),
           runRow'.status = "succeeded" => /\ runRow'.completed = TotalParagraphs
                                           /\ runRow'.failed_block = -1 /\ runRow'.failed_stage = "",
           \A p \in Place : p = <<runRow'.failed_block, "linguistic_analysis">> /\ p[2] = runRow'.failed_stage
                                => stageRow[p] = Unrecorded \/ stageRow[p].status # "succeeded"
    PROVE  HistoryInv'
<1> USE DEF BeforeAttempt, Attempting, Merging, Counting1, Finishing, Working, Failing, Here
<1>1. /\ UNCHANGED <<leased, stageRow, place, outcome, counted, blame>>
      /\ \A p \in Place : WholeAttempt(p)' <=> WholeAttempt(p)
      /\ place \in Place
  BY WholeStays DEF memory, HistoryInv, HistoryTypeOK
<1>2. HistoryTypeOK'
  BY <1>1 DEF HistoryInv, HistoryTypeOK
<1>3. WorkIsInOrder'
  BY <1>1 DEF HistoryInv, WorkIsInOrder, Onward
<1>4. AttemptIsCurrent'
  <2>1. CASE <<doing, doing'>> \in Onward
    BY <1>1, <2>1 DEF HistoryInv, AttemptIsCurrent, Onward
  <2>2. CASE <<doing, doing'>> \notin Onward
    BY <1>1, <2>2 DEF HistoryInv, AttemptIsCurrent
  <2> QED
    BY <2>1, <2>2
<1>5. CountIsTrue'
  BY <1>1 DEF HistoryInv, CountIsTrue, Onward
<1>6. BlameIsTrue'
  BY <1>1 DEF HistoryInv, BlameIsTrue, Onward
<1>7. RunsTellTheTruth'
  <2>1. \A p, q \in Place : EarlierPlace(p, q) /\ stageRow'[q] # Unrecorded => WholeAttempt(p)'
    BY <1>1 DEF HistoryInv, WorkIsInOrder
  <2> QED
    BY <1>1, <2>1 DEF RunsTellTheTruth
<1> QED
  BY <1>2, <1>3, <1>4, <1>5, <1>6, <1>7 DEF HistoryInv

\* The run's row is inserted, its progress written, and it ends.
LEMMA RunRowSteps ==
    ASSUME HistoryInv,
           \/ StartAnalysisRun \/ CountParagraph \/ SucceedRun
           \/ ReconcileTerminalRun \/ RecoverInterruptedRuns
    PROVE  HistoryInv'
<1> USE DEF BeforeAttempt, Attempting, Merging, Counting1, Finishing, Working, Failing, Here
<1>1. /\ runRow \in RunRow \cup {Unrecorded} /\ counted \in Nat /\ TotalParagraphs \in Nat
      /\ \A p \in Place : p[1] < counted => WholeAttempt(p)
      /\ leased \in {"leased", "queued", "ended"} /\ place \in Place
      /\ RowFollows
  BY DEF HistoryInv, HistoryTypeOK, CountIsTrue
<1>8. /\ \A p \in Place : p # <<-1, "linguistic_analysis">> /\ p[1] \in Nat
      /\ place[1] \in Nat
      /\ -1 \in Int
  BY <1>1, Places, NoPlace
<1>2. runRow # Unrecorded =>
        /\ runRow \in RunRow
        /\ \A p \in Place : p[1] < runRow.completed => WholeAttempt(p)
        /\ runRow.status = "succeeded" =>
              runRow.completed = TotalParagraphs /\ runRow.failed_block = -1 /\ runRow.failed_stage = ""
        /\ \A p \in Place :
              p = <<runRow.failed_block, "linguistic_analysis">> /\ p[2] = runRow.failed_stage
              => stageRow[p] = Unrecorded \/ stageRow[p].status # "succeeded"
  BY <1>1 DEF HistoryInv, RunsTellTheTruth
<1>3. CASE StartAnalysisRun
  <2>1. CASE Refuses("failjob")
    BY <1>1, <1>3, <2>1, GoingOn DEF StartAnalysisRun, Refuses
  <2>2. CASE ~Refuses("failjob")
    <3>1. /\ runRow' = [status |-> "running", phase |-> "running", completed |-> 0,
                        failed_block |-> -1, failed_stage |-> ""]
          /\ doing = "claimed" /\ doing' = "provenance" /\ UNCHANGED <<leased, stageRow, memory>>
      BY <1>3, <2>2 DEF StartAnalysisRun, Takes
    <3>2. runRow' \in RunRow /\ runRow' # Unrecorded
      <4>1. [status |-> "running", phase |-> "running", completed |-> 0,
             failed_block |-> -1, failed_stage |-> ""] \in RunRow
        BY <1>8 DEF RunRow
      <4> QED
        BY <3>1, <4>1
    <3>3. RowFollows'
      BY <3>1, <3>2 DEF RowFollows
    <3>4. \A p \in Place : ~(p[1] < runRow'.completed) /\ p # <<runRow'.failed_block, "linguistic_analysis">>
      <4>1. runRow'.completed = 0 /\ runRow'.failed_block = -1
        BY <3>1
      <4> QED
        BY <1>8, <4>1
    <3> QED
      BY <3>1, <3>2, <3>3, <3>4, RowKeepsHistoryInv
  <2> QED
    BY <2>1, <2>2
<1>4. CASE CountParagraph
  <2>1. CASE Refuses("failrun") /\ Blames(Here, "")
    <3>1. blame' \in Int \X ({""} \cup StageName) /\ blame'[2] = ""
      <4>1. <<place[1], "">> \in Int \X ({""} \cup StageName)
        <5>1. place[1] \in Int /\ "" \in {""} \cup StageName
          BY <1>8
        <5> QED
          BY <5>1, Blamed, Zenon
      <4>2. blame' = <<place[1], "">>
        BY <2>1 DEF Blames
      <4> QED
        BY <4>1, <4>2
    <3> QED
      BY <1>1, <1>4, <2>1, <3>1, GivingUp DEF CountParagraph, Refuses, Blames, histories
  <2>2. CASE UpdateProgress(-1) /\ Takes("beat") /\ UNCHANGED <<stageRow, memory>>
    <3>1. /\ runRow # Unrecorded /\ runRow \in RunRow /\ runRow.failed_stage = "" /\ doing = "progress"
          /\ runRow.status # "succeeded"
      BY <1>1, <1>4 DEF CountParagraph, RowFollows
    <3>2. /\ runRow' \in RunRow /\ runRow'.completed = counted /\ runRow'.failed_block = -1
          /\ runRow'.failed_stage = "" /\ runRow'.status # "succeeded"
      BY <1>1, <1>8, <2>2, <3>1 DEF UpdateProgress, RunRow
    <3>3. RowFollows'
      BY <2>2, <3>2 DEF RowFollows, Takes
    <3> QED
      BY <1>1, <1>8, <2>2, <3>1, <3>2, <3>3, RowKeepsHistoryInv DEF Takes
  <2> QED
    BY <1>4, <2>1, <2>2 DEF CountParagraph
<1>5. CASE SucceedRun
  <2>1. CASE Refuses("failjob")
    BY <1>1, <1>5, <2>1, GoingOn DEF SucceedRun, Refuses
  <2>2. CASE FinishAnalysisRun("succeeded", -1) /\ Takes("complete") /\ UNCHANGED <<stageRow, memory>>
    <3>1. /\ runRow # Unrecorded /\ runRow \in RunRow /\ runRow.failed_stage = "" /\ doing = "succeed"
          /\ counted = TotalParagraphs
      BY <1>1, <1>5 DEF SucceedRun, RowFollows, HistoryInv, CountIsTrue
    <3>2. /\ runRow' \in RunRow /\ runRow'.completed = counted /\ runRow'.failed_block = -1
          /\ runRow'.failed_stage = ""
      BY <1>1, <1>8, <2>2, <3>1 DEF FinishAnalysisRun, RunRow
    <3>3. RowFollows'
      BY <2>2, <3>2 DEF RowFollows, Takes
    <3> QED
      BY <1>1, <1>8, <2>2, <3>1, <3>2, <3>3, RowKeepsHistoryInv DEF Takes
  <2> QED
    BY <1>5, <2>1, <2>2 DEF SucceedRun
<1>6. CASE ReconcileTerminalRun
  <2>1. /\ runRow \in RunRow /\ runRow # Unrecorded /\ UNCHANGED <<leased, stageRow, memory, doing>>
        /\ runRow' = [runRow EXCEPT !.status = "failed", !.phase = "finished"]
    BY <1>1, <1>6 DEF ReconcileTerminalRun
  <2>2. /\ runRow' \in RunRow /\ runRow'.status = "failed" /\ runRow'.completed = runRow.completed
        /\ runRow'.failed_block = runRow.failed_block /\ runRow'.failed_stage = runRow.failed_stage
    BY <2>1 DEF RunRow
  <2>3. RowFollows'
    BY <1>1, <2>1, <2>2 DEF RowFollows, memory
  <2> QED
    BY <1>2, <2>1, <2>2, <2>3, RowKeepsHistoryInv
<1>7. CASE RecoverInterruptedRuns
  <2>1. CASE UNCHANGED runRow
    BY <1>1, <1>7, <2>1, GoingOn DEF RecoverInterruptedRuns, Onward, histories
  <2>2. CASE runRow # Unrecorded /\ runRow' = [runRow EXCEPT !.status = "failed"]
    <3>1. /\ runRow' \in RunRow /\ runRow'.status = "failed" /\ runRow'.completed = runRow.completed
          /\ runRow'.failed_block = runRow.failed_block /\ runRow'.failed_stage = runRow.failed_stage
      BY <1>2, <2>2 DEF RunRow
    <3>2. /\ UNCHANGED <<leased, stageRow, memory>> /\ doing = "down" /\ doing' = "recovering"
      BY <1>7 DEF RecoverInterruptedRuns
    <3>3. RowFollows'
      BY <3>1, <3>2 DEF RowFollows
    <3> QED
      BY <1>2, <2>2, <3>1, <3>2, <3>3, RowKeepsHistoryInv
  <2> QED
    BY <1>7, <2>1, <2>2 DEF RecoverInterruptedRuns
<1> QED
  BY <1>3, <1>4, <1>5, <1>6, <1>7

\* What failRun writes of whom to blame is true, whichever of its statements
\* were refused.
LEMMA FailingSteps ==
    ASSUME HistoryInv, FailProgress \/ SetRunPipelineFailure \/ FailRow
    PROVE  HistoryInv'
<1> USE DEF BeforeAttempt, Attempting, Merging, Counting1, Finishing, Working, Failing, Here
<1>1. /\ runRow \in RunRow /\ runRow # Unrecorded /\ counted \in Nat /\ TotalParagraphs \in Nat
      /\ \A p \in Place : p[1] < counted => WholeAttempt(p)
      /\ leased \in {"leased", "queued", "ended"}
      /\ blame[1] \in Int /\ blame[2] \in {""} \cup StageName
      /\ \A p \in Place : p[1] < runRow.completed => WholeAttempt(p)
      /\ RowFollows
  BY DEF HistoryInv, HistoryTypeOK, CountIsTrue, RowFollows, RunsTellTheTruth,
         FailProgress, SetRunPipelineFailure, FailRow
<1>2. /\ \A p \in Place : p # <<-1, "linguistic_analysis">>
      /\ -1 \in Int /\ place[1] \in Int
  <2>1. place[1] \in Nat
    BY Places DEF HistoryInv, HistoryTypeOK
  <2>2. place[1] \in Int
    BY <2>1
  <2> QED
    BY <2>2, NoPlace, Zenon
<1>3. CASE FailProgress
  <2>1. CASE Refuses("failstage")
    BY <1>1, <1>3, <2>1, GoingOn DEF FailProgress, Refuses, Onward
  <2>2. CASE UpdateProgress(blame[1]) /\ Takes("failstage") /\ UNCHANGED stageRow
    <3>1. /\ runRow.failed_stage = "" /\ doing = "failrun" /\ UNCHANGED memory
          /\ runRow.status # "succeeded"
      BY <1>1, <1>3 DEF FailProgress, RowFollows
    <3>2. /\ runRow' \in RunRow /\ runRow'.completed = counted /\ runRow'.failed_block = blame[1]
          /\ runRow'.failed_stage = "" /\ runRow'.status # "succeeded"
      BY <1>1, <2>2, <3>1 DEF UpdateProgress, RunRow
    <3>3. RowFollows'
      BY <2>2, <3>1, <3>2 DEF RowFollows, Takes, memory
    <3>4. ASSUME NEW p \in Place, p = <<runRow'.failed_block, "linguistic_analysis">>
          PROVE  p[2] # runRow'.failed_stage
      <4>1. p[2] = "linguistic_analysis"
        BY <3>4
      <4> QED
        BY <3>2, <4>1
    <3> QED
      BY <1>1, <2>2, <3>1, <3>2, <3>3, <3>4, RowKeepsHistoryInv DEF Takes, Onward
  <2> QED
    BY <1>3, <2>1, <2>2 DEF FailProgress
<1>4. CASE SetRunPipelineFailure
  <2>1. CASE Refuses("failfinish")
    BY <1>1, <1>4, <2>1, GoingOn DEF SetRunPipelineFailure, Refuses, Onward
  <2>2. CASE /\ runRow' = IF blame[2] = "" THEN runRow ELSE [runRow EXCEPT !.failed_stage = blame[2]]
             /\ Takes("failfinish") /\ UNCHANGED stageRow
    <3>1. /\ runRow.failed_stage = "" /\ doing = "failstage" /\ UNCHANGED memory
          /\ runRow.failed_block \in {-1, blame[1]} /\ runRow.status # "succeeded"
      BY <1>1, <1>4 DEF SetRunPipelineFailure, RowFollows
    <3>2. /\ runRow' \in RunRow /\ runRow'.completed = runRow.completed
          /\ runRow'.failed_block = runRow.failed_block
          /\ runRow'.failed_stage = blame[2] /\ runRow'.status # "succeeded"
      BY <1>1, <2>2, <3>1 DEF RunRow
    <3>3. RowFollows'
      BY <2>2, <3>1, <3>2 DEF RowFollows, Takes, memory
    <3>4. ASSUME NEW p \in Place, p = <<runRow'.failed_block, "linguistic_analysis">>, p[2] = runRow'.failed_stage
          PROVE  stageRow[p] = Unrecorded \/ stageRow[p].status # "succeeded"
      <4>1. p[2] = "linguistic_analysis"
        BY <3>4
      <4>2. blame[2] = "linguistic_analysis"
        BY <3>2, <3>4, <4>1
      <4>3. p = <<blame[1], "linguistic_analysis">>
        BY <1>2, <3>1, <3>2, <3>4
      <4> QED
        BY <3>1, <4>2, <4>3 DEF HistoryInv, BlameIsTrue
    <3> QED
      BY <1>1, <2>2, <3>1, <3>2, <3>3, <3>4, RowKeepsHistoryInv DEF Takes, Onward
  <2> QED
    BY <1>4, <2>1, <2>2 DEF SetRunPipelineFailure
<1>5. CASE FailRow
  <2> DEFINE failed == IF doing = "lost" THEN Here ELSE blame[1]
  <2>1. CASE Refuses("failjob")
    BY <1>1, <1>5, <2>1, GoingOn DEF FailRow, Refuses, Onward
  <2>2. CASE FinishAnalysisRun("failed", failed) /\ Takes("failjob") /\ UNCHANGED stageRow
    <3>1. /\ doing \in {"failfinish", "lost"} /\ UNCHANGED memory /\ failed \in Int
          /\ doing = "lost" => runRow.failed_stage = ""
          /\ doing = "failfinish" => runRow.failed_stage \in {"", blame[2]}
      BY <1>1, <1>2, <1>5 DEF FailRow, RowFollows
    <3> HIDE DEF failed
    <3>2. /\ runRow' \in RunRow /\ runRow'.completed = counted
          /\ runRow'.failed_block = failed
          /\ runRow'.failed_stage = runRow.failed_stage /\ runRow'.status = "failed"
      BY <1>1, <2>2, <3>1 DEF FinishAnalysisRun, RunRow
    <3>3. RowFollows'
      BY <2>2, <3>1, <3>2 DEF RowFollows, Takes, memory
    <3>4. ASSUME NEW p \in Place, p = <<runRow'.failed_block, "linguistic_analysis">>, p[2] = runRow'.failed_stage
          PROVE  stageRow[p] = Unrecorded \/ stageRow[p].status # "succeeded"
      <4>1. p[2] = "linguistic_analysis"
        BY <3>4
      <4>2. doing = "failfinish" /\ blame[2] = "linguistic_analysis"
        BY <3>1, <3>2, <3>4, <4>1
      <4>3. p = <<blame[1], "linguistic_analysis">>
        BY <3>2, <3>4, <4>2 DEF failed
      <4> QED
        BY <4>2, <4>3 DEF HistoryInv, BlameIsTrue
    <3> QED
      BY <1>1, <2>2, <3>1, <3>2, <3>3, <3>4, RowKeepsHistoryInv DEF Takes
  <2> QED
    BY <1>5, <2>1, <2>2 DEF FailRow
<1> QED
  BY <1>3, <1>4, <1>5

-----------------------------------------------------------------------------
(* The steps of the specification.                                         *)

\* Recovery ends the attempts that were open; none of them was whole.
LEMMA RecoverStagesKeepsHistoryInv ==
    ASSUME HistoryInv, RecoverInterruptedStageAttempts
    PROVE  HistoryInv'
<1> USE DEF BeforeAttempt, Attempting, Merging, Counting1, Finishing, Working, Failing, Here
<1>1. /\ stageRow \in [Place -> AttemptRow \cup {Unrecorded}]
      /\ doing = "recovering" /\ doing' = "idle"
      /\ UNCHANGED <<leased, runRow, place, outcome, counted, blame>>
  BY DEF HistoryInv, HistoryTypeOK, RecoverInterruptedStageAttempts, memory
<1>2. \A p \in Place :
         \/ stageRow'[p] = stageRow[p]
         \/ /\ stageRow[p] # Unrecorded /\ stageRow[p].status = "running"
            /\ stageRow'[p] = [stageRow[p] EXCEPT !.status = "failed"]
  BY DEF RecoverInterruptedStageAttempts
<1>3. ASSUME NEW p \in Place
      PROVE  /\ stageRow'[p] \in AttemptRow \cup {Unrecorded}
             /\ stageRow'[p] # Unrecorded => stageRow[p] # Unrecorded
             /\ WholeAttempt(p) => WholeAttempt(p)'
             /\ stageRow'[p] # Unrecorded /\ stageRow'[p].status = "succeeded" =>
                   stageRow[p] # Unrecorded /\ stageRow[p].status = "succeeded"
  <2>1. CASE stageRow'[p] = stageRow[p]
    BY <1>1, <2>1, WholeStays
  <2>2. CASE /\ stageRow[p] # Unrecorded /\ stageRow[p].status = "running"
             /\ stageRow'[p] = [stageRow[p] EXCEPT !.status = "failed"]
    <3>1. stageRow[p] \in AttemptRow
      BY <1>1, <2>2
    <3>2. stageRow'[p] \in AttemptRow /\ stageRow'[p].status = "failed"
      BY <2>2, <3>1 DEF AttemptRow
    <3> QED
      BY <2>2, <3>2 DEF WholeAttempt
  <2> QED
    BY <1>2, <2>1, <2>2
<1>4. stageRow' \in [Place -> AttemptRow \cup {Unrecorded}]
  BY <1>3 DEF RecoverInterruptedStageAttempts
<1>5. HistoryTypeOK'
  BY <1>1, <1>4 DEF HistoryInv, HistoryTypeOK
<1>6. WorkIsInOrder'
  BY <1>1, <1>3 DEF HistoryInv, WorkIsInOrder, EarlierPlace
<1>7. AttemptIsCurrent' /\ BlameIsTrue' /\ RowFollows'
  BY <1>1 DEF HistoryInv, AttemptIsCurrent, BlameIsTrue, RowFollows
<1>8. CountIsTrue'
  BY <1>1, <1>3 DEF HistoryInv, CountIsTrue
<1>9. RunsTellTheTruth'
  BY <1>1, <1>3 DEF HistoryInv, RunsTellTheTruth, EarlierPlace
<1> QED
  BY <1>5, <1>6, <1>7, <1>8, <1>9 DEF HistoryInv

\* Statements and looks that write no row, and what happens around the runner.
LEMMA SilentSteps ==
    ASSUME HistoryInv,
           \/ SetRunPipelineProvenance \/ Checks \/ BeginParagraph \/ KeepArtifact \/ Namespace
           \/ PublishParagraph \/ BeatParagraph \/ AuditArticle \/ ReadyArticle
           \/ ReturnJob \/ LoseJob \/ Exit \/ UNCHANGED historyVars
    PROVE  HistoryInv'
<1> USE DEF BeforeAttempt, Attempting, Merging, Counting1, Finishing, Working, Failing, Here, Onward,
            Takes, Refuses, Lost
<1>1. /\ leased \in {"leased", "queued", "ended"} /\ place \in Place /\ counted \in Int
      /\ place[1] \in Int /\ place[2] \in StageName /\ -1 \in Int
  <2>1. /\ leased \in {"leased", "queued", "ended"} /\ place \in Place /\ counted \in Nat
        /\ place[1] \in Nat /\ place[2] \in StageName
    BY Places DEF HistoryInv, HistoryTypeOK
  <2>2. counted \in Int /\ place[1] \in Int
    BY <2>1
  <2> QED
    BY <2>1, <2>2, NoPlace, Zenon
<1>2. CASE SetRunPipelineProvenance
  BY <1>1, <1>2, GoingOn DEF SetRunPipelineProvenance
<1>3. CASE Checks
  BY <1>1, <1>3, GoingOn DEF Checks, CheckOwnership
<1>4. CASE KeepArtifact
  BY <1>1, <1>4, GoingOn DEF KeepArtifact
<1>5. CASE LoseJob \/ UNCHANGED historyVars
  BY <1>1, <1>5, GoingOn DEF LoseJob, historyVars
<1>6. CASE ReturnJob
  BY <1>1, <1>6, Forgetting DEF ReturnJob, Owns
<1>7. CASE Exit
  BY <1>1, <1>7, Forgetting DEF Exit
<1>8. ASSUME NEW i \in Int, NEW stage \in {""} \cup StageName, Blames(i, stage),
             UNCHANGED histories, doing \in Working \ {"claimed"}, doing' = "failrun",
             leased' \in {"leased", "queued", "ended"},
             stage = "linguistic_analysis" =>
                i = Here /\ place[2] = "linguistic_analysis" /\ doing \in BeforeAttempt \cup Attempting
      PROVE  HistoryInv'
  <2>1. blame' \in Int \X ({""} \cup StageName) /\ blame'[1] = i /\ blame'[2] = stage
    BY <1>8, Blamed DEF Blames
  <2>2. UNCHANGED <<histories, place, outcome, counted>>
    BY <1>8 DEF Blames
  <2> QED
    BY <1>8, <2>1, <2>2, GivingUp
<1>9. "translation" \in {""} \cup StageName /\ "" \in {""} \cup StageName
      /\ "linguistic_analysis" \in {""} \cup StageName
  BY DEF StageName
<1>10. CASE BeginParagraph
  <2>1. CASE Takes("attempt") /\ UNCHANGED <<histories, memory>>
    BY <1>1, <1>10, <2>1, GoingOn DEF BeginParagraph
  <2>2. ASSUME NEW stage \in {"", "linguistic_analysis"}, Refuses("failrun"), Blames(Here, stage)
        PROVE  HistoryInv'
    <3>1. place[2] = "linguistic_analysis" /\ doing = "paragraph"
      BY <1>10 DEF BeginParagraph, HistoryInv, AttemptIsCurrent
    <3> QED
      BY <1>1, <1>8, <1>9, <2>2, <3>1
  <2> QED
    BY <1>10, <2>1, <2>2 DEF BeginParagraph
<1>11. CASE Namespace
  <2>1. CASE Takes("merged") /\ UNCHANGED memory
    BY <1>1, <1>11, <2>1, GoingOn DEF Namespace
  <2>2. CASE Takes("failrun") /\ Blames(Here, "translation")
    BY <1>1, <1>8, <1>9, <1>11, <2>2 DEF Namespace
  <2> QED
    BY <1>11, <2>1, <2>2 DEF Namespace
<1>12. CASE PublishParagraph
  <2>1. CASE Takes("progress") /\ counted' = Here + 1 /\ UNCHANGED <<place, outcome, blame>>
    BY <1>1, <1>12, <2>1, CountingKeepsHistoryInv DEF PublishParagraph
  <2>2. CASE Takes("failrun") /\ Blames(Here, "translation")
    BY <1>1, <1>8, <1>9, <1>12, <2>2 DEF PublishParagraph
  <2> QED
    BY <1>12, <2>1, <2>2 DEF PublishParagraph
<1>13. CASE BeatParagraph
  <2>1. CASE Lost("lost") /\ UNCHANGED memory
    BY <1>1, <1>13, <2>1, GoingOn DEF BeatParagraph
  <2>2. CASE /\ Takes(IF Here + 1 < TotalParagraphs THEN "owned" ELSE "audit")
             /\ place' = NextPlace /\ UNCHANGED <<histories, outcome, counted, blame>>
    BY <1>13, <2>2, CountingKeepsHistoryInv DEF BeatParagraph
  <2> QED
    BY <1>13, <2>1, <2>2 DEF BeatParagraph
<1>14. CASE AuditArticle
  <2>1. CASE Takes("audited") /\ UNCHANGED memory
    BY <1>1, <1>14, <2>1, GoingOn DEF AuditArticle
  <2>2. CASE Takes("failrun") /\ Blames(counted, "translation")
    BY <1>1, <1>8, <1>9, <1>14, <2>2 DEF AuditArticle
  <2> QED
    BY <1>14, <2>1, <2>2 DEF AuditArticle
<1>15. CASE ReadyArticle
  <2>1. CASE Takes("succeed") /\ UNCHANGED memory
    BY <1>1, <1>15, <2>1, GoingOn DEF ReadyArticle
  <2>2. CASE Takes("failrun") /\ Blames(-1, "")
    BY <1>1, <1>8, <1>9, <1>15, <2>2 DEF ReadyArticle
  <2> QED
    BY <1>15, <2>1, <2>2 DEF ReadyArticle
<1> QED
  BY <1>2, <1>3, <1>4, <1>5, <1>6, <1>7, <1>10, <1>11, <1>12, <1>13, <1>14, <1>15

\* The stages: an attempt is inserted, answered from the cache or by turns,
\* and ends.
LEMMA StageSteps ==
    ASSUME HistoryInv,
           \/ StartStageAttempt \/ RunStage \/ WriteDisposition \/ FinishStage \/ FinishStageAndFail
           \/ \E result \in {"accepted", "rejected", "failed"} : Turn(result)
    PROVE  HistoryInv'
<1> USE DEF Takes, Refuses, Lost, Attempting
<1>1. /\ leased \in {"leased", "queued", "ended"} /\ place \in Place
      /\ place[1] \in Int /\ place[2] \in StageName
      /\ doing \in Attempting => /\ stageRow[place] \in AttemptRow
                                 /\ stageRow[place].status = "running"
  <2>1. place[1] \in Nat /\ place[2] \in StageName /\ place \in Place
    BY Places DEF HistoryInv, HistoryTypeOK
  <2>2. place[1] \in Int
    BY <2>1
  <2> QED
    BY <2>1, <2>2 DEF HistoryInv, HistoryTypeOK, AttemptIsCurrent
<1>2. ASSUME NEW stage \in {"", place[2]}, Refuses("failrun"), Blames(Here, stage),
             doing \in {"attempt"} \cup Attempting
      PROVE  HistoryInv'
  <2>1. stage \in {""} \cup StageName
    BY <1>1
  <2>2. blame' \in Int \X ({""} \cup StageName) /\ blame'[1] = Here /\ blame'[2] = stage
    BY <1>1, <1>2, <2>1, Blamed DEF Blames, Here
  <2>3. /\ UNCHANGED <<histories, place, outcome, counted>> /\ doing \in Working \ {"claimed"}
        /\ doing \in BeforeAttempt \cup Attempting
        /\ doing' = "failrun" /\ leased' \in {"leased", "queued", "ended"}
    BY <1>1, <1>2 DEF Blames, Working, BeforeAttempt
  <2> QED
    BY <2>2, <2>3, GivingUp
<1>3. CASE StartStageAttempt
  <2>1. CASE Refuses("failrun") /\ Blames(Here, "")
    BY <1>2, <1>3, <2>1 DEF StartStageAttempt
  <2>2. CASE /\ stageRow' = [stageRow EXCEPT ![place] =
                                [status |-> "running", disposition |-> "miss", turns |-> <<>>]]
             /\ Takes("stage") /\ UNCHANGED <<runRow, memory>>
    <3>1. [status |-> "running", disposition |-> "miss", turns |-> <<>>] \in AttemptRow
      BY DEF AttemptRow, Disposition
    <3> QED
      BY <1>3, <2>2, <3>1, AttemptKeepsHistoryInv DEF StartStageAttempt
  <2> QED
    BY <1>3, <2>1, <2>2 DEF StartStageAttempt
<1>4. CASE FinishStage
  <2>1. CASE Refuses("failrun") /\ Blames(Here, "")
    BY <1>2, <1>4, <2>1 DEF FinishStage
  <2>2. CASE /\ stageRow' = [stageRow EXCEPT ![place].status = "succeeded"]
             /\ Takes(IF place[2] = "translation" THEN "namespace" ELSE "attempt")
             /\ place' = IF place[2] = "translation" THEN place ELSE NextPlace
             /\ UNCHANGED <<runRow, outcome, counted, blame>>
    BY <1>4, <2>2, SucceedingKeepsHistoryInv DEF FinishStage
  <2> QED
    BY <1>4, <2>1, <2>2 DEF FinishStage
<1>5. CASE WriteDisposition
  <2>1. CASE Refuses("failrun") /\ Blames(Here, IF doing = "successful" THEN "" ELSE place[2])
    <3>1. doing \in {"attempt"} \cup Attempting
      BY <1>5 DEF WriteDisposition
    <3>2. CASE doing = "successful"
      BY <1>2, <2>1, <3>1, <3>2
    <3>3. CASE doing # "successful"
      BY <1>2, <2>1, <3>1, <3>3
    <3> QED
      BY <3>2, <3>3
  <2>2. CASE /\ stageRow' = [stageRow EXCEPT ![place].disposition = outcome]
             /\ Takes(IF doing = "successful" THEN "succeeding" ELSE "ending")
             /\ UNCHANGED <<runRow, memory>>
    <3> DEFINE row == [stageRow[place] EXCEPT !.disposition = outcome]
    <3>1. doing \in {"successful", "unsuccessful"}
      BY <1>5 DEF WriteDisposition
    <3>2. /\ row \in AttemptRow /\ row.status = "running" /\ row.disposition = outcome
          /\ row.turns = stageRow[place].turns
      BY <1>1, <3>1 DEF AttemptRow, HistoryInv, HistoryTypeOK
    <3>3. stageRow' = [stageRow EXCEPT ![place] = row]
      BY <2>2
    <3> HIDE DEF row
    <3>4. doing = "successful" => IF outcome = "hit" THEN row.turns = <<>> ELSE Conclusive(row.turns)
      BY <3>2 DEF HistoryInv, AttemptIsCurrent
    <3> QED
      BY <2>2, <3>1, <3>2, <3>3, <3>4, AttemptKeepsHistoryInv
  <2> QED
    BY <1>5, <2>1, <2>2 DEF WriteDisposition
<1>6. CASE FinishStageAndFail
  <2>1. doing = "ending" /\ doing' = "failrun" /\ Blames(Here, place[2])
    BY <1>6 DEF FinishStageAndFail
  <2>2. CASE Refuses("failrun")
    BY <1>2, <2>1, <2>2
  <2>3. CASE /\ stageRow' = [stageRow EXCEPT ![place].status = "failed"]
             /\ Takes("failrun") /\ UNCHANGED runRow
    <3> DEFINE row == [stageRow[place] EXCEPT !.status = "failed"]
    <3>1. row \in AttemptRow /\ row.status = "failed" /\ stageRow' = [stageRow EXCEPT ![place] = row]
      BY <1>1, <2>1, <2>3 DEF AttemptRow
    <3>2. UNCHANGED <<leased, runRow, place, outcome, counted>> /\ doing \in {"attempt"} \cup Attempting
      BY <2>1, <2>3 DEF Blames
    <3> HIDE DEF row
    <3>3. /\ stageRow' \in [Place -> AttemptRow \cup {Unrecorded}]
          /\ stageRow'[place] = row /\ row # Unrecorded
          /\ \A p, q \in Place : EarlierPlace(p, q) /\ stageRow'[q] # Unrecorded => WholeAttempt(p)'
          /\ \A p \in Place : p[1] < counted => WholeAttempt(p)'
      BY <1>1, <3>1, <3>2, WritingHere
    <3>4. RunsTellTheTruth'
      BY <1>1, <3>1, <3>2, WritingHereIsTrue
    <3>5. blame' \in Int \X ({""} \cup StageName) /\ blame' = <<Here, place[2]>>
      BY <1>1, <2>1, Blamed DEF Blames, Here
    <3>6. HistoryTypeOK'
      BY <3>2, <3>3, <3>5 DEF HistoryInv, HistoryTypeOK
    <3>7. WorkIsInOrder' /\ AttemptIsCurrent' /\ CountIsTrue'
      BY <2>1, <3>2, <3>3 DEF WorkIsInOrder, AttemptIsCurrent, CountIsTrue, EarlierPlace, Working,
            BeforeAttempt, Merging, Counting1, Finishing
    <3>8. BlameIsTrue'
      <4>1. blame'[2] = "linguistic_analysis" => <<blame'[1], "linguistic_analysis">> = place
        BY <1>1, <3>5, Places DEF Here
      <4> QED
        BY <3>1, <3>3, <4>1 DEF BlameIsTrue
    <3>9. RowFollows'
      BY <2>1, <3>2 DEF HistoryInv, RowFollows, Working, Failing, BeforeAttempt, Merging, Counting1, Finishing
    <3> QED
      BY <3>4, <3>6, <3>7, <3>8, <3>9 DEF HistoryInv
  <2> QED
    BY <1>6, <2>2, <2>3 DEF FinishStageAndFail
<1>7. CASE RunStage
  <2>1. /\ UNCHANGED <<leased, runRow, stageRow, place, counted, blame>> /\ doing = "stage"
        /\ \/ doing' = "checked" /\ outcome' = "hit"
           \/ doing' \in {"turn", "erred"} /\ outcome' \in {"miss", "bypassed"}
    BY <1>7 DEF RunStage, Outcome, histories
  <2>2. stageRow[place].turns = <<>> /\ stageRow[place].status = "running" /\ stageRow[place] # Unrecorded
    BY <2>1 DEF HistoryInv, AttemptIsCurrent
  <2>3. \A p \in Place : WholeAttempt(p)' <=> WholeAttempt(p)
    BY <2>1, WholeStays
  <2>4. HistoryTypeOK'
    BY <2>1 DEF HistoryInv, HistoryTypeOK, Disposition
  <2>5. AttemptIsCurrent'
    BY <2>1, <2>2 DEF AttemptIsCurrent, AllRejected, BeforeAttempt, Merging, Counting1, Finishing
  <2>6. WorkIsInOrder' /\ CountIsTrue' /\ BlameIsTrue' /\ RowFollows'
    BY <2>1, <2>3 DEF HistoryInv, WorkIsInOrder, CountIsTrue, BlameIsTrue, RowFollows, Here,
          Working, Failing, BeforeAttempt, Merging, Counting1, Finishing
  <2> QED
    BY <2>1, <2>4, <2>5, <2>6, QuietKeepsHistoryInv DEF histories
<1>8. ASSUME NEW result \in {"accepted", "rejected", "failed"}, Turn(result) PROVE HistoryInv'
  <2>1. doing = "turn" /\ UNCHANGED memory
    BY <1>8 DEF Turn
  <2>2. CASE Lost("erred")
    BY <1>1, <2>1, <2>2, GoingOn DEF Onward, Working
  <2>3. CASE ~Lost("erred")
    <3> DEFINE asked == Append(stageRow[place].turns, result)
               row == [stageRow[place] EXCEPT !.turns = asked]
    <3>1. /\ stageRow' = [stageRow EXCEPT ![place] = row] /\ UNCHANGED <<leased, runRow>>
          /\ doing' = IF result = "accepted" THEN "accepted"
                      ELSE IF result = "rejected" /\ Len(asked) <= Corrections THEN "turn" ELSE "erred"
      BY <1>8, <2>3 DEF Turn
    <3>2. /\ stageRow[place] \in AttemptRow /\ stageRow[place].status = "running"
          /\ stageRow[place].turns \in Seq({"accepted", "rejected", "failed"})
          /\ outcome # "hit" /\ Len(stageRow[place].turns) <= Corrections
          /\ AllRejected(stageRow[place].turns)
      BY <1>1, <2>1 DEF HistoryInv, AttemptIsCurrent, AttemptRow
    <3>3. /\ asked \in Seq({"accepted", "rejected", "failed"})
          /\ Len(asked) = Len(stageRow[place].turns) + 1 /\ asked[Len(asked)] = result
          /\ \A i \in 1 .. Len(stageRow[place].turns) : asked[i] = "rejected"
      BY <3>2 DEF AllRejected
    <3>4. row \in AttemptRow /\ row.status = "running" /\ row.turns = asked
      BY <3>2, <3>3 DEF AttemptRow
    <3> HIDE DEF row, asked
    <3>5. Len(asked) \in Nat /\ Len(stageRow[place].turns) \in Nat
      BY <3>2, <3>3
    <3>6. result = "accepted" => Conclusive(asked)
      <4> SUFFICES ASSUME result = "accepted" PROVE Conclusive(asked)
        OBVIOUS
      <4>1. Len(asked) \in 1 .. Corrections + 1
        BY <3>2, <3>3, <3>5
      <4>2. ASSUME NEW i \in 1 .. Len(asked) PROVE (asked[i] = "accepted") = (i = Len(asked))
        <5>1. CASE i = Len(asked)
          BY <3>3, <5>1
        <5>2. CASE i # Len(asked)
          <6>1. i \in 1 .. Len(stageRow[place].turns)
            BY <3>3, <3>5, <5>2
          <6>2. asked[i] = "rejected"
            BY <3>3, <6>1
          <6> QED
            BY <5>2, <6>2
        <5> QED
          BY <5>1, <5>2
      <4> QED
        BY <4>1, <4>2 DEF Conclusive
    <3>7. result = "rejected" => AllRejected(asked)
      BY <3>3, <3>5 DEF AllRejected
    <3> QED
      BY <2>1, <3>1, <3>2, <3>4, <3>6, <3>7, AttemptKeepsHistoryInv
  <2> QED
    BY <2>2, <2>3
<1> QED
  BY <1>3, <1>4, <1>5, <1>6, <1>7, <1>8

\* Every step.
LEMMA StepKeepsHistoryInv ==
    ASSUME HistoryInv, HistoryNext \/ UNCHANGED historyVars
    PROVE  HistoryInv'
BY RunRowSteps, FailingSteps, RecoverStagesKeepsHistoryInv, SilentSteps, StageSteps DEF HistoryNext

\* Nothing is recorded of an attempt that was just claimed.
LEMMA HistoryInitInv == HistoryInit => HistoryInv
<1> SUFFICES ASSUME HistoryInit PROVE HistoryInv
  OBVIOUS
<1>1. /\ runRow = Unrecorded /\ doing = "claimed" /\ counted = 0 /\ place = FirstPlace
      /\ \A p \in Place : stageRow[p] = Unrecorded /\ p[1] \in Nat
      /\ FirstPlace \in Place
  BY Places, NoPlace DEF HistoryInit
<1>2. HistoryTypeOK
  BY NoPlace DEF HistoryInit, HistoryTypeOK, Disposition
<1>3. \A p \in Place : ~EarlierPlace(p, FirstPlace) /\ ~(p[1] < 0)
  BY <1>1, Places DEF EarlierPlace, FirstPlace
<1>4. WorkIsInOrder
  BY <1>1, <1>3 DEF WorkIsInOrder
<1>5. AttemptIsCurrent
  BY <1>1 DEF AttemptIsCurrent, FirstPlace, Attempting, Merging, Counting1, Finishing
<1>6. CountIsTrue
  BY <1>1, <1>3 DEF CountIsTrue, FirstPlace, Here, BeforeAttempt, Attempting, Merging, Counting1, Finishing
<1>7. BlameIsTrue /\ RowFollows
  BY <1>1 DEF BlameIsTrue, RowFollows, Failing
<1>8. RunsTellTheTruth
  BY <1>1 DEF RunsTellTheTruth
<1> QED
  BY <1>2, <1>4, <1>5, <1>6, <1>7, <1>8 DEF HistoryInv

\* The history keeps its invariant: rows, counts and blame are as far as the
\* runner is.
THEOREM HistoryCorrect == HistorySpec => []HistoryInv
<1>1. HistoryInv /\ [HistoryNext]_historyVars => HistoryInv'
  BY StepKeepsHistoryInv
<1> QED
  BY <1>1, HistoryInitInv, PTL DEF HistorySpec

\* What an owner reads of a run is what happened in it, for any number of
\* paragraphs, corrections, refused statements and restarts.
THEOREM HistoryTellsTheTruth == HistorySpec => []RunsTellTheTruth
<1>1. HistoryInv => RunsTellTheTruth
  BY DEF HistoryInv
<1> QED
  BY <1>1, HistoryCorrect, PTL

-----------------------------------------------------------------------------
(* The sessions: what is under way between the app-server and its client.  *)

\* The lines of the protocol, and a text of an agent.
AgentText == [turn : Int, after : Seq(Nat)]
Threads   == {"own", "other"}
Message ==
    [kind : {"response"}, ok : BOOLEAN]
    \cup [kind : {"item/completed"}, thread : Threads, turn : Nat,
          type : {"agentMessage", "reasoning", "commandExecution"}, text : AgentText]
    \cup [kind : {"turn/completed"}, thread : Threads, turn : Nat, status : {"completed", "failed"}]
    \cup [kind : {"approval"}]

IsResponse(m) == m.kind = "response"
IsItem(m)     == m.kind = "item/completed" /\ m.thread = "own"
IsEnd(m)      == m.kind = "turn/completed" /\ m.thread = "own"

SessionTypeOK ==
    /\ session \in {"closed", "initialize", "thread/start", "open", "turn", "ended"}
    /\ replies \in Seq(AgentText) /\ messages \in Seq(Nat)
    /\ stream \in Seq(Message)
    /\ serving \in [turn : Nat, responded : BOOLEAN, told : BOOLEAN, ended : BOOLEAN]
    /\ reading \in [turn : Nat, seen : BOOLEAN, text : AgentText]

\* The answer to a turn.
AnswerTo(k) == [turn |-> k, after |-> Counting(k - 1)]

\* A session without a process keeps the turns it had.
HistoryIsKept ==
    ~Codex => /\ session \notin {"initialize", "thread/start"}
              /\ process = "none" /\ stream = <<>>
              /\ session # "ended" => messages = Counting(Len(replies))

\* Between turns nothing of a turn is left unread.
TurnsAreApart ==
    /\ Codex /\ session \in {"initialize", "thread/start"} =>
          \A i \in 1 .. Len(stream) : i = 1 /\ IsResponse(stream[i])
    /\ Codex /\ session = "closed" => stream = <<>>
    /\ Codex /\ session = "open" =>
          \A i \in 1 .. Len(stream) :
              ~IsResponse(stream[i]) /\ ~IsItem(stream[i]) /\ ~IsEnd(stream[i])

\* In a turn everything of the own thread is of this turn, there is at most
\* one response, and nothing comes after the end.
TurnIsUnderWay ==
    Codex /\ session = "turn" =>
        /\ serving.turn = Asked
        /\ reading.turn \in {0, Asked} /\ reading.text \in {NoText, AnswerTo(Asked)}
        /\ reading.seen => serving.responded
        /\ \A i \in 1 .. Len(stream) :
              /\ IsItem(stream[i]) => stream[i].turn = Asked /\ stream[i].text = AnswerTo(Asked)
              /\ IsEnd(stream[i]) => stream[i].turn = Asked /\ serving.ended
              /\ IsResponse(stream[i]) => serving.responded /\ ~reading.seen
        /\ \A i, j \in 1 .. Len(stream) :
              /\ IsResponse(stream[i]) /\ IsResponse(stream[j]) => i = j
              /\ IsEnd(stream[i]) /\ (IsItem(stream[j]) \/ IsEnd(stream[j])) => j <= i

SessionInv ==
    /\ SessionTypeOK
    /\ HistoryIsKept
    /\ TurnsAreApart
    /\ TurnIsUnderWay
    /\ AnswersFollowTheirConversation

\* Counting goes on.
LEMMA CountingGoesOn ==
    ASSUME NEW n \in Nat
    PROVE  /\ Counting(n) \in Seq(Nat) /\ Len(Counting(n)) = n
           /\ Append(Counting(n), n + 1) = Counting(n + 1)
<1>1. Counting(n) \in Seq(Nat) /\ Len(Counting(n)) = n /\ \A i \in 1 .. n : Counting(n)[i] = i
  BY DEF Counting
<1>2. Counting(n + 1) \in Seq(Nat) /\ Len(Counting(n + 1)) = n + 1
      /\ \A i \in 1 .. n + 1 : Counting(n + 1)[i] = i
  BY DEF Counting
<1>3. /\ Append(Counting(n), n + 1) \in Seq(Nat) /\ Len(Append(Counting(n), n + 1)) = n + 1
      /\ \A i \in 1 .. n + 1 : Append(Counting(n), n + 1)[i] = i
  BY <1>1
<1> QED
  BY <1>1, <1>2, <1>3

\* A line is written at the end of the stream.
LEMMA StreamGrows ==
    ASSUME SessionTypeOK, NEW m \in Message, stream' = Append(stream, m)
    PROVE  /\ stream' \in Seq(Message) /\ Len(stream') = Len(stream) + 1 /\ Len(stream) \in Nat
           /\ \A i \in 1 .. Len(stream') :
                 stream'[i] = IF i = Len(stream') THEN m ELSE stream[i]
           /\ \A i \in 1 .. Len(stream') : i # Len(stream') => i \in 1 .. Len(stream)
BY DEF SessionTypeOK

\* The first line is read.
LEMMA StreamShrinks ==
    ASSUME SessionTypeOK, stream # <<>>, stream' = Tail(stream)
    PROVE  /\ stream' \in Seq(Message) /\ Len(stream') = Len(stream) - 1 /\ Len(stream) \in Nat \ {0}
           /\ Head(stream) = stream[1] /\ Head(stream) \in Message
           /\ \A i \in 1 .. Len(stream') : stream'[i] = stream[i + 1] /\ i + 1 \in 1 .. Len(stream)
BY DEF SessionTypeOK

\* A turn that ends, or a session that never opened, leaves nothing to relate.
LEMMA EndedSessionsRest ==
    ASSUME SessionInv, SessionTypeOK', UNCHANGED <<transport, replies>>, session' = "ended",
           Codex \/ (process' = process /\ stream' = stream)
    PROVE  SessionInv'
BY DEF SessionInv, HistoryIsKept, TurnsAreApart, TurnIsUnderWay, AnswersFollowTheirConversation, Codex

\* No text is a text, and so is the answer to a turn.
LEMMA Texts ==
    /\ NoText \in AgentText
    /\ \A k \in Nat \ {0} : AnswerTo(k) \in AgentText /\ AnswerTo(k) # NoText
    /\ [turn |-> 0, after |-> <<>>] \in AgentText
<1>1. -1 \in Int /\ << >> \in Seq(Nat) /\ 0 \in Int
  OBVIOUS
<1>2. NoText \in AgentText /\ [turn |-> 0, after |-> <<>>] \in AgentText
  BY <1>1 DEF NoText, AgentText
<1>3. ASSUME NEW k \in Nat \ {0} PROVE AnswerTo(k) \in AgentText /\ AnswerTo(k) # NoText
  <2>1. k - 1 \in Nat /\ k \in Int /\ k # -1
    OBVIOUS
  <2>2. Counting(k - 1) \in Seq(Nat)
    BY <2>1, CountingGoesOn
  <2>3. AnswerTo(k) \in AgentText
    BY <2>1, <2>2 DEF AnswerTo, AgentText
  <2>4. AnswerTo(k).turn = k /\ NoText.turn = -1
    BY DEF AnswerTo, NoText
  <2> QED
    BY <2>1, <2>3, <2>4
<1> QED
  BY <1>2, <1>3

\* What the app-server writes are messages.
LEMMA Messages ==
    /\ \A ok \in BOOLEAN : /\ Response(ok) \in Message /\ IsResponse(Response(ok))
                           /\ ~IsItem(Response(ok)) /\ ~IsEnd(Response(ok))
    /\ \A k \in Nat \ {0}, type \in {"agentMessage", "reasoning", "commandExecution"} :
          LET m == ItemCompleted("own", k, type) IN
          m \in Message /\ ~IsResponse(m) /\ ~IsEnd(m) /\ m.turn = k /\ m.text = AnswerTo(k)
    /\ \A k \in Nat, status \in {"completed", "failed"} :
          LET m == TurnCompleted("own", k, status) IN
          m \in Message /\ ~IsResponse(m) /\ ~IsItem(m) /\ m.turn = k
    /\ \A m \in {ItemCompleted("other", 0, "agentMessage"), TurnCompleted("other", 0, "completed"), Approval} :
          m \in Message /\ ~IsResponse(m) /\ ~IsItem(m) /\ ~IsEnd(m)
<1>1. \A ok \in BOOLEAN : /\ Response(ok) \in Message /\ IsResponse(Response(ok))
                           /\ ~IsItem(Response(ok)) /\ ~IsEnd(Response(ok))
  BY DEF Response, Message, IsResponse, IsItem, IsEnd
<1>2. ASSUME NEW k \in Nat \ {0}, NEW type \in {"agentMessage", "reasoning", "commandExecution"}
      PROVE  LET m == ItemCompleted("own", k, type) IN
             m \in Message /\ ~IsResponse(m) /\ ~IsEnd(m) /\ m.turn = k /\ m.text = AnswerTo(k)
  <2>1. ItemCompleted("own", k, type) =
           [kind |-> "item/completed", thread |-> "own", turn |-> k, type |-> type, text |-> AnswerTo(k)]
    BY DEF ItemCompleted, AnswerTo
  <2>2. AnswerTo(k) \in AgentText
    BY Texts
  <2> QED
    BY <2>1, <2>2 DEF Message, Threads, IsResponse, IsEnd
<1>3. \A k \in Nat, status \in {"completed", "failed"} :
          LET m == TurnCompleted("own", k, status) IN
          m \in Message /\ ~IsResponse(m) /\ ~IsItem(m) /\ m.turn = k
  BY DEF TurnCompleted, Message, Threads, IsResponse, IsItem
<1>4. /\ ItemCompleted("other", 0, "agentMessage") \in Message
      /\ ~IsResponse(ItemCompleted("other", 0, "agentMessage"))
      /\ ~IsItem(ItemCompleted("other", 0, "agentMessage"))
      /\ ~IsEnd(ItemCompleted("other", 0, "agentMessage"))
  <2>1. ItemCompleted("other", 0, "agentMessage") =
           [kind |-> "item/completed", thread |-> "other", turn |-> 0, type |-> "agentMessage",
            text |-> [turn |-> 0, after |-> <<>>]]
    BY DEF ItemCompleted
  <2> QED
    BY <2>1, Texts DEF Message, Threads, IsResponse, IsItem, IsEnd
<1>5. /\ TurnCompleted("other", 0, "completed") \in Message
      /\ ~IsResponse(TurnCompleted("other", 0, "completed"))
      /\ ~IsItem(TurnCompleted("other", 0, "completed"))
      /\ ~IsEnd(TurnCompleted("other", 0, "completed"))
  BY DEF TurnCompleted, Message, Threads, IsResponse, IsItem, IsEnd
<1>6. Approval \in Message /\ ~IsResponse(Approval) /\ ~IsItem(Approval) /\ ~IsEnd(Approval)
  BY DEF Approval, Message, IsResponse, IsItem, IsEnd
<1> QED
  BY <1>1, <1>2, <1>3, <1>4, <1>5, <1>6

\* The app-server writes a line of the turn it works at, or of another thread.
LEMMA WritingKeepsSessionInv ==
    ASSUME SessionInv, session = "turn", process = "running", NEW m \in Message, Says(m),
           serving' \in [turn : Nat, responded : BOOLEAN, told : BOOLEAN, ended : BOOLEAN],
           serving'.turn = serving.turn,
           serving.responded => serving'.responded,
           serving.ended => serving'.ended,
           IsItem(m) => m.turn = Asked /\ m.text = AnswerTo(Asked) /\ ~serving.ended,
           IsEnd(m) => m.turn = Asked /\ ~serving.ended /\ serving'.ended,
           IsResponse(m) => ~serving.responded /\ serving'.responded
    PROVE  SessionInv'
<1>0. Codex /\ SessionTypeOK
  BY DEF SessionInv, HistoryIsKept
<1>1. UNCHANGED <<transport, session, replies, messages, reading, process>> /\ stream' = Append(stream, m)
  BY DEF Says, clientVars
<1>2. /\ stream' \in Seq(Message) /\ Len(stream') = Len(stream) + 1 /\ Len(stream) \in Nat
      /\ \A i \in 1 .. Len(stream') : stream'[i] = IF i = Len(stream') THEN m ELSE stream[i]
      /\ \A i \in 1 .. Len(stream') : i # Len(stream') => i \in 1 .. Len(stream)
  BY <1>0, <1>1, StreamGrows
<1>3. Asked' = Asked /\ Codex'
  BY <1>0, <1>1 DEF Asked, Codex
<1>4. TurnIsUnderWay'
  <2>0. /\ serving.turn = Asked
        /\ reading.turn \in {0, Asked} /\ reading.text \in {NoText, AnswerTo(Asked)}
        /\ reading.seen => serving.responded
        /\ \A i \in 1 .. Len(stream) :
              /\ IsItem(stream[i]) => stream[i].turn = Asked /\ stream[i].text = AnswerTo(Asked)
              /\ IsEnd(stream[i]) => stream[i].turn = Asked /\ serving.ended
              /\ IsResponse(stream[i]) => serving.responded /\ ~reading.seen
        /\ \A i, j \in 1 .. Len(stream) :
              /\ IsResponse(stream[i]) /\ IsResponse(stream[j]) => i = j
              /\ IsEnd(stream[i]) /\ (IsItem(stream[j]) \/ IsEnd(stream[j])) => j <= i
    BY <1>0 DEF SessionInv, TurnIsUnderWay
  <2>1. ASSUME NEW i \in 1 .. Len(stream')
        PROVE  /\ IsItem(stream'[i]) => stream'[i].turn = Asked /\ stream'[i].text = AnswerTo(Asked)
               /\ IsEnd(stream'[i]) => stream'[i].turn = Asked /\ serving'.ended
               /\ IsResponse(stream'[i]) => serving'.responded /\ ~reading.seen
    BY <1>2, <2>0, <2>1
  <2>2. ASSUME NEW i \in 1 .. Len(stream'), NEW j \in 1 .. Len(stream')
        PROVE  IsResponse(stream'[i]) /\ IsResponse(stream'[j]) => i = j
    BY <1>2, <2>0, <2>2
  <2>3. ASSUME NEW i \in 1 .. Len(stream'), NEW j \in 1 .. Len(stream')
        PROVE  IsEnd(stream'[i]) /\ (IsItem(stream'[j]) \/ IsEnd(stream'[j])) => j <= i
    <3>1. CASE i = Len(stream')
      BY <1>2, <3>1
    <3>2. CASE i # Len(stream') /\ j = Len(stream')
      BY <1>2, <2>0, <3>2
    <3>3. CASE i # Len(stream') /\ j # Len(stream')
      BY <1>2, <2>0, <3>3
    <3> QED
      BY <3>1, <3>2, <3>3
  <2>4. /\ serving'.turn = Asked /\ (reading.seen => serving'.responded)
    BY <2>0
  <2>5. /\ \A i \in 1 .. Len(stream') :
              /\ IsItem(stream'[i]) => stream'[i].turn = Asked /\ stream'[i].text = AnswerTo(Asked)
              /\ IsEnd(stream'[i]) => stream'[i].turn = Asked /\ serving'.ended
              /\ IsResponse(stream'[i]) => serving'.responded /\ ~reading.seen
        /\ \A i, j \in 1 .. Len(stream') :
              /\ IsResponse(stream'[i]) /\ IsResponse(stream'[j]) => i = j
              /\ IsEnd(stream'[i]) /\ (IsItem(stream'[j]) \/ IsEnd(stream'[j])) => j <= i
    BY <2>1, <2>2, <2>3
  <2>6. reading' = reading
    BY <1>1
  <2>7. Asked' = Asked
    BY <1>3
  <2> QED
    BY <2>0, <2>4, <2>5, <2>6, <2>7 DEF TurnIsUnderWay, IsItem, IsEnd, IsResponse, AnswerTo
<1>5. SessionTypeOK'
  BY <1>0, <1>1, <1>2 DEF SessionTypeOK
<1>6. HistoryIsKept' /\ TurnsAreApart' /\ AnswersFollowTheirConversation'
  BY <1>0, <1>1, <1>3 DEF SessionInv, HistoryIsKept, TurnsAreApart, AnswersFollowTheirConversation
<1> QED
  BY <1>4, <1>5, <1>6 DEF SessionInv

\* The app-server's steps.
LEMMA ServerSteps ==
    ASSUME SessionInv, AnswersCall \/ RespondsToTurn \/ Notifies \/ Interrupts
    PROVE  SessionInv'
<1>0. SessionTypeOK
  BY DEF SessionInv
<1>1. CASE AnswersCall
  <2>1. PICK ok \in BOOLEAN : Says(Response(ok))
    BY <1>1 DEF AnswersCall
  <2>2. /\ stream' = Append(stream, Response(ok)) /\ stream = <<>> /\ Codex
        /\ session \in {"initialize", "thread/start"}
        /\ UNCHANGED <<transport, session, replies, messages, reading, process, serving>>
    BY <1>1, <2>1 DEF AnswersCall, Says, clientVars
  <2>3. Response(ok) \in Message /\ IsResponse(Response(ok))
    BY Messages
  <2>4. stream' = <<Response(ok)>> /\ stream' \in Seq(Message) /\ Len(stream') = 1 /\ stream'[1] = Response(ok)
    BY <2>2, <2>3
  <2>5. SessionTypeOK'
    BY <1>0, <2>2, <2>4 DEF SessionTypeOK
  <2>6. \A i \in 1 .. Len(stream') : i = 1 /\ IsResponse(stream'[i])
    BY <2>3, <2>4
  <2>7. TurnsAreApart'
    BY <2>2, <2>6 DEF TurnsAreApart, IsResponse
  <2> QED
    BY <2>2, <2>5, <2>7
    DEF SessionInv, HistoryIsKept, TurnIsUnderWay, AnswersFollowTheirConversation, Codex
<1>2. CASE RespondsToTurn
  <2>1. PICK ok \in BOOLEAN : Says(Response(ok))
    BY <1>2 DEF RespondsToTurn
  <2>2. /\ Response(ok) \in Message /\ IsResponse(Response(ok))
        /\ ~IsItem(Response(ok)) /\ ~IsEnd(Response(ok))
    BY Messages
  <2>3. /\ serving' \in [turn : Nat, responded : BOOLEAN, told : BOOLEAN, ended : BOOLEAN]
        /\ serving'.turn = serving.turn /\ serving'.responded /\ serving'.ended = serving.ended
        /\ ~serving.responded
    BY <1>0, <1>2 DEF RespondsToTurn, SessionTypeOK
  <2>4. session = "turn" /\ process = "running"
    BY <1>2 DEF RespondsToTurn
  <2> QED
    BY <2>1, <2>2, <2>3, <2>4, WritingKeepsSessionInv
<1>3. CASE Notifies
  <2>0. /\ session = "turn" /\ process = "running" /\ ~serving.ended /\ Codex
        /\ serving.turn = Asked /\ Asked \in Nat \ {0}
    BY <1>0, <1>3 DEF Notifies, SessionInv, HistoryIsKept, TurnIsUnderWay, SessionTypeOK, Asked
  <2>1. CASE /\ \E type \in {"agentMessage", "reasoning", "commandExecution"} :
                   Says(ItemCompleted("own", serving.turn, type))
             /\ serving' = [serving EXCEPT !.told = TRUE]
    <3>1. PICK type \in {"agentMessage", "reasoning", "commandExecution"} :
              Says(ItemCompleted("own", Asked, type))
      BY <2>0, <2>1
    <3> DEFINE m == ItemCompleted("own", Asked, type)
    <3>2. m \in Message /\ ~IsResponse(m) /\ ~IsEnd(m) /\ m.turn = Asked /\ m.text = AnswerTo(Asked)
      BY <2>0, Messages
    <3>3. /\ serving' \in [turn : Nat, responded : BOOLEAN, told : BOOLEAN, ended : BOOLEAN]
          /\ serving'.turn = serving.turn /\ serving'.responded = serving.responded
          /\ serving'.ended = serving.ended
      BY <1>0, <2>1 DEF SessionTypeOK
    <3>4. Says(m)
      BY <3>1
    <3> HIDE DEF m
    <3> QED
      BY <2>0, <3>2, <3>3, <3>4, WritingKeepsSessionInv
  <2>2. CASE /\ \E status \in {"completed", "failed"} : Says(TurnCompleted("own", serving.turn, status))
             /\ serving' = [serving EXCEPT !.ended = TRUE]
    <3>1. PICK status \in {"completed", "failed"} : Says(TurnCompleted("own", Asked, status))
      BY <2>0, <2>2
    <3> DEFINE m == TurnCompleted("own", Asked, status)
    <3>2. m \in Message /\ ~IsResponse(m) /\ ~IsItem(m) /\ m.turn = Asked
      BY <2>0, Messages
    <3>3. /\ serving' \in [turn : Nat, responded : BOOLEAN, told : BOOLEAN, ended : BOOLEAN]
          /\ serving'.turn = serving.turn /\ serving'.responded = serving.responded
          /\ serving'.ended
      BY <1>0, <2>2 DEF SessionTypeOK
    <3>4. Says(m)
      BY <3>1
    <3> HIDE DEF m
    <3> QED
      BY <2>0, <3>2, <3>3, <3>4, WritingKeepsSessionInv
  <2> QED
    BY <1>3, <2>1, <2>2 DEF Notifies
<1>4. CASE Interrupts
  <2>1. PICK m \in {ItemCompleted("other", 0, "agentMessage"), TurnCompleted("other", 0, "completed"), Approval} :
            Says(m)
    BY <1>4 DEF Interrupts
  <2>2. m \in Message /\ ~IsResponse(m) /\ ~IsItem(m) /\ ~IsEnd(m)
    BY Messages
  <2>3. session = "turn" /\ process = "running" /\ serving' = serving
    BY <1>4 DEF Interrupts
  <2> QED
    BY <1>0, <2>1, <2>2, <2>3, WritingKeepsSessionInv DEF SessionTypeOK
<1> QED
  BY <1>1, <1>2, <1>3, <1>4

\* A session that ends because of a failed turn, or is cleaned up.
LEMMA EndingSteps ==
    ASSUME SessionInv, FailTurn \/ CleanUp, transport' = transport, serving' = serving,
           stream' \in Seq(Message), Codex \/ stream' = stream
    PROVE  SessionInv'
<1>1. SessionTypeOK
  BY DEF SessionInv
<1>2. /\ session' = "ended" /\ replies' = replies /\ reading' = reading
      /\ messages' = messages \/ messages' = <<>>
      /\ ~Codex => process' = process
  BY DEF FailTurn, CleanUp
<1>3. SessionTypeOK'
  <2>1. << >> \in Seq(Nat)
    OBVIOUS
  <2>2. messages' \in Seq(Nat)
    BY <1>1, <1>2, <2>1 DEF SessionTypeOK
  <2>3. stream' \in Seq(Message)
    OBVIOUS
  <2> HIDE DEF Message
  <2> QED
    BY <1>1, <1>2, <2>2, <2>3 DEF SessionTypeOK
<1>4. Codex \/ (process' = process /\ stream' = stream)
  BY <1>2
<1> QED
  BY <1>2, <1>3, <1>4, EndedSessionsRest

\* Opening, closing, starting a turn and a chat that is answered.
LEMMA ClientSteps ==
    ASSUME SessionInv, OpenSession \/ CloseSession \/ StartTurn \/ CompleteChat \/ BreakOff
    PROVE  SessionInv'
<1>0. SessionTypeOK
  BY DEF SessionInv
<1>1. CASE OpenSession
  <2>1. /\ session = "closed" /\ UNCHANGED <<transport, replies, messages, reading, stream, serving, noise>>
        /\ IF Codex THEN session' = "initialize" ELSE session' = "open" /\ process' = process
        /\ replies = <<>>
    BY <1>1 DEF OpenSession, Quiet, serverVars
  <2>2. SessionTypeOK'
    BY <1>0, <2>1 DEF SessionTypeOK
  <2>3. HistoryIsKept'
    BY <2>1 DEF SessionInv, HistoryIsKept, Codex
  <2>4. Codex /\ session = "closed" => stream = <<>>
    BY DEF SessionInv, TurnsAreApart
  <2>5. Codex => \A i \in 1 .. Len(stream) : FALSE
    BY <2>1, <2>4
  <2>6. TurnsAreApart' /\ TurnIsUnderWay'
    BY <2>1, <2>5 DEF TurnsAreApart, TurnIsUnderWay, Codex
  <2> QED
    BY <2>1, <2>2, <2>3, <2>6 DEF SessionInv, AnswersFollowTheirConversation
<1>2. CASE CloseSession
  <2>1. CleanUp /\ transport' = transport /\ serving' = serving /\ stream' = stream
    BY <1>2 DEF CloseSession, Quiet, serverVars
  <2>2. stream' \in Seq(Message)
    BY <1>0, <2>1 DEF SessionTypeOK
  <2> QED
    BY <2>1, <2>2, EndingSteps
<1>3. CASE StartTurn
  <2>1. /\ session = "open" /\ session' = "turn" /\ reading' = Unread
        /\ UNCHANGED <<transport, replies, messages, stream, process>>
        /\ IF Codex THEN serving' = [turn |-> Asked, responded |-> FALSE, told |-> FALSE, ended |-> FALSE]
           ELSE serving' = serving
    BY <1>3 DEF StartTurn
  <2>2. Asked \in Nat \ {0}
    BY <1>0 DEF SessionTypeOK, Asked
  <2>3. SessionTypeOK'
    <3>1. reading' \in [turn : Nat, seen : BOOLEAN, text : AgentText]
      BY <2>1, Texts DEF Unread
    <3>2. serving' \in [turn : Nat, responded : BOOLEAN, told : BOOLEAN, ended : BOOLEAN]
      <4>1. CASE Codex
        <5>1. Asked \in Nat
          BY <2>2
        <5>2. serving' = [turn |-> Asked, responded |-> FALSE, told |-> FALSE, ended |-> FALSE]
          BY <2>1, <4>1
        <5> QED
          BY <5>1, <5>2
      <4>2. CASE ~Codex
        BY <1>0, <2>1, <4>2 DEF SessionTypeOK
      <4> QED
        BY <4>1, <4>2
    <3> QED
      BY <1>0, <2>1, <3>1, <3>2 DEF SessionTypeOK
  <2>4. HistoryIsKept'
    BY <2>1 DEF SessionInv, HistoryIsKept, Codex
  <2>5. TurnsAreApart'
    BY <2>1 DEF TurnsAreApart
  <2>6. TurnIsUnderWay'
    <3>1. SUFFICES ASSUME Codex PROVE TurnIsUnderWay'
      BY <2>1 DEF TurnIsUnderWay, Codex
    <3>2. \A i \in 1 .. Len(stream) :
              ~IsResponse(stream[i]) /\ ~IsItem(stream[i]) /\ ~IsEnd(stream[i])
      BY <2>1, <3>1 DEF SessionInv, TurnsAreApart
    <3>3. /\ serving'.turn = Asked' /\ reading'.turn = 0 /\ reading'.text = NoText /\ ~reading'.seen
      BY <2>1, <3>1 DEF Asked, Unread
    <3> QED
      BY <2>1, <3>2, <3>3 DEF TurnIsUnderWay, IsResponse, IsItem, IsEnd
  <2> QED
    BY <2>1, <2>3, <2>4, <2>5, <2>6 DEF SessionInv, AnswersFollowTheirConversation
<1>4. CASE CompleteChat
  <2>0. ~Codex /\ session = "turn" /\ transport' = transport /\ serving' = serving /\ stream' = stream
    BY <1>4 DEF CompleteChat, Quiet, serverVars
  <2>1. CASE /\ Return([turn |-> Asked, after |-> messages]) /\ messages' = Append(messages, Asked)
             /\ UNCHANGED <<reading, process, directory>>
    <3>1. messages = Counting(Asked - 1) /\ Asked \in Nat \ {0} /\ Len(replies) = Asked - 1
          /\ Len(replies) \in Nat /\ Counting(Len(replies)) = messages /\ Asked = Len(replies) + 1
      BY <1>0, <2>0 DEF SessionInv, HistoryIsKept, SessionTypeOK, Asked
    <3>2. [turn |-> Asked, after |-> messages] = AnswerTo(Asked) /\ AnswerTo(Asked) \in AgentText
      BY <3>1, Texts DEF AnswerTo
    <3>3. /\ session' = "open" /\ replies' = Append(replies, AnswerTo(Asked))
      BY <2>1, <3>2 DEF Return
    <3>4. /\ replies' \in Seq(AgentText) /\ Len(replies') = Asked
          /\ \A k \in 1 .. Len(replies') : replies'[k] = IF k = Asked THEN AnswerTo(Asked) ELSE replies[k]
      BY <1>0, <3>1, <3>2, <3>3 DEF SessionTypeOK
    <3>5. messages' = Counting(Len(replies')) /\ messages' \in Seq(Nat)
      BY <2>1, <3>1, <3>4, CountingGoesOn
    <3>6. SessionTypeOK'
      BY <1>0, <2>0, <2>1, <3>3, <3>4, <3>5 DEF SessionTypeOK
    <3>7. AnswersFollowTheirConversation'
      BY <3>1, <3>4 DEF SessionInv, AnswersFollowTheirConversation, AnswerTo
    <3>8. HistoryIsKept'
      BY <2>0, <2>1, <3>3, <3>5 DEF SessionInv, HistoryIsKept, Codex
    <3> QED
      BY <2>0, <3>3, <3>6, <3>7, <3>8 DEF SessionInv, TurnsAreApart, TurnIsUnderWay, Codex
  <2>2. CASE FailTurn
    <3>1. stream' \in Seq(Message)
      BY <1>0, <2>0 DEF SessionTypeOK
    <3> QED
      BY <2>0, <2>2, <3>1, EndingSteps
  <2> QED
    BY <1>4, <2>1, <2>2 DEF CompleteChat
<1>5. CASE BreakOff
  <2>1. (FailTurn \/ CleanUp) /\ transport' = transport /\ serving' = serving /\ stream' = stream
    BY <1>5 DEF BreakOff, Quiet, serverVars
  <2>2. stream' \in Seq(Message)
    BY <1>0, <2>1 DEF SessionTypeOK
  <2> QED
    BY <2>1, <2>2, EndingSteps
<1> QED
  BY <1>1, <1>2, <1>3, <1>4, <1>5

\* The call that opens a session reads its response.
LEMMA ReadCallKeepsSessionInv ==
    ASSUME SessionInv, ReadCall
    PROVE  SessionInv'
<1>0. SessionTypeOK /\ Codex
  BY DEF SessionInv, HistoryIsKept, ReadCall
<1>1. /\ session \in {"initialize", "thread/start"} /\ stream # <<>> /\ stream' = Tail(stream)
      /\ UNCHANGED <<transport, serving>>
  BY DEF ReadCall
<1>2. /\ stream' \in Seq(Message) /\ Len(stream') = Len(stream) - 1 /\ Len(stream) \in Nat \ {0}
      /\ \A i \in 1 .. Len(stream') : stream'[i] = stream[i + 1] /\ i + 1 \in 1 .. Len(stream)
  BY <1>0, <1>1, StreamShrinks
<1>3. \A i \in 1 .. Len(stream) : i = 1
  BY <1>0, <1>1 DEF SessionInv, TurnsAreApart
<1>4. \A i \in 1 .. Len(stream') : FALSE
  BY <1>2, <1>3
<1>5. CASE /\ session' = IF session = "initialize" THEN "thread/start" ELSE "open"
           /\ UNCHANGED <<replies, messages, reading, process, directory>>
  <2>1. SessionTypeOK'
    BY <1>0, <1>1, <1>2, <1>5 DEF SessionTypeOK
  <2>2. TurnsAreApart'
    BY <1>1, <1>4, <1>5 DEF TurnsAreApart
  <2>3. HistoryIsKept' /\ TurnIsUnderWay' /\ AnswersFollowTheirConversation'
    BY <1>0, <1>1, <1>5
    DEF SessionInv, HistoryIsKept, TurnIsUnderWay, AnswersFollowTheirConversation, Codex
  <2> QED
    BY <2>1, <2>2, <2>3 DEF SessionInv
<1>6. CASE CleanUp
  BY <1>0, <1>1, <1>2, <1>6, EndingSteps
<1> QED
  BY <1>5, <1>6 DEF ReadCall

\* A turn reads on: what is left of its stream is still of this turn.
LEMMA ReadingOnKeepsSessionInv ==
    ASSUME SessionInv, Codex, session = "turn", stream # <<>>, stream' = Tail(stream),
           UNCHANGED <<transport, serving, session, replies, messages>>,
           reading' \in [turn : Nat, seen : BOOLEAN, text : AgentText],
           reading'.turn \in {0, Asked}, reading'.text \in {NoText, AnswerTo(Asked)},
           reading'.seen # reading.seen => IsResponse(Head(stream)),
           reading.seen => reading'.seen
    PROVE  SessionInv'
<1>0. SessionTypeOK
  BY DEF SessionInv
<1>1. /\ stream' \in Seq(Message) /\ Len(stream') = Len(stream) - 1 /\ Len(stream) \in Nat \ {0}
      /\ Head(stream) = stream[1]
      /\ \A i \in 1 .. Len(stream') : stream'[i] = stream[i + 1] /\ i + 1 \in 1 .. Len(stream)
  BY <1>0, StreamShrinks
<1>2. Asked' = Asked /\ Codex'
  BY DEF Asked, Codex
<1>3. /\ serving.turn = Asked
      /\ reading.seen => serving.responded
      /\ \A i \in 1 .. Len(stream) :
            /\ IsItem(stream[i]) => stream[i].turn = Asked /\ stream[i].text = AnswerTo(Asked)
            /\ IsEnd(stream[i]) => stream[i].turn = Asked /\ serving.ended
            /\ IsResponse(stream[i]) => serving.responded /\ ~reading.seen
      /\ \A i, j \in 1 .. Len(stream) :
            /\ IsResponse(stream[i]) /\ IsResponse(stream[j]) => i = j
            /\ IsEnd(stream[i]) /\ (IsItem(stream[j]) \/ IsEnd(stream[j])) => j <= i
  BY DEF SessionInv, TurnIsUnderWay
<1>4. 1 \in 1 .. Len(stream)
  BY <1>1
<1>5. reading'.seen => serving.responded
  BY <1>1, <1>3, <1>4, <1>0 DEF SessionTypeOK
<1>6. ASSUME NEW i \in 1 .. Len(stream')
      PROVE  /\ IsItem(stream'[i]) => stream'[i].turn = Asked /\ stream'[i].text = AnswerTo(Asked)
             /\ IsEnd(stream'[i]) => stream'[i].turn = Asked /\ serving.ended
             /\ IsResponse(stream'[i]) => serving.responded /\ ~reading'.seen
  <2>1. stream'[i] = stream[i + 1] /\ i + 1 \in 1 .. Len(stream) /\ i + 1 # 1
    BY <1>1
  <2>2. IsResponse(stream[i + 1]) => ~IsResponse(stream[1])
    BY <1>3, <1>4, <2>1
  <2>3. IsResponse(stream[i + 1]) => ~reading'.seen
    BY <1>0, <1>1, <1>3, <2>1, <2>2 DEF SessionTypeOK
  <2> QED
    BY <1>3, <2>1, <2>3
<1>7. ASSUME NEW i \in 1 .. Len(stream'), NEW j \in 1 .. Len(stream')
      PROVE  /\ IsResponse(stream'[i]) /\ IsResponse(stream'[j]) => i = j
             /\ IsEnd(stream'[i]) /\ (IsItem(stream'[j]) \/ IsEnd(stream'[j])) => j <= i
  <2>1. /\ stream'[i] = stream[i + 1] /\ i + 1 \in 1 .. Len(stream)
        /\ stream'[j] = stream[j + 1] /\ j + 1 \in 1 .. Len(stream)
    BY <1>1
  <2>2. /\ i + 1 = j + 1 => i = j
        /\ j + 1 <= i + 1 => j <= i
    OBVIOUS
  <2> QED
    BY <1>3, <2>1, <2>2
<1>8. TurnIsUnderWay'
  BY <1>2, <1>3, <1>5, <1>6, <1>7 DEF TurnIsUnderWay, IsItem, IsEnd, IsResponse, AnswerTo
<1>9. SessionTypeOK'
  BY <1>0, <1>1 DEF SessionTypeOK
<1>10. HistoryIsKept' /\ TurnsAreApart' /\ AnswersFollowTheirConversation'
  BY <1>2 DEF SessionInv, HistoryIsKept, TurnsAreApart, AnswersFollowTheirConversation
<1> QED
  BY <1>8, <1>9, <1>10 DEF SessionInv

\* The end of a turn that was answered: the answer is the turn's, and nothing
\* of the turn is left to be taken for the next one's.
LEMMA TurnReturns ==
    ASSUME SessionInv, Codex, session = "turn", stream # <<>>, stream' = Tail(stream),
           UNCHANGED <<transport, serving, messages, reading, process>>,
           IsEnd(Head(stream)), reading.seen, reading.text # NoText, Return(reading.text)
    PROVE  SessionInv'
<1>0. SessionTypeOK
  BY DEF SessionInv
<1>1. /\ stream' \in Seq(Message) /\ Len(stream') = Len(stream) - 1 /\ Len(stream) \in Nat \ {0}
      /\ Head(stream) = stream[1]
      /\ \A i \in 1 .. Len(stream') : stream'[i] = stream[i + 1] /\ i + 1 \in 1 .. Len(stream)
  BY <1>0, StreamShrinks
<1>2. /\ reading.text = AnswerTo(Asked)
      /\ \A i \in 1 .. Len(stream) : ~IsResponse(stream[i])
      /\ \A i, j \in 1 .. Len(stream) :
            IsEnd(stream[i]) /\ (IsItem(stream[j]) \/ IsEnd(stream[j])) => j <= i
  BY DEF SessionInv, TurnIsUnderWay
<1>3. 1 \in 1 .. Len(stream)
  BY <1>1
<1>4. ASSUME NEW i \in 1 .. Len(stream')
      PROVE  ~IsResponse(stream'[i]) /\ ~IsItem(stream'[i]) /\ ~IsEnd(stream'[i])
  <2>1. stream'[i] = stream[i + 1] /\ i + 1 \in 1 .. Len(stream) /\ ~(i + 1 <= 1)
    BY <1>1
  <2> QED
    BY <1>1, <1>2, <1>3, <2>1
<1>5. Asked \in Nat \ {0} /\ Len(replies) = Asked - 1
  BY <1>0 DEF SessionTypeOK, Asked
<1>6. session' = "open" /\ replies' = Append(replies, AnswerTo(Asked))
  BY <1>2 DEF Return
<1>7. AnswerTo(Asked) \in AgentText
  BY <1>5, Texts
<1>8. /\ replies' \in Seq(AgentText) /\ Len(replies') = Asked
      /\ \A k \in 1 .. Len(replies') : replies'[k] = IF k = Asked THEN AnswerTo(Asked) ELSE replies[k]
  BY <1>0, <1>5, <1>6, <1>7 DEF SessionTypeOK
<1>9. SessionTypeOK'
  BY <1>0, <1>1, <1>6, <1>8 DEF SessionTypeOK
<1>10. AnswersFollowTheirConversation'
  <2>1. ASSUME NEW k \in 1 .. Len(replies')
        PROVE  replies'[k] = [turn |-> k, after |-> Counting(k - 1)]
    <3>1. CASE k = Asked
      BY <1>8, <3>1 DEF AnswerTo
    <3>2. CASE k # Asked
      <4>1. k \in 1 .. Len(replies) /\ replies'[k] = replies[k]
        BY <1>5, <1>8, <3>2
      <4> QED
        BY <4>1 DEF SessionInv, AnswersFollowTheirConversation
    <3> QED
      BY <3>1, <3>2
  <2> QED
    BY <2>1 DEF AnswersFollowTheirConversation, Counting
<1>11. TurnsAreApart'
  BY <1>4, <1>6 DEF TurnsAreApart, IsResponse, IsItem, IsEnd
<1> QED
  BY <1>6, <1>9, <1>10, <1>11 DEF SessionInv, HistoryIsKept, TurnIsUnderWay, Codex

\* A turn reads a line.
LEMMA ReadTurnKeepsSessionInv ==
    ASSUME SessionInv, ReadTurn
    PROVE  SessionInv'
<1>0. SessionTypeOK /\ Codex /\ session = "turn" /\ stream # <<>> /\ stream' = Tail(stream)
      /\ UNCHANGED <<transport, serving>>
  BY DEF SessionInv, HistoryIsKept, ReadTurn
<1> DEFINE m == Head(stream)
<1>1. /\ stream' \in Seq(Message) /\ m = stream[1] /\ m \in Message /\ 1 \in 1 .. Len(stream)
  BY <1>0, StreamShrinks
<1>2. /\ reading \in [turn : Nat, seen : BOOLEAN, text : AgentText]
      /\ reading.turn \in {0, Asked} /\ reading.text \in {NoText, AnswerTo(Asked)}
      /\ IsItem(m) => m.turn = Asked /\ m.text = AnswerTo(Asked)
  BY <1>0, <1>1 DEF SessionInv, TurnIsUnderWay, SessionTypeOK
<1>3. Asked \in Nat \ {0} /\ AnswerTo(Asked) \in AgentText
  BY <1>0, Texts DEF SessionTypeOK, Asked
<1>4. CASE FailTurn
  BY <1>0, <1>1, <1>4, EndingSteps
<1>5. CASE UNCHANGED <<session, replies, messages, reading, process, directory>>
  BY <1>0, <1>2, <1>5, ReadingOnKeepsSessionInv
<1>6. CASE IsResponse(m) /\ ReadResponse(m)
  <2>1. CASE m.ok
    <3>1. /\ reading' = [reading EXCEPT !.seen = TRUE, !.turn = Asked]
          /\ UNCHANGED <<session, replies, messages, process, directory>>
      BY <1>6, <2>1 DEF ReadResponse
    <3>2. /\ reading' \in [turn : Nat, seen : BOOLEAN, text : AgentText]
          /\ reading'.turn = Asked /\ reading'.text = reading.text /\ reading'.seen
      BY <1>2, <1>3, <3>1
    <3> QED
      BY <1>0, <1>2, <1>6, <3>1, <3>2, ReadingOnKeepsSessionInv
  <2>2. CASE ~m.ok
    BY <1>4, <1>6, <2>2 DEF ReadResponse
  <2> QED
    BY <2>1, <2>2
<1>7. CASE m.kind = "item/completed" /\ ReadItem(m)
  <2>1. CASE OwnItem(m) /\ m.type = "agentMessage"
    <3>1. /\ reading' = [reading EXCEPT !.text = m.text]
          /\ UNCHANGED <<session, replies, messages, process, directory>>
      BY <1>7, <2>1 DEF ReadItem
    <3>2. m.text = AnswerTo(Asked)
      BY <1>2, <1>7, <2>1 DEF IsItem, OwnItem
    <3>3. /\ reading' \in [turn : Nat, seen : BOOLEAN, text : AgentText]
          /\ reading'.turn = reading.turn /\ reading'.text = AnswerTo(Asked) /\ reading'.seen = reading.seen
      BY <1>2, <1>3, <3>1, <3>2
    <3> QED
      BY <1>0, <1>2, <3>1, <3>3, ReadingOnKeepsSessionInv
  <2>2. CASE ~(OwnItem(m) /\ m.type = "agentMessage")
    BY <1>4, <1>5, <1>7, <2>2 DEF ReadItem
  <2> QED
    BY <2>1, <2>2
<1>8. CASE m.kind = "turn/completed" /\ ReadEnd(m)
  <2>1. CASE OwnEnd(m) /\ m.status = "completed" /\ reading.seen /\ reading.text # NoText
    <3>1. Return(reading.text) /\ UNCHANGED <<messages, reading, process, directory>>
      BY <1>8, <2>1 DEF ReadEnd
    <3>2. IsEnd(m)
      BY <1>8, <2>1 DEF IsEnd, OwnEnd
    <3> QED
      BY <1>0, <2>1, <3>1, <3>2, TurnReturns
  <2>2. CASE ~(OwnEnd(m) /\ m.status = "completed" /\ reading.seen /\ reading.text # NoText)
    BY <1>4, <1>5, <1>8, <2>2 DEF ReadEnd
  <2> QED
    BY <2>1, <2>2
<1>9. IsResponse(m) \/ m.kind = "item/completed" \/ m.kind = "turn/completed" \/ m.kind = "approval"
  BY <1>1 DEF Message, IsResponse
<1>10. IF total = MaxLines \/ m.kind = "approval" THEN FailTurn
       ELSE CASE m.kind = "response"       -> ReadResponse(m)
              [] m.kind = "item/completed" -> ReadItem(m)
              [] m.kind = "turn/completed" -> ReadEnd(m)
  BY DEF ReadTurn
<1> QED
  <2>1. CASE total = MaxLines \/ m.kind = "approval"
    BY <1>4, <1>10, <2>1
  <2>2. CASE ~(total = MaxLines \/ m.kind = "approval")
    <3> HIDE DEF m
    <3>1. CASE IsResponse(m)
      <4>1. ReadResponse(m)
        BY <1>10, <2>2, <3>1 DEF IsResponse
      <4> QED
        BY <1>6, <3>1, <4>1
    <3>2. CASE m.kind = "item/completed"
      <4>1. ReadItem(m)
        BY <1>10, <2>2, <3>2
      <4> QED
        BY <1>7, <3>2, <4>1
    <3>3. CASE m.kind = "turn/completed"
      <4>1. ReadEnd(m)
        BY <1>10, <2>2, <3>3
      <4> QED
        BY <1>8, <3>3, <4>1
    <3> QED
      BY <1>9, <2>2, <3>1, <3>2, <3>3
  <2> QED
    BY <2>1, <2>2

\* The inductive step.
LEMMA SessionStep ==
    ASSUME SessionInv, [SessionsNext]_sessionVars
    PROVE  SessionInv'
<1>1. CASE AnswersCall \/ RespondsToTurn \/ Notifies \/ Interrupts
  BY <1>1, ServerSteps
<1>2. CASE OpenSession \/ CloseSession \/ StartTurn \/ CompleteChat \/ BreakOff
  BY <1>2, ClientSteps
<1>3. CASE ReadTurn
  BY <1>3, ReadTurnKeepsSessionInv
<1>4. CASE ReadCall
  BY <1>4, ReadCallKeepsSessionInv
<1>5. CASE UNCHANGED sessionVars
  BY <1>5
  DEF SessionInv, SessionTypeOK, HistoryIsKept, TurnsAreApart, TurnIsUnderWay,
      AnswersFollowTheirConversation, sessionVars, serverVars, clientVars, Codex, Asked
<1> QED
  BY <1>1, <1>2, <1>3, <1>4, <1>5 DEF SessionsNext

\* A session begins with nothing said.
LEMMA SessionsInitInv == SessionsInit => SessionInv
<1> SUFFICES ASSUME SessionsInit PROVE SessionInv
  OBVIOUS
<1>1. SessionTypeOK
  <2>1. replies \in Seq(AgentText) /\ messages \in Seq(Nat) /\ stream \in Seq(Message)
    BY DEF SessionsInit
  <2>2. reading \in [turn : Nat, seen : BOOLEAN, text : AgentText]
    BY Texts DEF SessionsInit, Unread
  <2>3. /\ serving \in [turn : Nat, responded : BOOLEAN, told : BOOLEAN, ended : BOOLEAN]
        /\ session = "closed"
    BY DEF SessionsInit, Nowhere
  <2> QED
    BY <2>1, <2>2, <2>3 DEF SessionTypeOK
<1>2. Len(replies) = 0 /\ messages = Counting(0)
  BY CountingGoesOn DEF SessionsInit
<1> QED
  BY <1>1, <1>2
  DEF SessionsInit, SessionInv, HistoryIsKept, TurnsAreApart, TurnIsUnderWay, AnswersFollowTheirConversation

\* The stream a turn reads is of that turn (codex_session.go): what is left
\* when it returns is of no turn, so that the next one cannot take it.
THEOREM SessionsCorrect == SessionsSpec => []SessionInv
<1>1. SessionsInit => SessionInv
  BY SessionsInitInv
<1>2. SessionInv /\ [SessionsNext]_sessionVars => SessionInv'
  BY SessionStep
<1> QED
  BY <1>1, <1>2, PTL DEF SessionsSpec

\* Every answer a session returns is the answer to its own turn, given after
\* the turns before it (provider.go: corrections run in the same session).
THEOREM SessionsAreConversations == SessionsSpec => []AnswersFollowTheirConversation
<1>1. SessionInv => AnswersFollowTheirConversation
  BY DEF SessionInv
<1> QED
  BY <1>1, SessionsCorrect, PTL

-----------------------------------------------------------------------------
(* The senses of an article (Compile).                                      *)

\* What of an answer points to a sense.
Points(a) == ToSet(a.tokens) \cup ToSet(a.constructions)

\* Runs are numbered upwards, and the current one is past what it published.
RunsAreNumbered ==
    /\ run.number \in Nat /\ block \in Nat
    /\ 0 \in DOMAIN article
    /\ \A b \in DOMAIN article : b \in Nat /\ 0 .. b \subseteq DOMAIN article
    /\ DOMAIN published = DOMAIN article
    /\ phase \in {"linguistic", "translation", "publish"} => block \in DOMAIN article
    /\ \A b \in DOMAIN article : published[b] # Nothing =>
          /\ published[b].run.number \in Nat
          /\ published[b].run.number <= run.number

\* A sense carried forward is one of an earlier paragraph, by the prefix of its
\* reference, and in the lexicon.
Origins(pub, p) ==
    {s \in ToSet(pub[p.ref.blocks[1]].said.senses) : Prefixed(p.ref.blocks[1], s.ref) = p.ref}
IsPublished(pub, lex, before, p) ==
    /\ p.ref.blocks[1] \in 0 .. before - 1
    /\ Origins(pub, p) # {}
    /\ \A s \in Origins(pub, p) : SenseId(s) = SenseId(p)
    /\ SenseId(p) \in DOMAIN lex
PriorIsPublished == \A p \in prior : IsPublished(published, lexicon, block, p)

CandidatesAreKnown == \A c \in candidates : c.id \in DOMAIN lexicon

\* The accepted linguistic answer points to candidates, to senses carried
\* forward and to its own.
Grounded(a, cands, senses) ==
    /\ DecodeLinguisticArtifact(a)
    /\ \A x \in Points(a) :
          /\ x.id # Nothing => \E c \in cands : c.id = x.id
          /\ x.ref # Nothing => \E s \in senses \cup ToSet(a.senses) : s.ref = x.ref
DraftIsGrounded ==
    phase \in {"translation", "publish"} =>
        Grounded(rawLinguisticArtifact(draft), Chunk.candidates, Chunk.prior)

\* The merged answer says what the linguistic one does, item by item, and more.
Extends(y, x)      == \A f \in DOMAIN x : f \in DOMAIN y /\ y[f] = x[f]
AllExtend(ys, xs)  == DOMAIN ys = DOMAIN xs /\ \A i \in DOMAIN xs : Extends(ys[i], xs[i])
Translates(r, a) ==
    /\ AllExtend(r.tokens, a.tokens) /\ AllExtend(r.senses, a.senses)
    /\ AllExtend(r.constructions, a.constructions)
MergedIsDraft == phase = "publish" => Translates(merged, rawLinguisticArtifact(draft))

\* What a published paragraph takes from others comes from before.
ReadsBefore(said, b, x) ==
    \/ x.id # Nothing \/ x.ref = Nothing
    \/ \E s \in ToSet(said.senses) : s.ref = x.ref
    \/ x.ref.blocks[1] \in 0 .. b - 1
WrittenBefore ==
    \A b \in DOMAIN article : Written(b) =>
        /\ b < block
        /\ \A x \in Points(published[b].said) : ReadsBefore(published[b].said, b, x)

CompileInv ==
    /\ RunsAreNumbered /\ PriorIsPublished /\ CandidatesAreKnown
    /\ DraftIsGrounded /\ MergedIsDraft /\ WrittenBefore
    /\ OccurrencesKeepTheirSense
-----------------------------------------------------------------------------
(* Resolving a reference.                                                   *)

\* The prefix of a reference is its first block.
LEMMA PrefixFirst ==
    ASSUME NEW b \in Nat, NEW ref \in SenseRef
    PROVE  Prefixed(b, ref) \in SenseRef /\ Prefixed(b, ref).blocks[1] = b
<1>1. <<b>> \in Seq(Nat) /\ Len(<<b>>) = 1 /\ <<b>>[1] = b
  OBVIOUS
<1>2. ref.blocks \in Seq(Nat) /\ ref.name \in DOMAIN Scalars
  BY DEF SenseRef
<1>3. <<b>> \o ref.blocks \in Seq(Nat) /\ (<<b>> \o ref.blocks)[1] = b
  BY <1>1, <1>2
<1> QED BY <1>2, <1>3 DEF Prefixed, SenseRef

\* Namespacing gives a new sense its prefix and leaves what it is.
LEMMA NamespacedSenses ==
    ASSUME NEW a, NEW r, NEW b,
           DecodeLinguisticArtifact(a), AllExtend(r.senses, a.senses)
    PROVE  LET n == NamespaceChunkResponse(b, r) IN
           /\ DOMAIN n.senses = DOMAIN a.senses
           /\ \A i \in DOMAIN a.senses :
                 /\ n.senses[i].ref = Prefixed(b, a.senses[i].ref)
                 /\ SenseId(n.senses[i]) = SenseId(a.senses[i])
                 /\ n.senses[i].canonical = a.senses[i].canonical
                 /\ n.senses[i].disc = a.senses[i].disc
                 /\ a.senses[i].ref \in SenseRef
<1> DEFINE n == NamespaceChunkResponse(b, r)
<1>1. n.senses = [i \in DOMAIN r.senses |-> With(r.senses[i], "ref", Rewrite(b, r, r.senses[i].ref))]
  BY DEF NamespaceChunkResponse
<1>2. DOMAIN n.senses = DOMAIN a.senses
  BY <1>1 DEF AllExtend
<1>3. ASSUME NEW i \in DOMAIN a.senses
      PROVE  /\ n.senses[i].ref = Prefixed(b, a.senses[i].ref)
             /\ SenseId(n.senses[i]) = SenseId(a.senses[i])
             /\ n.senses[i].canonical = a.senses[i].canonical
             /\ n.senses[i].disc = a.senses[i].disc
             /\ a.senses[i].ref \in SenseRef
  <2>1. DOMAIN a.senses[i] = {"ref", "kind", "canonical", "normalized", "disc"}
        /\ a.senses[i].ref \in SenseRef
    BY <1>3 DEF DecodeLinguisticArtifact
  <2>2. i \in DOMAIN r.senses /\ Extends(r.senses[i], a.senses[i])
    BY <1>3 DEF AllExtend
  <2>3. /\ r.senses[i].ref = a.senses[i].ref
        /\ r.senses[i].kind = a.senses[i].kind /\ "kind" \in DOMAIN r.senses[i]
        /\ r.senses[i].canonical = a.senses[i].canonical /\ "canonical" \in DOMAIN r.senses[i]
        /\ r.senses[i].disc = a.senses[i].disc /\ "disc" \in DOMAIN r.senses[i]
    BY <2>1, <2>2 DEF Extends
  <2>4. Rewrite(b, r, r.senses[i].ref) = Prefixed(b, a.senses[i].ref)
    BY <2>2, <2>3 DEF Rewrite, ToSet
  <2>5. n.senses[i] = With(r.senses[i], "ref", Prefixed(b, a.senses[i].ref))
    BY <1>1, <2>2, <2>4
  <2>6. /\ n.senses[i].ref = Prefixed(b, a.senses[i].ref)
        /\ n.senses[i].kind = a.senses[i].kind
        /\ n.senses[i].canonical = a.senses[i].canonical
        /\ n.senses[i].disc = a.senses[i].disc
    BY <2>3, <2>5 DEF With
  <2> QED BY <2>1, <2>6 DEF SenseId
<1> QED BY <1>2, <1>3

\* Of what points to a sense, it changes the reference only.
LEMMA NamespacedPoint ==
    ASSUME NEW r, NEW b, NEW x, NEW z, Extends(z, x), "id" \in DOMAIN x, "ref" \in DOMAIN x
    PROVE  LET y == With(z, "ref", Rewrite(b, r, z.ref)) IN
           /\ y.id = x.id /\ y.ref = Rewrite(b, r, x.ref)
           /\ "token" \in DOMAIN x => y.token = x.token
           /\ "members" \in DOMAIN x => y.members = x.members
<1>1. "id" \in DOMAIN z /\ z.id = x.id /\ z.ref = x.ref
      /\ ("token" \in DOMAIN x => "token" \in DOMAIN z /\ z.token = x.token)
      /\ ("members" \in DOMAIN x => "members" \in DOMAIN z /\ z.members = x.members)
  BY DEF Extends
<1> QED BY <1>1 DEF With

\* What a reference resolves to when a paragraph is published is what its
\* artifact meant, and it is in the lexicon.
LEMMA ResolvedIsMeant ==
    ASSUME NEW a, NEW r, NEW b \in Nat, NEW x, NEW y, NEW pub, NEW lex, NEW senses,
           DecodeLinguisticArtifact(a), AllExtend(r.senses, a.senses),
           ValidRefs(senses, NamespaceChunkResponse(b, r).senses),
           \A p \in senses : IsPublished(pub, lex, b, p),
           y.id = x.id, y.ref = Rewrite(b, r, x.ref), x.id = Nothing, x.ref # Nothing,
           \E s \in senses \cup ToSet(a.senses) : s.ref = x.ref
    PROVE  LET n    == NamespaceChunkResponse(b, r)
               all  == senses \cup ToSet(n.senses)
               it   == SenseId(OfRef(all, y.ref))
           IN  /\ it = Meant(pub, a, x)
               /\ it \in DOMAIN lex \cup {SenseId(s) : s \in ToSet(n.senses)}
               /\ ReadsBefore(a, b, x)
               /\ y.ref # Nothing
<1> DEFINE n   == NamespaceChunkResponse(b, r)
           all == senses \cup ToSet(n.senses)
           own == {s \in ToSet(a.senses) : s.ref = x.ref}
           chosen == OfRef(all, y.ref)
<1>1. /\ DOMAIN n.senses = DOMAIN a.senses
      /\ \A i \in DOMAIN a.senses :
            /\ n.senses[i].ref = Prefixed(b, a.senses[i].ref)
            /\ SenseId(n.senses[i]) = SenseId(a.senses[i])
  BY NamespacedSenses
<1>2. /\ \A s, t \in senses : s.ref = t.ref => s = t
      /\ \A i \in DOMAIN n.senses : \A s \in senses : n.senses[i].ref # s.ref
      /\ \A i, j \in DOMAIN n.senses : n.senses[i].ref = n.senses[j].ref => i = j
  BY DEF ValidRefs
<1>3. DOMAIN r.senses = DOMAIN a.senses /\ \A i \in DOMAIN a.senses : r.senses[i].ref = a.senses[i].ref
  BY DEF AllExtend, Extends, DecodeLinguisticArtifact
<1>4. CASE \E i \in DOMAIN a.senses : a.senses[i].ref = x.ref
  <2>1. PICK i \in DOMAIN a.senses : a.senses[i].ref = x.ref
    BY <1>4
  <2>2. y.ref = Prefixed(b, x.ref)
    BY <2>1, <1>3 DEF Rewrite, ToSet
  <2>3. n.senses[i].ref = y.ref /\ n.senses[i] \in all
    BY <2>1, <2>2, <1>1 DEF ToSet
  <2>4. chosen \in all /\ chosen.ref = y.ref
    BY <2>3 DEF OfRef
  <2>5. \A s \in all : s.ref = y.ref => s = n.senses[i]
    BY <2>1, <2>3, <1>1, <1>2 DEF ToSet
  <2>6. chosen = n.senses[i]
    BY <2>4, <2>5
  <2>7. a.senses[i] \in own /\ own # {}
    BY <2>1 DEF ToSet
  <2>8. \A s \in own : SenseId(s) = SenseId(a.senses[i])
    <3>1. SUFFICES ASSUME NEW s \in own PROVE SenseId(s) = SenseId(a.senses[i])
      OBVIOUS
    <3>2. PICK j \in DOMAIN a.senses : s = a.senses[j] /\ a.senses[j].ref = x.ref
      BY DEF ToSet
    <3>3. n.senses[j].ref = n.senses[i].ref
      BY <2>1, <3>2, <1>1
    <3> QED BY <3>2, <3>3, <1>1, <1>2, <2>1
  <2>9. SenseId(CHOOSE s \in own : TRUE) = SenseId(a.senses[i])
    BY <2>7, <2>8
  <2>10. Meant(pub, a, x) = SenseId(a.senses[i])
    BY <2>7, <2>9 DEF Meant
  <2>11. SenseId(chosen) = SenseId(a.senses[i])
    BY <2>6, <1>1
  <2>12. n.senses[i] \in ToSet(n.senses)
    BY <1>1 DEF ToSet
  <2>13. x.ref \in SenseRef
    BY <2>1, NamespacedSenses
  <2>14. y.ref # Nothing
    BY <2>2, <2>13, PrefixFirst, SemanticsAssumption
  <2> QED BY <2>6, <2>7, <2>10, <2>11, <2>12, <2>14 DEF ReadsBefore
<1>5. CASE ~ \E i \in DOMAIN a.senses : a.senses[i].ref = x.ref
  <2>1. own = {}
    BY <1>5 DEF ToSet
  <2>2. PICK p \in senses : p.ref = x.ref
    BY <1>5 DEF ToSet
  <2>3. y.ref = x.ref
    BY <1>5, <1>3 DEF Rewrite, ToSet
  <2>4. chosen \in all /\ chosen.ref = y.ref
    BY <2>2, <2>3 DEF OfRef
  <2>5. chosen = p
    BY <2>2, <2>3, <2>4, <1>2 DEF ToSet
  <2>6. IsPublished(pub, lex, b, p)
    BY <2>2
  <2>7. Meant(pub, a, x) = SenseId(CHOOSE s \in ToSet(pub[p.ref.blocks[1]].said.senses) :
                                         Prefixed(p.ref.blocks[1], s.ref) = p.ref)
    BY <2>1, <2>2 DEF Meant
  <2>8. Meant(pub, a, x) = SenseId(p)
    BY <2>6, <2>7 DEF IsPublished, Origins
  <2>9. ReadsBefore(a, b, x)
    BY <2>2, <2>6 DEF ReadsBefore, IsPublished
  <2> QED BY <2>3, <2>5, <2>6, <2>8, <2>9 DEF IsPublished
<1> QED BY <1>4, <1>5

\* A point of a published paragraph keeps its sense.
LEMMA PointKeepsSense ==
    ASSUME NEW a, NEW r, NEW b \in Nat, NEW x, NEW y, NEW pub, NEW lex, NEW senses,
           DecodeLinguisticArtifact(a), AllExtend(r.senses, a.senses),
           ValidRefs(senses, NamespaceChunkResponse(b, r).senses),
           \A p \in senses : IsPublished(pub, lex, b, p),
           y.id = x.id, y.ref = Rewrite(b, r, x.ref),
           x.id # Nothing => x.id \in DOMAIN lex,
           x.ref # Nothing => \E s \in senses \cup ToSet(a.senses) : s.ref = x.ref
    PROVE  LET n  == NamespaceChunkResponse(b, r)
               it == ResolveSense(senses \cup ToSet(n.senses), y)
           IN  /\ it = Meant(pub, a, x)
               /\ it # Nothing => it \in DOMAIN lex \cup {SenseId(s) : s \in ToSet(n.senses)}
               /\ ReadsBefore(a, b, x)
<1>1. CASE x.id # Nothing
  BY <1>1 DEF ResolveSense, Meant, ReadsBefore
<1>2. CASE x.id = Nothing /\ x.ref = Nothing
  <2>1. \A s \in ToSet(r.senses) : s.ref # Nothing
    BY SemanticsAssumption DEF AllExtend, Extends, DecodeLinguisticArtifact, ToSet
  <2>2. y.ref = Nothing
    BY <1>2, <2>1 DEF Rewrite
  <2> QED BY <1>2, <2>2 DEF ResolveSense, Meant, ReadsBefore
<1>3. CASE x.id = Nothing /\ x.ref # Nothing
  <2> DEFINE n  == NamespaceChunkResponse(b, r)
             it == SenseId(OfRef(senses \cup ToSet(n.senses), y.ref))
  <2>1. \E s \in senses \cup ToSet(a.senses) : s.ref = x.ref
    BY <1>3
  <2>2. /\ it = Meant(pub, a, x)
        /\ it \in DOMAIN lex \cup {SenseId(s) : s \in ToSet(n.senses)}
        /\ ReadsBefore(a, b, x)
        /\ y.ref # Nothing
    BY <1>3, <2>1, ResolvedIsMeant
  <2>3. ResolveSense(senses \cup ToSet(n.senses), y) = it
    BY <1>3, <2>2 DEF ResolveSense
  <2> HIDE DEF it, n
  <2> QED BY <2>2, <2>3 DEF n
<1> QED BY <1>1, <1>2, <1>3

\* So do all of them: the occurrences that a publication writes say what the
\* linguistic answer meant.
LEMMA OccurrencesSayWhatIsMeant ==
    ASSUME NEW a, NEW r, NEW b \in Nat, NEW pub, NEW lex, NEW cands, NEW senses,
           Grounded(a, cands, senses), Translates(r, a),
           ValidRefs(senses, NamespaceChunkResponse(b, r).senses),
           \A p \in senses : IsPublished(pub, lex, b, p),
           \A c \in cands : c.id \in DOMAIN lex
    PROVE  LET n   == NamespaceChunkResponse(b, r)
               xs  == Meanings(pub, a)
               all == senses \cup ToSet(n.senses)
           IN  /\ xs = {[members |-> o.members, sense |-> o.sense] : o \in Occurrences(all, n)}
               /\ \A x \in xs : x.sense # Nothing =>
                     x.sense \in DOMAIN lex \cup {SenseId(s) : s \in ToSet(n.senses)}
               /\ \A x \in Points(a) : ReadsBefore(a, b, x)
<1> DEFINE n == NamespaceChunkResponse(b, r)
           known == DOMAIN lex \cup {SenseId(s) : s \in ToSet(n.senses)}
<1>1. DecodeLinguisticArtifact(a) /\ AllExtend(r.senses, a.senses)
  BY DEF Grounded, Translates
<1>2. ASSUME NEW x \in Points(a), NEW z, Extends(z, x), "id" \in DOMAIN x, "ref" \in DOMAIN x
      PROVE  LET y == With(z, "ref", Rewrite(b, r, z.ref)) IN
             /\ ResolveSense(senses \cup ToSet(n.senses), y) = Meant(pub, a, x)
             /\ Meant(pub, a, x) # Nothing => Meant(pub, a, x) \in known
             /\ ReadsBefore(a, b, x)
             /\ "token" \in DOMAIN x => y.token = x.token
             /\ "members" \in DOMAIN x => y.members = x.members
  <2> DEFINE y == With(z, "ref", Rewrite(b, r, z.ref))
  <2>1. /\ y.id = x.id /\ y.ref = Rewrite(b, r, x.ref)
        /\ "token" \in DOMAIN x => y.token = x.token
        /\ "members" \in DOMAIN x => y.members = x.members
    BY <1>2, NamespacedPoint
  <2>2. /\ x.id # Nothing => x.id \in DOMAIN lex
        /\ x.ref # Nothing => \E s \in senses \cup ToSet(a.senses) : s.ref = x.ref
    BY DEF Grounded
  <2> HIDE DEF y, n
  <2>3. /\ ResolveSense(senses \cup ToSet(NamespaceChunkResponse(b, r).senses), y) = Meant(pub, a, x)
        /\ ResolveSense(senses \cup ToSet(NamespaceChunkResponse(b, r).senses), y) # Nothing =>
              ResolveSense(senses \cup ToSet(NamespaceChunkResponse(b, r).senses), y)
                 \in DOMAIN lex \cup {SenseId(s) : s \in ToSet(NamespaceChunkResponse(b, r).senses)}
        /\ ReadsBefore(a, b, x)
    BY <1>1, <2>1, <2>2, PointKeepsSense
  <2> USE DEF n
  <2>4. /\ ResolveSense(senses \cup ToSet(n.senses), y) = Meant(pub, a, x)
        /\ Meant(pub, a, x) # Nothing => Meant(pub, a, x) \in known
    BY <2>3
  <2> HIDE DEF n
  <2>5. /\ ResolveSense(senses \cup ToSet(n.senses), y) = Meant(pub, a, x)
        /\ Meant(pub, a, x) # Nothing => Meant(pub, a, x) \in known
        /\ ReadsBefore(a, b, x)
        /\ "token" \in DOMAIN x => y.token = x.token
        /\ "members" \in DOMAIN x => y.members = x.members
    BY <2>1, <2>3, <2>4
  <2> QED BY <2>5 DEF y
<1>3. /\ DOMAIN n.tokens = DOMAIN a.tokens
      /\ \A i \in DOMAIN a.tokens :
            /\ n.tokens[i].token = a.tokens[i].token
            /\ ResolveSense(senses \cup ToSet(n.senses), n.tokens[i]) = Meant(pub, a, a.tokens[i])
            /\ Meant(pub, a, a.tokens[i]) # Nothing => Meant(pub, a, a.tokens[i]) \in known
            /\ ReadsBefore(a, b, a.tokens[i])
  <2>1. n.tokens = [i \in DOMAIN r.tokens |-> With(r.tokens[i], "ref", Rewrite(b, r, r.tokens[i].ref))]
    BY DEF NamespaceChunkResponse
  <2>2. DOMAIN r.tokens = DOMAIN a.tokens
    BY DEF Translates, AllExtend
  <2>3. ASSUME NEW i \in DOMAIN a.tokens
        PROVE  /\ Extends(r.tokens[i], a.tokens[i]) /\ a.tokens[i] \in Points(a)
               /\ {"id", "ref", "token"} \subseteq DOMAIN a.tokens[i]
    BY <1>1 DEF Translates, AllExtend, Points, ToSet, DecodeLinguisticArtifact
  <2> HIDE DEF n, known
  <2>4. ASSUME NEW i \in DOMAIN a.tokens
        PROVE  /\ n.tokens[i].token = a.tokens[i].token
               /\ ResolveSense(senses \cup ToSet(n.senses), n.tokens[i]) = Meant(pub, a, a.tokens[i])
               /\ Meant(pub, a, a.tokens[i]) # Nothing => Meant(pub, a, a.tokens[i]) \in known
               /\ ReadsBefore(a, b, a.tokens[i])
    <3>1. n.tokens[i] = With(r.tokens[i], "ref", Rewrite(b, r, r.tokens[i].ref))
      BY <2>1, <2>2
    <3>2. /\ Extends(r.tokens[i], a.tokens[i]) /\ a.tokens[i] \in Points(a)
          /\ "id" \in DOMAIN a.tokens[i] /\ "ref" \in DOMAIN a.tokens[i] /\ "token" \in DOMAIN a.tokens[i]
      BY <2>3
    <3> DEFINE y == With(r.tokens[i], "ref", Rewrite(b, r, r.tokens[i].ref))
    <3>3. /\ ResolveSense(senses \cup ToSet(n.senses), y) = Meant(pub, a, a.tokens[i])
          /\ Meant(pub, a, a.tokens[i]) # Nothing => Meant(pub, a, a.tokens[i]) \in known
          /\ ReadsBefore(a, b, a.tokens[i])
          /\ y.token = a.tokens[i].token
      BY <3>2, <1>2
    <3> HIDE DEF y
    <3>4. n.tokens[i] = y
      BY <3>1 DEF y
    <3> QED BY <3>3, <3>4
  <2>5. DOMAIN n.tokens = DOMAIN a.tokens
    BY <2>1, <2>2
  <2> QED BY <2>4, <2>5
<1>4. /\ DOMAIN n.constructions = DOMAIN a.constructions
      /\ \A i \in DOMAIN a.constructions :
            /\ n.constructions[i].members = a.constructions[i].members
            /\ ResolveSense(senses \cup ToSet(n.senses), n.constructions[i]) = Meant(pub, a, a.constructions[i])
            /\ Meant(pub, a, a.constructions[i]) # Nothing => Meant(pub, a, a.constructions[i]) \in known
            /\ ReadsBefore(a, b, a.constructions[i])
  <2>1. n.constructions = [i \in DOMAIN r.constructions |->
                              With(r.constructions[i], "ref", Rewrite(b, r, r.constructions[i].ref))]
    BY DEF NamespaceChunkResponse
  <2>2. DOMAIN r.constructions = DOMAIN a.constructions
    BY DEF Translates, AllExtend
  <2>3. ASSUME NEW i \in DOMAIN a.constructions
        PROVE  /\ Extends(r.constructions[i], a.constructions[i]) /\ a.constructions[i] \in Points(a)
               /\ {"id", "ref", "members"} \subseteq DOMAIN a.constructions[i]
    BY <1>1 DEF Translates, AllExtend, Points, ToSet, DecodeLinguisticArtifact
  <2> HIDE DEF n, known
  <2>4. ASSUME NEW i \in DOMAIN a.constructions
        PROVE  /\ n.constructions[i].members = a.constructions[i].members
               /\ ResolveSense(senses \cup ToSet(n.senses), n.constructions[i]) = Meant(pub, a, a.constructions[i])
               /\ Meant(pub, a, a.constructions[i]) # Nothing =>
                     Meant(pub, a, a.constructions[i]) \in known
               /\ ReadsBefore(a, b, a.constructions[i])
    <3>1. n.constructions[i] = With(r.constructions[i], "ref", Rewrite(b, r, r.constructions[i].ref))
      BY <2>1, <2>2
    <3>2. /\ Extends(r.constructions[i], a.constructions[i]) /\ a.constructions[i] \in Points(a)
          /\ "id" \in DOMAIN a.constructions[i] /\ "ref" \in DOMAIN a.constructions[i]
          /\ "members" \in DOMAIN a.constructions[i]
      BY <2>3
    <3> DEFINE y == With(r.constructions[i], "ref", Rewrite(b, r, r.constructions[i].ref))
    <3>3. /\ ResolveSense(senses \cup ToSet(n.senses), y) = Meant(pub, a, a.constructions[i])
          /\ Meant(pub, a, a.constructions[i]) # Nothing => Meant(pub, a, a.constructions[i]) \in known
          /\ ReadsBefore(a, b, a.constructions[i])
          /\ y.members = a.constructions[i].members
      BY <3>2, <1>2
    <3> HIDE DEF y
    <3>4. n.constructions[i] = y
      BY <3>1 DEF y
    <3> QED BY <3>3, <3>4
  <2>5. DOMAIN n.constructions = DOMAIN a.constructions
    BY <2>1, <2>2
  <2> QED BY <2>4, <2>5
<1>5. {[members |-> <<x.token>>, sense |-> Meant(pub, a, x)] : x \in ToSet(a.tokens)}
      = {[members |-> o.members, sense |-> o.sense] : o \in
           {[members |-> <<x.token>>, sense |-> ResolveSense(senses \cup ToSet(n.senses), x), shadow |-> x.shadow] :
               x \in ToSet(n.tokens)}}
  <2> HIDE DEF n, known
  <2> DEFINE os == {[members |-> <<x.token>>, sense |-> ResolveSense(senses \cup ToSet(n.senses), x), shadow |-> x.shadow] :
                       x \in ToSet(n.tokens)}
             lhs == {[members |-> <<x.token>>, sense |-> Meant(pub, a, x)] : x \in ToSet(a.tokens)}
             rhs == {[members |-> o.members, sense |-> o.sense] : o \in os}
  <2>1. ASSUME NEW e \in lhs PROVE e \in rhs
    <3>1. PICK i \in DOMAIN a.tokens :
             e = [members |-> <<a.tokens[i].token>>, sense |-> Meant(pub, a, a.tokens[i])]
      BY DEF ToSet
    <3> DEFINE o == [members |-> <<n.tokens[i].token>>, sense |-> ResolveSense(senses \cup ToSet(n.senses), n.tokens[i]),
                     shadow |-> n.tokens[i].shadow]
    <3>2. n.tokens[i] \in ToSet(n.tokens)
      BY <1>3 DEF ToSet
    <3>3. o \in os
      BY <3>2
    <3>4. e = [members |-> o.members, sense |-> o.sense]
      BY <3>1, <1>3
    <3> HIDE DEF o, os
    <3> QED BY <3>3, <3>4
  <2>2. ASSUME NEW e \in rhs PROVE e \in lhs
    <3>1. PICK o \in os : e = [members |-> o.members, sense |-> o.sense]
      OBVIOUS
    <3>2. PICK i \in DOMAIN n.tokens :
             o = [members |-> <<n.tokens[i].token>>, sense |-> ResolveSense(senses \cup ToSet(n.senses), n.tokens[i]),
                  shadow |-> n.tokens[i].shadow]
      BY DEF ToSet
    <3>3. e = [members |-> <<a.tokens[i].token>>, sense |-> Meant(pub, a, a.tokens[i])]
      BY <3>1, <3>2, <1>3
    <3>4. a.tokens[i] \in ToSet(a.tokens)
      BY <1>3 DEF ToSet
    <3> QED BY <3>3, <3>4
  <2> QED BY <2>1, <2>2
<1>6. {[members |-> c.members, sense |-> Meant(pub, a, c)] : c \in ToSet(a.constructions)}
      = {[members |-> o.members, sense |-> o.sense] : o \in
           {[members |-> c.members, sense |-> ResolveSense(senses \cup ToSet(n.senses), c), shadow |-> c.shadow] :
               c \in ToSet(n.constructions)}}
  <2> HIDE DEF n, known
  <2> DEFINE os == {[members |-> x.members, sense |-> ResolveSense(senses \cup ToSet(n.senses), x), shadow |-> x.shadow] :
                       x \in ToSet(n.constructions)}
             lhs == {[members |-> x.members, sense |-> Meant(pub, a, x)] : x \in ToSet(a.constructions)}
             rhs == {[members |-> o.members, sense |-> o.sense] : o \in os}
  <2>1. ASSUME NEW e \in lhs PROVE e \in rhs
    <3>1. PICK i \in DOMAIN a.constructions :
             e = [members |-> a.constructions[i].members, sense |-> Meant(pub, a, a.constructions[i])]
      BY DEF ToSet
    <3> DEFINE o == [members |-> n.constructions[i].members, sense |-> ResolveSense(senses \cup ToSet(n.senses), n.constructions[i]),
                     shadow |-> n.constructions[i].shadow]
    <3>2. n.constructions[i] \in ToSet(n.constructions)
      BY <1>4 DEF ToSet
    <3>3. o \in os
      BY <3>2
    <3>4. e = [members |-> o.members, sense |-> o.sense]
      BY <3>1, <1>4
    <3> HIDE DEF o, os
    <3> QED BY <3>3, <3>4
  <2>2. ASSUME NEW e \in rhs PROVE e \in lhs
    <3>1. PICK o \in os : e = [members |-> o.members, sense |-> o.sense]
      OBVIOUS
    <3>2. PICK i \in DOMAIN n.constructions :
             o = [members |-> n.constructions[i].members, sense |-> ResolveSense(senses \cup ToSet(n.senses), n.constructions[i]),
                  shadow |-> n.constructions[i].shadow]
      BY DEF ToSet
    <3>3. e = [members |-> a.constructions[i].members, sense |-> Meant(pub, a, a.constructions[i])]
      BY <3>1, <3>2, <1>4
    <3>4. a.constructions[i] \in ToSet(a.constructions)
      BY <1>4 DEF ToSet
    <3> QED BY <3>3, <3>4
  <2> QED BY <2>1, <2>2
<1>7. \A x \in Points(a) : ReadsBefore(a, b, x) /\ (Meant(pub, a, x) # Nothing => Meant(pub, a, x) \in known)
  <2> HIDE DEF n, known
  <2> QED BY <1>3, <1>4 DEF Points, ToSet
<1> HIDE DEF known
<1> DEFINE xs == Meanings(pub, a)
<1>8. \A x \in xs : x.sense # Nothing => x.sense \in known
  <2> HIDE DEF n
  <2> QED BY <1>7 DEF Points, Meanings
<1>9. xs = {[members |-> o.members, sense |-> o.sense] : o \in Occurrences(senses \cup ToSet(n.senses), n)}
  <2> HIDE DEF n
  <2> QED BY <1>5, <1>6 DEF Meanings, Occurrences
<1> HIDE DEF xs
<1> QED BY <1>7, <1>8, <1>9 DEF known, xs

-----------------------------------------------------------------------------
(* The steps of a run.                                                      *)

\* An accepted linguistic answer points to what the provider was shown.
LEMMA AcceptedIsGrounded ==
    ASSUME NEW chunk, NEW a, NEW v \in Validated(chunk, a),
           DecodeLinguisticArtifact(a), ValidateLinguistic(chunk, a)
    PROVE  Grounded(rawLinguisticArtifact(v), chunk.candidates, chunk.prior)
<1>1. PICK order \in SourceOrders(a.constructions) :
         /\ v.tokens = a.tokens /\ v.senses = a.senses
         /\ DOMAIN v.constructions = DOMAIN a.constructions
         /\ \A k \in DOMAIN a.constructions :
               v.constructions[k].construction = a.constructions[order[k]]
  BY DEF Validated
<1>2. \A k \in DOMAIN a.constructions : order[k] \in DOMAIN a.constructions
  BY DEF SourceOrders
<1> DEFINE w == rawLinguisticArtifact(v)
<1>3. /\ w.tokens = a.tokens /\ w.senses = a.senses
      /\ DOMAIN w.constructions = DOMAIN a.constructions
      /\ \A k \in DOMAIN a.constructions : w.constructions[k] = a.constructions[order[k]]
  BY <1>1 DEF rawLinguisticArtifact
<1> HIDE DEF w
<1>4. DecodeLinguisticArtifact(w)
  BY <1>2, <1>3 DEF DecodeLinguisticArtifact
<1>5. \A x \in Points(w) : x \in Points(a)
  BY <1>2, <1>3 DEF Points, ToSet
<1>6. ASSUME NEW x \in Points(a)
      PROVE  ValidReference(x, chunk.candidates, chunk.prior \cup ToSet(a.senses))
  <2>1. CASE x \in ToSet(a.tokens)
    BY <2>1 DEF ValidateLinguistic, ValidToken
  <2>2. CASE x \in ToSet(a.constructions)
    BY <2>2 DEF ValidateLinguistic, ValidConstruction
  <2> QED BY <2>1, <2>2 DEF Points
<1>7. \A x \in Points(w) :
         /\ x.id # Nothing => \E c \in chunk.candidates : c.id = x.id
         /\ x.ref # Nothing => \E s \in chunk.prior \cup ToSet(w.senses) : s.ref = x.ref
  BY <1>3, <1>5, <1>6 DEF ValidReference
<1> QED BY <1>4, <1>7 DEF Grounded, w

\* Merging adds the translations and changes nothing.
LEMMA MergeTranslates ==
    ASSUME NEW v, NEW a, DecodeLinguisticArtifact(rawLinguisticArtifact(v))
    PROVE  Translates(MergeLinguisticTranslation(v, a), rawLinguisticArtifact(v))
<1> DEFINE w == rawLinguisticArtifact(v)
           m == MergeLinguisticTranslation(v, a)
<1>1. /\ w.tokens = v.tokens /\ w.senses = v.senses
      /\ DOMAIN w.constructions = DOMAIN v.constructions
      /\ \A k \in DOMAIN v.constructions : w.constructions[k] = v.constructions[k].construction
  BY DEF rawLinguisticArtifact
<1>2. ASSUME NEW r, NEW field, NEW value, field \notin DOMAIN r
      PROVE  Extends(With(r, field, value), r)
  BY <1>2 DEF Extends, With
<1>3. AllExtend(m.tokens, w.tokens)
  <2>1. /\ DOMAIN m.tokens = DOMAIN v.tokens
        /\ \A i \in DOMAIN v.tokens :
              m.tokens[i] = With(v.tokens[i], "shadow", ShadowOf(a.tokens, "token", v.tokens[i].token))
    BY DEF MergeLinguisticTranslation
  <2>2. \A i \in DOMAIN v.tokens : "shadow" \notin DOMAIN v.tokens[i]
    BY <1>1 DEF DecodeLinguisticArtifact
  <2> HIDE DEF m, w
  <2> QED BY <1>1, <1>2, <2>1, <2>2 DEF AllExtend
<1>4. AllExtend(m.senses, w.senses)
  <2>1. /\ DOMAIN m.senses = DOMAIN v.senses
        /\ \A i \in DOMAIN v.senses :
              m.senses[i] = With(v.senses[i], "english", Named(a.senses, "ref", v.senses[i].ref).english)
    BY DEF MergeLinguisticTranslation
  <2>2. \A i \in DOMAIN v.senses : "english" \notin DOMAIN v.senses[i]
    BY <1>1 DEF DecodeLinguisticArtifact
  <2> HIDE DEF m, w
  <2> QED BY <1>1, <1>2, <2>1, <2>2 DEF AllExtend
<1>5. AllExtend(m.constructions, w.constructions)
  <2>1. /\ DOMAIN m.constructions = DOMAIN v.constructions
        /\ \A i \in DOMAIN v.constructions :
              m.constructions[i] = With(v.constructions[i].construction, "shadow",
                  ShadowOf(a.constructions, "construction_id", v.constructions[i].construction_id))
    BY DEF MergeLinguisticTranslation
  <2>2. \A i \in DOMAIN v.constructions : "shadow" \notin DOMAIN v.constructions[i].construction
    BY <1>1 DEF DecodeLinguisticArtifact
  <2> HIDE DEF m, w
  <2> QED BY <1>1, <1>2, <2>1, <2>2 DEF AllExtend
<1> QED BY <1>3, <1>4, <1>5 DEF Translates

\* Steps inside a paragraph leave what is published and carried forward alone.
InParagraph == UNCHANGED <<article, lexicon, published, run, candidates, prior, block>>

\* They keep the invariant when they keep the parts about the stages.
LEMMA ParagraphSteps ==
    ASSUME CompileInv, InParagraph,
           phase' \in {"linguistic", "translation", "publish"} => block \in DOMAIN article,
           DraftIsGrounded', MergedIsDraft'
    PROVE  CompileInv'
<1>1. RunsAreNumbered'
  BY DEF CompileInv, InParagraph, RunsAreNumbered
<1>2. PriorIsPublished' /\ CandidatesAreKnown'
  BY DEF CompileInv, InParagraph, PriorIsPublished, CandidatesAreKnown
<1>3. WrittenBefore'
  BY DEF CompileInv, InParagraph, WrittenBefore, Written
<1>4. OccurrencesKeepTheirSense'
  BY DEF CompileInv, InParagraph, OccurrencesKeepTheirSense, Written
<1> QED BY <1>1, <1>2, <1>3, <1>4 DEF CompileInv

\* A failure or a rejected turn ends the run or repeats the turn.
LEMMA FailedStageSteps ==
    ASSUME CompileInv, UNCHANGED <<article, lexicon, published>>,
           \/ \E why : why \notin {"linguistic", "translation", "publish"} /\ FailRun(why)
           \/ phase \in Stage /\ Rejected
    PROVE  CompileInv'
<1>1. CASE \E why : why \notin {"linguistic", "translation", "publish"} /\ FailRun(why)
  <2>1. InParagraph /\ phase' \notin {"linguistic", "translation", "publish"}
    BY <1>1 DEF FailRun, InParagraph, runVars
  <2> QED BY <2>1, ParagraphSteps DEF DraftIsGrounded, MergedIsDraft
<1>2. CASE phase \in Stage /\ UNCHANGED <<phase, draft, merged, runVars>>
  <2>1. InParagraph /\ UNCHANGED <<phase, draft, merged>>
    BY <1>2 DEF InParagraph, runVars
  <2>2. Chunk' = Chunk
    BY <2>1 DEF Chunk, InParagraph
  <2>3. DraftIsGrounded' /\ MergedIsDraft'
    BY <2>1, <2>2 DEF CompileInv, DraftIsGrounded, MergedIsDraft
  <2>4. phase' \in {"linguistic", "translation", "publish"} => block \in DOMAIN article
    BY <2>1 DEF CompileInv, RunsAreNumbered
  <2> QED BY <2>1, <2>3, <2>4, ParagraphSteps
<1> QED BY <1>1, <1>2 DEF Rejected

\* The linguistic stage.
LEMMA LinguisticSteps ==
    ASSUME CompileInv, phase = "linguistic", NEW a,
           DecodeLinguisticArtifact(a), ValidateLinguistic(Chunk, a), draft' \in Validated(Chunk, a),
           phase' = "translation", UNCHANGED <<article, merged, lexicon, published, runVars>>
    PROVE  CompileInv'
<1>1. InParagraph
  BY DEF InParagraph, runVars
<1>2. Chunk' = Chunk
  BY <1>1 DEF Chunk, InParagraph
<1>3. Grounded(rawLinguisticArtifact(draft'), Chunk.candidates, Chunk.prior)
  BY AcceptedIsGrounded
<1>4. DraftIsGrounded' /\ MergedIsDraft'
  BY <1>2, <1>3 DEF DraftIsGrounded, MergedIsDraft
<1>5. block \in DOMAIN article
  BY DEF CompileInv, RunsAreNumbered
<1> QED BY <1>1, <1>4, <1>5, ParagraphSteps

\* The translation stage.
LEMMA TranslationSteps ==
    ASSUME CompileInv, phase = "translation", NEW a,
           merged' = MergeLinguisticTranslation(draft, a), phase' = "publish",
           UNCHANGED <<article, draft, lexicon, published, runVars>>
    PROVE  CompileInv'
<1>1. InParagraph
  BY DEF InParagraph, runVars
<1>2. Chunk' = Chunk
  BY <1>1 DEF Chunk, InParagraph
<1>3. Grounded(rawLinguisticArtifact(draft), Chunk.candidates, Chunk.prior)
  BY DEF CompileInv, DraftIsGrounded
<1>4. Translates(merged', rawLinguisticArtifact(draft))
  BY <1>3, MergeTranslates DEF Grounded
<1>5. DraftIsGrounded' /\ MergedIsDraft'
  BY <1>2, <1>3, <1>4 DEF DraftIsGrounded, MergedIsDraft
<1>6. block \in DOMAIN article
  BY DEF CompileInv, RunsAreNumbered
<1> QED BY <1>1, <1>5, <1>6, ParagraphSteps

\* What is published later does not change what a paragraph means.
LEMMA MeaningStays ==
    ASSUME NEW b, NEW said, NEW pub, NEW pub2,
           \A d \in 0 .. b - 1 : pub2[d] = pub[d],
           NEW x, ReadsBefore(said, b, x)
    PROVE  Meant(pub2, said, x) = Meant(pub, said, x)
<1>1. CASE x.id # Nothing \/ x.ref = Nothing
  BY <1>1 DEF Meant
<1>2. CASE {s \in ToSet(said.senses) : s.ref = x.ref} # {}
  BY <1>2 DEF Meant
<1>3. CASE ~(x.id # Nothing \/ x.ref = Nothing) /\ {s \in ToSet(said.senses) : s.ref = x.ref} = {}
  <2>1. x.ref.blocks[1] \in 0 .. b - 1
    BY <1>3 DEF ReadsBefore
  <2>2. pub2[x.ref.blocks[1]] = pub[x.ref.blocks[1]]
    BY <2>1
  <2> QED BY <1>3, <2>2 DEF Meant
<1> QED BY <1>1, <1>2, <1>3

\* Nor any of the meanings.
LEMMA MeaningsStay ==
    ASSUME NEW b, NEW said, NEW pub, NEW pub2,
           \A d \in 0 .. b - 1 : pub2[d] = pub[d],
           \A x \in Points(said) : ReadsBefore(said, b, x)
    PROVE  Meanings(pub2, said) = Meanings(pub, said)
<1>1. \A x \in Points(said) : Meant(pub2, said, x) = Meant(pub, said, x)
  BY MeaningStays
<1>2. /\ \A x \in ToSet(said.tokens) : Meant(pub2, said, x) = Meant(pub, said, x)
      /\ \A x \in ToSet(said.constructions) : Meant(pub2, said, x) = Meant(pub, said, x)
  BY <1>1 DEF Points
<1> QED BY <1>2 DEF Meanings

\* The lexicon keeps its senses and gains those of the list.
LEMMA LexiconGrows ==
    ASSUME NEW lex, NEW senses
    PROVE  DOMAIN EnsureSenses(lex, senses) = DOMAIN lex \cup {SenseId(s) : s \in ToSet(senses)}
BY DEF EnsureSenses

\* A publication.
LEMMA PublishStep ==
    ASSUME CompileInv, PublishChunk
    PROVE  CompileInv'
<1> DEFINE n      == NamespaceChunkResponse(block, merged)
           senses == Chunk.prior \cup ToSet(n.senses)
           a      == rawLinguisticArtifact(draft)
<1>1. CASE ~(/\ NamespaceAllowed(block, merged, prior)
             /\ ValidateChunkResponse(Chunk, n) /\ Publishable(senses, n))
  <2>1. FailRun("publish_refused") /\ UNCHANGED <<article, lexicon, published>>
    BY <1>1 DEF PublishChunk
  <2> QED BY <2>1, FailedStageSteps
<1>2. CASE /\ NamespaceAllowed(block, merged, prior)
           /\ ValidateChunkResponse(Chunk, n) /\ Publishable(senses, n)
  <2>1. /\ phase = "publish"
        /\ lexicon' = EnsureSenses(lexicon, n.senses)
        /\ published' = [published EXCEPT ![block] = [occurrences |-> Occurrences(senses, n),
                                                      said |-> a, run |-> run]]
        /\ prior' = prior \cup ToSet(n.senses)
        /\ block' = block + 1
        /\ phase' = IF block + 1 \in DOMAIN article THEN "linguistic" ELSE "merge"
        /\ UNCHANGED <<run, candidates, article>>
    BY <1>2 DEF PublishChunk
  <2>2. /\ RunsAreNumbered /\ block \in DOMAIN article /\ block \in Nat
        /\ DOMAIN published = DOMAIN article /\ 0 .. block \subseteq DOMAIN article
    BY <2>1 DEF CompileInv, RunsAreNumbered
  <2>3. /\ published'[block] = [occurrences |-> Occurrences(senses, n), said |-> a, run |-> run]
        /\ \A b \in DOMAIN article : b # block => published'[b] = published[b]
        /\ DOMAIN published' = DOMAIN article
    <3> HIDE DEF n, senses, a
    <3> QED BY <2>1, <2>2
  <2>4. /\ published'[block].occurrences = Occurrences(senses, n)
        /\ published'[block].said = a /\ published'[block].run = run
    <3> HIDE DEF n, senses, a
    <3> QED BY <2>3
  <2>5. \A b \in 0 .. block - 1 : published'[b] = published[b]
    BY <2>2, <2>3
  <2>6. /\ DOMAIN lexicon' = DOMAIN lexicon \cup {SenseId(s) : s \in ToSet(n.senses)}
        /\ DOMAIN lexicon \subseteq DOMAIN lexicon'
    BY <2>1, LexiconGrows
  <2>7. /\ Grounded(a, Chunk.candidates, Chunk.prior)
        /\ Translates(merged, a)
    BY <2>1 DEF CompileInv, DraftIsGrounded, MergedIsDraft
  <2>8. ValidRefs(Chunk.prior, n.senses)
    BY <1>2 DEF ValidateChunkResponse, ValidateResponse
  <2>9. Chunk.prior \subseteq prior /\ Chunk.candidates \subseteq candidates
    BY DEF Chunk, PrepareChunk
  <2>10. /\ \A p \in Chunk.prior : IsPublished(published, lexicon, block, p)
         /\ \A c \in Chunk.candidates : c.id \in DOMAIN lexicon
    BY <2>9 DEF CompileInv, PriorIsPublished, CandidatesAreKnown
  <2>11. LET xs == Meanings(published, a) IN
         /\ xs = {[members |-> o.members, sense |-> o.sense] : o \in Occurrences(senses, n)}
         /\ \A x \in xs : x.sense # Nothing =>
               x.sense \in DOMAIN lexicon \cup {SenseId(s) : s \in ToSet(n.senses)}
         /\ \A x \in Points(a) : ReadsBefore(a, block, x)
    <3> HIDE DEF a
    <3> QED BY <2>2, <2>7, <2>8, <2>10, OccurrencesSayWhatIsMeant
  <2>12. RunsAreNumbered'
    <3>1. run' = run /\ article' = article /\ block' \in Nat
      BY <2>1, <2>2
    <3>2. \A b \in DOMAIN article : published'[b] # Nothing =>
             published'[b].run.number \in Nat /\ published'[b].run.number <= run.number
      <4> HIDE DEF n, senses, a
      <4>1. run.number \in Nat
        BY <2>2 DEF RunsAreNumbered
      <4> QED BY <2>2, <2>3, <2>4, <4>1 DEF RunsAreNumbered
    <3>3. phase' \in {"linguistic", "translation", "publish"} => block' \in DOMAIN article
      BY <2>1
    <3> QED BY <2>2, <2>3, <3>1, <3>2, <3>3 DEF RunsAreNumbered
  <2>13. PriorIsPublished'
    <3>1. ASSUME NEW p \in prior
          PROVE  IsPublished(published', lexicon', block + 1, p)
      <4>1. IsPublished(published, lexicon, block, p)
        BY DEF CompileInv, PriorIsPublished
      <4>2. published'[p.ref.blocks[1]] = published[p.ref.blocks[1]]
        BY <2>5, <4>1 DEF IsPublished
      <4>3. Origins(published', p) = Origins(published, p)
        BY <4>2 DEF Origins
      <4>4. p.ref.blocks[1] \in 0 .. (block + 1) - 1
        BY <2>2, <4>1 DEF IsPublished
      <4> QED BY <2>6, <4>1, <4>3, <4>4 DEF IsPublished
    <3>2. ASSUME NEW p \in ToSet(n.senses)
          PROVE  IsPublished(published', lexicon', block + 1, p)
      <4> HIDE DEF a
      <4>1. /\ DecodeLinguisticArtifact(a) /\ AllExtend(merged.senses, a.senses)
        BY <2>7 DEF Grounded, Translates
      <4>2. /\ DOMAIN n.senses = DOMAIN a.senses
            /\ \A i \in DOMAIN a.senses :
                  /\ n.senses[i].ref = Prefixed(block, a.senses[i].ref)
                  /\ SenseId(n.senses[i]) = SenseId(a.senses[i])
                  /\ a.senses[i].ref \in SenseRef
        BY <4>1, NamespacedSenses
      <4> HIDE DEF n
      <4>3. PICK i \in DOMAIN a.senses : p = n.senses[i]
        BY <4>2 DEF ToSet
      <4>4. p.ref.blocks[1] = block
        BY <2>2, <4>2, <4>3, PrefixFirst
      <4>5. Origins(published', p) = {s \in ToSet(a.senses) : Prefixed(block, s.ref) = p.ref}
        BY <2>4, <4>4 DEF Origins
      <4>6. a.senses[i] \in Origins(published', p)
        BY <4>2, <4>3, <4>5 DEF ToSet
      <4>7. ASSUME NEW s \in Origins(published', p)
            PROVE  SenseId(s) = SenseId(p)
        <5>1. PICK j \in DOMAIN a.senses : s = a.senses[j] /\ Prefixed(block, a.senses[j].ref) = p.ref
          BY <4>5 DEF ToSet
        <5>2. n.senses[j].ref = n.senses[i].ref
          BY <4>2, <4>3, <5>1
        <5>3. j = i
          BY <2>8, <4>2, <4>3, <5>1, <5>2 DEF ValidRefs
        <5> QED BY <4>2, <4>3, <5>1, <5>3
      <4>8. SenseId(p) \in DOMAIN lexicon'
        BY <2>6
      <4>9. p.ref.blocks[1] \in 0 .. (block + 1) - 1
        BY <2>2, <4>4
      <4> QED BY <4>6, <4>7, <4>8, <4>9 DEF IsPublished
    <3> HIDE DEF n
    <3> QED BY <2>1, <3>1, <3>2 DEF PriorIsPublished
  <2>14. CandidatesAreKnown'
    BY <2>1, <2>6 DEF CompileInv, CandidatesAreKnown
  <2>15. DraftIsGrounded' /\ MergedIsDraft'
    BY <2>1 DEF DraftIsGrounded, MergedIsDraft
  <2>16. ASSUME NEW b \in DOMAIN article, b # block, Written(b)'
         PROVE  /\ Written(b) /\ published'[b] = published[b] /\ b < block
                /\ \A x \in Points(published[b].said) : ReadsBefore(published[b].said, b, x)
                /\ Meanings(published', published[b].said) = Meanings(published, published[b].said)
    <3>1. published'[b] = published[b] /\ Written(b)
      BY <2>1, <2>3, <2>16 DEF Written
    <3>2. /\ b < block
          /\ \A x \in Points(published[b].said) : ReadsBefore(published[b].said, b, x)
      BY <3>1 DEF CompileInv, WrittenBefore
    <3>3. b \in Nat
      BY <2>2 DEF RunsAreNumbered
    <3>4. \A d \in 0 .. b - 1 : published'[d] = published[d]
      BY <2>2, <2>5, <3>2, <3>3
    <3> QED BY <3>1, <3>2, <3>4, MeaningsStay
  <2>17. WrittenBefore'
    <3> HIDE DEF a, n, senses
    <3>1. SUFFICES ASSUME NEW b \in DOMAIN article, Written(b)'
                   PROVE  /\ b < block + 1
                          /\ \A x \in Points(published'[b].said) : ReadsBefore(published'[b].said, b, x)
      BY <2>1 DEF WrittenBefore
    <3>2. b \in Nat
      BY <2>2 DEF RunsAreNumbered
    <3>3. CASE b = block
      BY <2>2, <2>4, <2>11, <3>3
    <3>4. CASE b # block
      <4>1. /\ published'[b] = published[b] /\ b < block
            /\ \A x \in Points(published[b].said) : ReadsBefore(published[b].said, b, x)
        BY <2>16, <3>1, <3>4
      <4>2. b < block + 1
        BY <2>2, <3>2, <4>1
      <4> QED BY <4>1, <4>2
    <3> QED BY <3>3, <3>4
  <2>18. OccurrencesKeepTheirSense'
    <3> HIDE DEF a, n, senses
    <3>1. SUFFICES ASSUME NEW b \in DOMAIN article, Written(b)'
                   PROVE  LET xs == Meanings(published', published'[b].said) IN
                          /\ xs = {[members |-> o.members, sense |-> o.sense] : o \in published'[b].occurrences}
                          /\ \A x \in xs : x.sense # Nothing => x.sense \in DOMAIN lexicon'
      BY <2>1 DEF OccurrencesKeepTheirSense
    <3>2. CASE b = block
      <4>1. Meanings(published', a) = Meanings(published, a)
        BY <2>5, <2>11, MeaningsStay
      <4>2. \A x \in Meanings(published, a) : x.sense # Nothing => x.sense \in DOMAIN lexicon'
        BY <2>6, <2>11
      <4> QED BY <2>4, <2>11, <3>2, <4>1, <4>2
    <3>3. CASE b # block
      <4>1. /\ Written(b) /\ published'[b] = published[b]
            /\ Meanings(published', published[b].said) = Meanings(published, published[b].said)
        BY <2>16, <3>1, <3>3
      <4>2. LET xs == Meanings(published, published[b].said) IN
            /\ xs = {[members |-> o.members, sense |-> o.sense] : o \in published[b].occurrences}
            /\ \A x \in xs : x.sense # Nothing => x.sense \in DOMAIN lexicon
        BY <4>1 DEF CompileInv, OccurrencesKeepTheirSense
      <4> QED BY <2>6, <4>1, <4>2
    <3> QED BY <3>2, <3>3
  <2> QED BY <2>12, <2>13, <2>14, <2>15, <2>17, <2>18 DEF CompileInv
<1> QED BY <1>1, <1>2

\* A new attempt.
LEMMA StartStep ==
    ASSUME CompileInv, NEW fresh, NEW version, StartCompile(fresh, version)
    PROVE  CompileInv'
<1>1. /\ run'.number = run.number + 1 /\ phase' = "linguistic" /\ block' = 0
      /\ candidates' = LookupCandidates(lexicon, article) /\ prior' = {}
      /\ UNCHANGED <<article, lexicon, published>>
  BY DEF StartCompile
<1>2. RunsAreNumbered'
  BY <1>1 DEF CompileInv, RunsAreNumbered
<1>3. PriorIsPublished' /\ DraftIsGrounded' /\ MergedIsDraft'
  BY <1>1 DEF PriorIsPublished, DraftIsGrounded, MergedIsDraft
<1>4. CandidatesAreKnown'
  BY <1>1 DEF CandidatesAreKnown, LookupCandidates
<1>5. \A b \in DOMAIN article : ~Written(b)'
  BY <1>1 DEF CompileInv, RunsAreNumbered, Written
<1>6. WrittenBefore' /\ OccurrencesKeepTheirSense'
  BY <1>1, <1>5 DEF WrittenBefore, OccurrencesKeepTheirSense
<1> QED BY <1>2, <1>3, <1>4, <1>6 DEF CompileInv

\* The audit.
LEMMA MergeStep ==
    ASSUME CompileInv, MergeArticle
    PROVE  CompileInv'
<1>1. InParagraph /\ phase' \notin {"linguistic", "translation", "publish"}
  BY DEF MergeArticle, InParagraph, runVars
<1> QED BY <1>1, ParagraphSteps DEF DraftIsGrounded, MergedIsDraft

\* Nothing is published at first.
LEMMA CompileStarts == CompileInit => CompileInv
<1> SUFFICES ASSUME CompileInit PROVE CompileInv
  OBVIOUS
<1>1. RunsAreNumbered
  BY CompileAssumption DEF CompileInit, RunsAreNumbered
<1>2. \A b \in DOMAIN article : ~Written(b)
  BY DEF CompileInit, Written
<1>3. PriorIsPublished /\ CandidatesAreKnown /\ DraftIsGrounded /\ MergedIsDraft
  BY DEF CompileInit, PriorIsPublished, CandidatesAreKnown, DraftIsGrounded, MergedIsDraft
<1> QED BY <1>1, <1>2, <1>3 DEF CompileInv, WrittenBefore, OccurrencesKeepTheirSense

\* Every step preserves the invariant.
LEMMA CompileSteps == CompileInv /\ [CompileNext]_compileVars => CompileInv'
<1> SUFFICES ASSUME CompileInv, [CompileNext]_compileVars PROVE CompileInv'
  OBVIOUS
<1>1. ASSUME NEW fresh \in BOOLEAN, NEW v \in Versions, StartCompile(fresh, v) PROVE CompileInv'
  BY <1>1, StartStep
<1>2. CASE LinguisticHit
  <2>1. draft' \in LinguisticRow
    BY <1>2 DEF LinguisticHit
  <2> DEFINE saved == cache[LinguisticSpec].artifact
  <2>2. /\ draft' \in Validated(Chunk, saved)
        /\ DecodeLinguisticArtifact(saved) /\ ValidateLinguistic(Chunk, saved)
    BY <2>1 DEF LinguisticRow
  <2>3. /\ phase = "linguistic" /\ phase' = "translation"
        /\ UNCHANGED <<article, merged, lexicon, published, runVars>>
    BY <1>2 DEF LinguisticHit
  <2> HIDE DEF saved
  <2> QED BY <2>2, <2>3, LinguisticSteps
<1>3. ASSUME phase = "linguistic", NEW a \in Drafts(Chunk, run.number), LinguisticTurn(a) PROVE CompileInv'
  <2>1. CASE DecodeLinguisticArtifact(a) /\ ValidateLinguistic(Chunk, a)
    BY <1>3, <2>1, LinguisticSteps DEF LinguisticTurn
  <2>2. CASE ~(DecodeLinguisticArtifact(a) /\ ValidateLinguistic(Chunk, a))
    BY <1>3, <2>2, FailedStageSteps DEF LinguisticTurn, Stage
  <2> QED BY <2>1, <2>2
<1>4. CASE TranslationHit
  BY <1>4, TranslationSteps DEF TranslationHit
<1>5. ASSUME phase = "translation", NEW a \in Renderings(Chunk, draft), TranslationTurn(a) PROVE CompileInv'
  <2>1. CASE ~ValidateTranslation(Chunk, draft, a)
    BY <1>5, <2>1, FailedStageSteps DEF TranslationTurn, Stage
  <2>2. CASE /\ ValidateTranslation(Chunk, draft, a)
             /\ ~ValidateChunkResponse(Chunk, MergeLinguisticTranslation(draft, a))
    BY <1>5, <2>2, FailedStageSteps DEF TranslationTurn
  <2>3. CASE /\ ValidateTranslation(Chunk, draft, a)
             /\ ValidateChunkResponse(Chunk, MergeLinguisticTranslation(draft, a))
    BY <1>5, <2>3, TranslationSteps DEF TranslationTurn
  <2> QED BY <2>1, <2>2, <2>3
<1>6. CASE MalformedTurn
  BY <1>6, FailedStageSteps DEF MalformedTurn
<1>7. ASSUME NEW why \in {"provider", "storage", "lease_lost"}, StageFails(why) PROVE CompileInv'
  BY <1>7, FailedStageSteps DEF StageFails
<1>8. CASE PublishChunk
  BY <1>8, PublishStep
<1>9. CASE MergeArticle
  BY <1>9, MergeStep
<1>10. CASE UNCHANGED compileVars
  <2>1. InParagraph /\ UNCHANGED <<phase, draft, merged>>
    BY <1>10 DEF compileVars, stageVars, runVars, InParagraph
  <2>2. Chunk' = Chunk
    BY <2>1 DEF Chunk, InParagraph
  <2>3. DraftIsGrounded' /\ MergedIsDraft'
    BY <2>1, <2>2 DEF CompileInv, DraftIsGrounded, MergedIsDraft
  <2>4. phase' \in {"linguistic", "translation", "publish"} => block \in DOMAIN article
    BY <2>1 DEF CompileInv, RunsAreNumbered
  <2> QED BY <2>1, <2>3, <2>4, ParagraphSteps
<1> QED BY <1>1, <1>2, <1>3, <1>4, <1>5, <1>6, <1>7, <1>8, <1>9, <1>10 DEF CompileNext

\* The invariant of the attempts at an article.
THEOREM CompileCorrect == CompileSpec => []CompileInv
<1> QED BY CompileStarts, CompileSteps, PTL DEF CompileSpec

\* Whatever the providers answer, the cache returns and other paragraphs call
\* their senses, a published occurrence points to the sense that the analysis
\* of its own paragraph named, and the lexicon has that sense.
THEOREM SensesAreKept == CompileSpec => []OccurrencesKeepTheirSense
<1>1. CompileInv => OccurrencesKeepTheirSense
  BY DEF CompileInv
<1> QED BY <1>1, CompileCorrect, PTL

-----------------------------------------------------------------------------
(* What the stages accept can be published.  The answer that is merged and  *)
(* the one that is namespaced both render the analysis: they say the same   *)
(* under other references.                                                  *)

Renamed(a, to, ref) == IF \E s \in ToSet(a.senses) : s.ref = ref THEN to[ref] ELSE ref

RendersToken(y, x, a, t, to) ==
    /\ y.token = x.token /\ y.class = x.class /\ y.kind = x.kind
    /\ y.id = x.id /\ y.ref = Renamed(a, to, x.ref)
    /\ y.shadow = ShadowOf(t.tokens, "token", x.token)
RendersSense(y, x, t, to) ==
    /\ y.ref = to[x.ref] /\ y.kind = x.kind /\ y.disc = x.disc
    /\ y.canonical = x.canonical /\ y.normalized = x.normalized
    /\ y.english = Named(t.senses, "ref", x.ref).english
RendersConstruction(y, x, id, a, t, to) ==
    /\ y.role = x.role /\ y.kind = x.kind /\ y.members = x.members /\ y.spans = x.spans
    /\ y.id = x.id /\ y.ref = Renamed(a, to, x.ref)
    /\ y.shadow = ShadowOf(t.constructions, "construction_id", id)

Renders(r, v, t, to) ==
    LET a == rawLinguisticArtifact(v) IN
    /\ DOMAIN r.tokens = DOMAIN a.tokens
    /\ \A i \in DOMAIN a.tokens : RendersToken(r.tokens[i], a.tokens[i], a, t, to)
    /\ DOMAIN r.senses = DOMAIN a.senses
    /\ \A i \in DOMAIN a.senses : RendersSense(r.senses[i], a.senses[i], t, to)
    /\ DOMAIN r.constructions = DOMAIN a.constructions
    /\ \A i \in DOMAIN a.constructions :
          RendersConstruction(r.constructions[i], a.constructions[i],
                              v.constructions[i].construction_id, a, t, to)

\* The references as they are, and behind the prefix of a paragraph.
AsTheyAre  == [ref \in SenseRef |-> ref]
Behind(b)  == [ref \in SenseRef |-> Prefixed(b, ref)]

\* The provider's shape of a validated artifact.
LEMMA RawShape ==
    ASSUME NEW v
    PROVE  LET a == rawLinguisticArtifact(v) IN
           /\ a.tokens = v.tokens /\ a.senses = v.senses
           /\ DOMAIN a.constructions = DOMAIN v.constructions
           /\ \A k \in DOMAIN v.constructions : a.constructions[k] = v.constructions[k].construction
BY DEF rawLinguisticArtifact

\* Merging is such a rendering.
LEMMA MergeRenders ==
    ASSUME NEW v, NEW t, DecodeLinguisticArtifact(rawLinguisticArtifact(v))
    PROVE  Renders(MergeLinguisticTranslation(v, t), v, t, AsTheyAre)
<1> DEFINE a == rawLinguisticArtifact(v)
           m == MergeLinguisticTranslation(v, t)
<1>1. /\ a.tokens = v.tokens /\ a.senses = v.senses
      /\ DOMAIN a.constructions = DOMAIN v.constructions
      /\ \A k \in DOMAIN v.constructions : a.constructions[k] = v.constructions[k].construction
  BY RawShape
<1>2. /\ \A i \in DOMAIN a.tokens : DOMAIN a.tokens[i] = {"token", "class", "kind", "id", "ref"}
      /\ \A i \in DOMAIN a.senses :
            /\ DOMAIN a.senses[i] = {"ref", "kind", "canonical", "normalized", "disc"}
            /\ a.senses[i].ref \in SenseRef
      /\ \A i \in DOMAIN a.constructions :
            DOMAIN a.constructions[i] = {"role", "kind", "id", "ref", "members", "spans"}
  BY DEF DecodeLinguisticArtifact
<1>3. /\ m.tokens = [i \in DOMAIN v.tokens |->
                        With(v.tokens[i], "shadow", ShadowOf(t.tokens, "token", v.tokens[i].token))]
      /\ m.senses = [i \in DOMAIN v.senses |->
                        With(v.senses[i], "english", Named(t.senses, "ref", v.senses[i].ref).english)]
      /\ m.constructions = [i \in DOMAIN v.constructions |->
                        With(v.constructions[i].construction, "shadow",
                             ShadowOf(t.constructions, "construction_id", v.constructions[i].construction_id))]
  BY DEF MergeLinguisticTranslation
<1> HIDE DEF a, m
<1>4. \A ref : Renamed(a, AsTheyAre, ref) = ref
  BY <1>2 DEF Renamed, AsTheyAre, ToSet
<1>5. DOMAIN m.tokens = DOMAIN a.tokens /\ DOMAIN m.senses = DOMAIN a.senses
      /\ DOMAIN m.constructions = DOMAIN a.constructions
  BY <1>1, <1>3
<1>6. ASSUME NEW i \in DOMAIN a.tokens
      PROVE  RendersToken(m.tokens[i], a.tokens[i], a, t, AsTheyAre)
  <2>1. m.tokens[i] = With(a.tokens[i], "shadow", ShadowOf(t.tokens, "token", a.tokens[i].token))
    BY <1>1, <1>3
  <2>2. DOMAIN a.tokens[i] = {"token", "class", "kind", "id", "ref"}
    BY <1>2
  <2> QED BY <2>1, <2>2, <1>4 DEF RendersToken, With
<1>7. ASSUME NEW i \in DOMAIN a.senses
      PROVE  RendersSense(m.senses[i], a.senses[i], t, AsTheyAre)
  <2>1. m.senses[i] = With(a.senses[i], "english", Named(t.senses, "ref", a.senses[i].ref).english)
    BY <1>1, <1>3
  <2>2. /\ DOMAIN a.senses[i] = {"ref", "kind", "canonical", "normalized", "disc"}
        /\ AsTheyAre[a.senses[i].ref] = a.senses[i].ref
    BY <1>2 DEF AsTheyAre
  <2> QED BY <2>1, <2>2 DEF RendersSense, With
<1>8. ASSUME NEW i \in DOMAIN a.constructions
      PROVE  RendersConstruction(m.constructions[i], a.constructions[i],
                                 v.constructions[i].construction_id, a, t, AsTheyAre)
  <2>1. m.constructions[i] = With(a.constructions[i], "shadow",
             ShadowOf(t.constructions, "construction_id", v.constructions[i].construction_id))
    BY <1>1, <1>3
  <2>2. DOMAIN a.constructions[i] = {"role", "kind", "id", "ref", "members", "spans"}
    BY <1>2
  <2> QED BY <2>1, <2>2, <1>4 DEF RendersConstruction, With
<1> QED BY <1>5, <1>6, <1>7, <1>8 DEF Renders, a, m

\* So is namespacing what was merged.
LEMMA NamespaceRenders ==
    ASSUME NEW v, NEW t, NEW b, DecodeLinguisticArtifact(rawLinguisticArtifact(v))
    PROVE  Renders(NamespaceChunkResponse(b, MergeLinguisticTranslation(v, t)), v, t, Behind(b))
<1> DEFINE a == rawLinguisticArtifact(v)
           m == MergeLinguisticTranslation(v, t)
           n == NamespaceChunkResponse(b, m)
<1>1. /\ Renders(m, v, t, AsTheyAre)
      /\ Translates(m, a)
  BY MergeRenders, MergeTranslates
<1>2. /\ \A i \in DOMAIN a.tokens : DOMAIN a.tokens[i] = {"token", "class", "kind", "id", "ref"}
      /\ \A i \in DOMAIN a.senses :
            /\ DOMAIN a.senses[i] = {"ref", "kind", "canonical", "normalized", "disc"}
            /\ a.senses[i].ref \in SenseRef
      /\ \A i \in DOMAIN a.constructions :
            DOMAIN a.constructions[i] = {"role", "kind", "id", "ref", "members", "spans"}
  BY DEF DecodeLinguisticArtifact
<1>3. /\ m.tokens = [i \in DOMAIN v.tokens |->
                        With(v.tokens[i], "shadow", ShadowOf(t.tokens, "token", v.tokens[i].token))]
      /\ m.senses = [i \in DOMAIN v.senses |->
                        With(v.senses[i], "english", Named(t.senses, "ref", v.senses[i].ref).english)]
      /\ m.constructions = [i \in DOMAIN v.constructions |->
                        With(v.constructions[i].construction, "shadow",
                             ShadowOf(t.constructions, "construction_id", v.constructions[i].construction_id))]
  BY DEF MergeLinguisticTranslation
<1>4. /\ n.tokens = [i \in DOMAIN m.tokens |-> With(m.tokens[i], "ref", Rewrite(b, m, m.tokens[i].ref))]
      /\ n.senses = [i \in DOMAIN m.senses |-> With(m.senses[i], "ref", Rewrite(b, m, m.senses[i].ref))]
      /\ n.constructions = [i \in DOMAIN m.constructions |->
                               With(m.constructions[i], "ref", Rewrite(b, m, m.constructions[i].ref))]
  BY DEF NamespaceChunkResponse
<1>5. /\ a.tokens = v.tokens /\ a.senses = v.senses
      /\ DOMAIN a.constructions = DOMAIN v.constructions
      /\ \A k \in DOMAIN v.constructions : a.constructions[k] = v.constructions[k].construction
  BY RawShape
<1>6. /\ DOMAIN m.tokens = DOMAIN a.tokens
      /\ \A i \in DOMAIN a.tokens : RendersToken(m.tokens[i], a.tokens[i], a, t, AsTheyAre)
      /\ DOMAIN m.senses = DOMAIN a.senses
      /\ \A i \in DOMAIN a.senses : RendersSense(m.senses[i], a.senses[i], t, AsTheyAre)
      /\ DOMAIN m.constructions = DOMAIN a.constructions
      /\ \A i \in DOMAIN a.constructions :
            RendersConstruction(m.constructions[i], a.constructions[i],
                                v.constructions[i].construction_id, a, t, AsTheyAre)
  BY <1>1 DEF Renders
<1> HIDE DEF a, m, n
<1>7. /\ \A ref : Renamed(a, AsTheyAre, ref) = ref
      /\ \A i \in DOMAIN a.senses : m.senses[i].ref = a.senses[i].ref
  <2>1. \A ref : Renamed(a, AsTheyAre, ref) = ref
    BY <1>2 DEF Renamed, AsTheyAre, ToSet
  <2>2. \A i \in DOMAIN a.senses : m.senses[i].ref = AsTheyAre[a.senses[i].ref]
    BY <1>6 DEF RendersSense
  <2> QED BY <1>2, <2>1, <2>2 DEF AsTheyAre
<1>8. \A ref : Rewrite(b, m, ref) = Renamed(a, Behind(b), ref)
  BY <1>2, <1>6, <1>7 DEF Rewrite, Renamed, Behind, ToSet
<1>9. ASSUME NEW i \in DOMAIN a.tokens
      PROVE  RendersToken(n.tokens[i], a.tokens[i], a, t, Behind(b))
  <2>1. n.tokens[i] = With(m.tokens[i], "ref", Renamed(a, Behind(b), m.tokens[i].ref))
    BY <1>4, <1>6, <1>8
  <2>2. /\ RendersToken(m.tokens[i], a.tokens[i], a, t, AsTheyAre)
        /\ m.tokens[i].ref = a.tokens[i].ref
    BY <1>6, <1>7 DEF RendersToken
  <2>3. DOMAIN m.tokens[i] = {"token", "class", "kind", "id", "ref", "shadow"}
    BY <1>2, <1>3, <1>5 DEF With
  <2> QED BY <2>1, <2>2, <2>3 DEF RendersToken, With
<1>10. ASSUME NEW i \in DOMAIN a.senses
       PROVE  RendersSense(n.senses[i], a.senses[i], t, Behind(b))
  <2>1. n.senses[i] = With(m.senses[i], "ref", Behind(b)[a.senses[i].ref])
    BY <1>4, <1>6, <1>7, <1>8 DEF Renamed, ToSet
  <2>2. RendersSense(m.senses[i], a.senses[i], t, AsTheyAre)
    BY <1>6
  <2>3. DOMAIN m.senses[i] = {"ref", "kind", "canonical", "normalized", "disc", "english"}
    BY <1>2, <1>3, <1>5 DEF With
  <2> QED BY <2>1, <2>2, <2>3 DEF RendersSense, With
<1>11. ASSUME NEW i \in DOMAIN a.constructions
       PROVE  RendersConstruction(n.constructions[i], a.constructions[i],
                                  v.constructions[i].construction_id, a, t, Behind(b))
  <2>1. n.constructions[i] = With(m.constructions[i], "ref", Renamed(a, Behind(b), m.constructions[i].ref))
    BY <1>4, <1>6, <1>8
  <2>2. /\ RendersConstruction(m.constructions[i], a.constructions[i],
                               v.constructions[i].construction_id, a, t, AsTheyAre)
        /\ m.constructions[i].ref = a.constructions[i].ref
    BY <1>6, <1>7 DEF RendersConstruction
  <2>3. DOMAIN m.constructions[i] = {"role", "kind", "id", "ref", "members", "spans", "shadow"}
    BY <1>2, <1>3, <1>5 DEF With
  <2> QED BY <2>1, <2>2, <2>3 DEF RendersConstruction, With
<1>12. DOMAIN n.tokens = DOMAIN a.tokens /\ DOMAIN n.senses = DOMAIN a.senses
       /\ DOMAIN n.constructions = DOMAIN a.constructions
  BY <1>4, <1>6
<1> QED BY <1>9, <1>10, <1>11, <1>12 DEF Renders, a, m, n

StagesAccept(chunk, v, t) ==
    /\ DecodeLinguisticArtifact(rawLinguisticArtifact(v))
    /\ ValidateLinguistic(chunk, rawLinguisticArtifact(v))
    /\ ValidateTranslation(chunk, v, t)

\* References that no sense has yet.
FreshRefs(chunk, v, to) ==
    /\ \A p, q \in SenseRef : to[p] = to[q] => p = q
    /\ \A p \in SenseRef : to[p] \in SenseRef
    /\ \A s \in ToSet(v.senses) : /\ RefLength(to[s.ref]) <= EveryRef
                                  /\ \A p \in chunk.prior : to[s.ref] # p.ref

\* A reference names one sense of the analysis, of its rendering and of the
\* translation.
OneSense(chunk, v, t, r, ref, ref2, kind) ==
    \E s \in chunk.prior \cup ToSet(v.senses), u \in chunk.prior \cup ToSet(r.senses),
       e \in ToSet(t.senses) \cup chunk.prior :
       /\ s.ref = ref /\ \A x \in chunk.prior \cup ToSet(v.senses) : x.ref = ref => x = s
       /\ u.ref = ref2 /\ \A x \in chunk.prior \cup ToSet(r.senses) : x.ref = ref2 => x = u
       /\ e.ref = ref /\ \A x \in ToSet(t.senses) \cup chunk.prior : x.ref = ref => x = e
       /\ u.kind = kind /\ u.canonical = s.canonical /\ u.english = e.english

\* The sense that a reference names is unique, and each rendering has it.
LEMMA SensesCorrespond ==
    ASSUME NEW chunk, NEW v, NEW t, NEW r, NEW to, NEW ref, NEW kind,
           DecodeLinguisticArtifact(rawLinguisticArtifact(v)),
           ValidateLinguistic(chunk, rawLinguisticArtifact(v)),
           ValidateTranslation(chunk, v, t), Renders(r, v, t, to),
           \A p, q \in SenseRef : to[p] = to[q] => p = q,
           \A s \in ToSet(v.senses) : \A p \in chunk.prior : to[s.ref] # p.ref,
           \E s \in chunk.prior \cup ToSet(v.senses) : s.ref = ref /\ s.kind = kind
    PROVE  OneSense(chunk, v, t, r, ref, Renamed(rawLinguisticArtifact(v), to, ref), kind)
<1> DEFINE a == rawLinguisticArtifact(v)
           ref2 == Renamed(a, to, ref)
<1>1. /\ a.senses = v.senses
      /\ \A i \in DOMAIN v.senses : v.senses[i].ref \in SenseRef
  BY RawShape DEF DecodeLinguisticArtifact
<1>2. /\ \A p, q \in chunk.prior : p.ref = q.ref => p = q
      /\ \A i \in DOMAIN v.senses : \A p \in chunk.prior : v.senses[i].ref # p.ref
      /\ \A i, j \in DOMAIN v.senses : v.senses[i].ref = v.senses[j].ref => i = j
  BY <1>1 DEF ValidateLinguistic, ValidRefs
<1>3. /\ DOMAIN r.senses = DOMAIN v.senses
      /\ \A i \in DOMAIN v.senses : RendersSense(r.senses[i], v.senses[i], t, to)
  BY <1>1 DEF Renders
<1>4. /\ \A i \in DOMAIN v.senses :
            /\ r.senses[i].ref = to[v.senses[i].ref] /\ r.senses[i].kind = v.senses[i].kind
            /\ r.senses[i].canonical = v.senses[i].canonical
            /\ r.senses[i].english = Named(t.senses, "ref", v.senses[i].ref).english
      /\ \A i \in DOMAIN v.senses : \A p \in chunk.prior : r.senses[i].ref # p.ref
      /\ \A i, j \in DOMAIN v.senses : r.senses[i].ref = r.senses[j].ref => i = j
  BY <1>1, <1>2, <1>3 DEF RendersSense, ToSet
<1>5. /\ \A k \in DOMAIN t.senses : \E i \in DOMAIN v.senses : t.senses[k].ref = v.senses[i].ref
      /\ \A i \in DOMAIN v.senses : \E k \in DOMAIN t.senses : t.senses[k].ref = v.senses[i].ref
      /\ \A k, l \in DOMAIN t.senses : t.senses[k].ref = t.senses[l].ref => k = l
  <2>1. Corresponds(t.senses, "ref", {s.ref : s \in ToSet(v.senses)})
    BY DEF ValidateTranslation
  <2>2. {t.senses[k].ref : k \in DOMAIN t.senses} = {s.ref : s \in ToSet(v.senses)}
    BY <2>1 DEF Corresponds
  <2>3. {s.ref : s \in ToSet(v.senses)} = {v.senses[i].ref : i \in DOMAIN v.senses}
    BY DEF ToSet
  <2>4. \A k \in DOMAIN t.senses : t.senses[k].ref \in {v.senses[i].ref : i \in DOMAIN v.senses}
    BY <2>2, <2>3
  <2>5. \A i \in DOMAIN v.senses : v.senses[i].ref \in {t.senses[k].ref : k \in DOMAIN t.senses}
    BY <2>2, <2>3
  <2> QED BY <2>1, <2>4, <2>5 DEF Corresponds
<1> HIDE DEF a, ref2
<1>6. CASE \E i \in DOMAIN v.senses : v.senses[i].ref = ref /\ v.senses[i].kind = kind
  <2>1. PICK i \in DOMAIN v.senses : v.senses[i].ref = ref /\ v.senses[i].kind = kind
    BY <1>6
  <2>2. PICK k \in DOMAIN t.senses : t.senses[k].ref = ref
    BY <1>5, <2>1
  <2>3. Named(t.senses, "ref", ref) = t.senses[k]
    BY <1>5, <2>2 DEF Named
  <2>4. ref2 = to[ref]
    BY <1>1, <2>1 DEF ref2, Renamed, ToSet, a
  <2> DEFINE s == v.senses[i]
             u == r.senses[i]
             e == t.senses[k]
  <2>5. /\ s \in chunk.prior \cup ToSet(v.senses) /\ s.ref = ref
        /\ \A x \in chunk.prior \cup ToSet(v.senses) : x.ref = ref => x = s
    BY <1>2, <2>1 DEF ToSet
  <2>6. /\ u \in chunk.prior \cup ToSet(r.senses) /\ u.ref = ref2
        /\ \A x \in chunk.prior \cup ToSet(r.senses) : x.ref = ref2 => x = u
    BY <1>3, <1>4, <2>1, <2>4 DEF ToSet
  <2>7. /\ e \in ToSet(t.senses) \cup chunk.prior /\ e.ref = ref
        /\ \A x \in ToSet(t.senses) \cup chunk.prior : x.ref = ref => x = e
    BY <1>2, <1>5, <2>1, <2>2 DEF ToSet
  <2>8. u.kind = kind /\ u.canonical = s.canonical /\ u.english = e.english
    BY <1>4, <2>1, <2>3
  <2> HIDE DEF s, u, e
  <2> QED BY <2>5, <2>6, <2>7, <2>8 DEF ref2, a, OneSense
<1>7. CASE \E p \in chunk.prior : p.ref = ref /\ p.kind = kind
  <2>1. PICK p \in chunk.prior : p.ref = ref /\ p.kind = kind
    BY <1>7
  <2>2. \A i \in DOMAIN v.senses : v.senses[i].ref # ref
    BY <1>2, <2>1
  <2>3. ref2 = ref
    BY <1>1, <2>2 DEF ref2, Renamed, ToSet, a
  <2>4. \A x \in chunk.prior \cup ToSet(v.senses) : x.ref = ref => x = p
    BY <1>2, <2>1, <2>2 DEF ToSet
  <2>5. \A x \in chunk.prior \cup ToSet(r.senses) : x.ref = ref => x = p
    BY <1>2, <1>3, <1>4, <2>1 DEF ToSet
  <2>6. \A x \in ToSet(t.senses) \cup chunk.prior : x.ref = ref => x = p
    BY <1>2, <1>5, <2>1, <2>2 DEF ToSet
  <2> QED BY <2>1, <2>3, <2>4, <2>5, <2>6 DEF ref2, a, OneSense
<1> QED BY <1>6, <1>7 DEF ToSet

\* What is said of a reference is what its only sense says.
LEMMA SaidOfOne ==
    ASSUME NEW x, NEW cands, NEW senses, NEW s \in senses, NEW field,
           x.id = Nothing, x.ref # Nothing, s.ref = x.ref,
           \A z \in senses : z.ref = x.ref => z = s
    PROVE  Said(x, cands, senses, field) = s[field]
<1> DEFINE named == {c \in cands : x.id # Nothing /\ c.id = x.id}
                    \cup {z \in senses : x.id = Nothing /\ x.ref # Nothing /\ z.ref = x.ref}
<1>1. named = {s}
  OBVIOUS
<1>2. (CHOOSE n \in named : TRUE) = s /\ named # {}
  BY <1>1
<1> HIDE DEF named
<1>3. Said(x, cands, senses, field) = IF named = {} THEN Nothing ELSE (CHOOSE n \in named : TRUE)[field]
  BY DEF Said, named
<1> QED BY <1>2, <1>3

\* Nothing else is said of a reference, or of a candidate, by other senses.
LEMMA SaidOfOthers ==
    ASSUME NEW x, NEW y, NEW cands, NEW senses, NEW others, NEW field,
           x.id = y.id, x.id # Nothing \/ (x.ref = Nothing /\ y.ref = Nothing)
    PROVE  Said(x, cands, senses, field) = Said(y, cands, others, field)
<1> DEFINE xs == {c \in cands : x.id # Nothing /\ c.id = x.id}
                 \cup {z \in senses : x.id = Nothing /\ x.ref # Nothing /\ z.ref = x.ref}
           ys == {c \in cands : y.id # Nothing /\ c.id = y.id}
                 \cup {z \in others : y.id = Nothing /\ y.ref # Nothing /\ z.ref = y.ref}
<1>1. xs = ys
  OBVIOUS
<1>2. /\ Said(x, cands, senses, field) = IF xs = {} THEN Nothing ELSE (CHOOSE n \in xs : TRUE)[field]
      /\ Said(y, cands, others, field) = IF ys = {} THEN Nothing ELSE (CHOOSE n \in ys : TRUE)[field]
  BY DEF Said
<1> HIDE DEF xs, ys
<1> QED BY <1>1, <1>2

\* y points to what x does, and the same is said of it.
Alike(y, x, chunk, v, t, r) ==
    /\ y.ref = Nothing <=> x.ref = Nothing
    /\ ValidReference(y, chunk.candidates, chunk.prior \cup ToSet(r.senses))
    /\ Said(y, chunk.candidates, chunk.prior \cup ToSet(r.senses), "canonical")
       = Said(x, chunk.candidates, ToSet(v.senses) \cup chunk.prior, "canonical")
    /\ Said(y, chunk.candidates, chunk.prior \cup ToSet(r.senses), "english")
       = Said(x, chunk.candidates, ToSet(t.senses) \cup chunk.prior, "english")

\* So a rendering points to what the analysis points to, and the same is said
\* of it.
LEMMA PointsAlike ==
    ASSUME NEW chunk, NEW v, NEW t, NEW r, NEW to, NEW x, NEW y,
           StagesAccept(chunk, v, t), Renders(r, v, t, to), FreshRefs(chunk, v, to),
           y.id = x.id, y.kind = x.kind, y.ref = Renamed(rawLinguisticArtifact(v), to, x.ref),
           ValidReference(x, chunk.candidates, chunk.prior \cup ToSet(v.senses))
    PROVE  Alike(y, x, chunk, v, t, r)
<1> DEFINE a  == rawLinguisticArtifact(v)
           S1 == chunk.prior \cup ToSet(v.senses)
           S2 == chunk.prior \cup ToSet(r.senses)
           S3 == ToSet(t.senses) \cup chunk.prior
<1>1. y.ref = Nothing <=> x.ref = Nothing
  <2>1. a.senses = v.senses /\ \A s \in ToSet(v.senses) : s.ref \in SenseRef
    BY RawShape DEF DecodeLinguisticArtifact, ToSet, StagesAccept
  <2> HIDE DEF a
  <2> QED BY <2>1, SemanticsAssumption DEF Renamed, a, FreshRefs
<1>2. CASE x.id # Nothing \/ x.ref = Nothing
  <2>1. ValidReference(y, chunk.candidates, S2)
    BY <1>1, <1>2 DEF ValidReference
  <2>2. x.id # Nothing \/ (x.ref = Nothing /\ y.ref = Nothing)
    BY <1>1, <1>2
  <2> QED BY <1>1, <2>1, <2>2, SaidOfOthers DEF Alike
<1>3. CASE x.id = Nothing /\ x.ref # Nothing
  <2>1. \E s \in S1 : s.ref = x.ref /\ s.kind = x.kind
    BY <1>3 DEF ValidReference
  <2>2. PICK s \in S1, u \in S2, e \in S3 :
            /\ s.ref = x.ref /\ \A z \in S1 : z.ref = x.ref => z = s
            /\ u.ref = y.ref /\ \A z \in S2 : z.ref = y.ref => z = u
            /\ e.ref = x.ref /\ \A z \in S3 : z.ref = x.ref => z = e
            /\ u.kind = x.kind /\ u.canonical = s.canonical /\ u.english = e.english
    <3>1. OneSense(chunk, v, t, r, x.ref, y.ref, x.kind)
      BY <2>1, SensesCorrespond DEF StagesAccept, FreshRefs
    <3> QED BY <3>1 DEF OneSense
  <2> DEFINE S4 == ToSet(v.senses) \cup chunk.prior
  <2>3. S4 = S1
    OBVIOUS
  <2> HIDE DEF S1, S2, S3, S4
  <2>4. ValidReference(y, chunk.candidates, S2)
    BY <1>3, <2>2 DEF ValidReference
  <2>5. /\ Said(y, chunk.candidates, S2, "canonical") = u["canonical"]
        /\ Said(y, chunk.candidates, S2, "english") = u["english"]
    BY <1>1, <1>3, <2>2, SaidOfOne
  <2>6. /\ Said(x, chunk.candidates, S4, "canonical") = s["canonical"]
        /\ Said(x, chunk.candidates, S3, "english") = e["english"]
    BY <1>3, <2>2, <2>3, SaidOfOne
  <2> QED BY <1>1, <2>2, <2>4, <2>5, <2>6 DEF S1, S2, S3, S4, Alike
<1> QED BY <1>2, <1>3 DEF Alike

-----------------------------------------------------------------------------
(* Every rule of the final validator follows for a rendering.              *)

TranslatedSense(s) == ValidSense(s) /\ s.english # <<>> /\ Safe(s.english)

\* The senses of a rendering.
LEMMA RenderedSenses ==
    ASSUME NEW chunk, NEW v, NEW t, NEW r, NEW to,
           StagesAccept(chunk, v, t), Renders(r, v, t, to), FreshRefs(chunk, v, to)
    PROVE  ValidRefs(chunk.prior, r.senses) /\ \A s \in ToSet(r.senses) : TranslatedSense(s)
<1> DEFINE a == rawLinguisticArtifact(v)
<1>1. /\ a.senses = v.senses
      /\ \A i \in DOMAIN v.senses : v.senses[i].ref \in SenseRef
  BY RawShape DEF DecodeLinguisticArtifact, StagesAccept
<1>2. /\ ValidRefs(chunk.prior, v.senses)
      /\ \A s \in ToSet(v.senses) : ValidSense(s)
  BY <1>1 DEF ValidateLinguistic, StagesAccept
<1>3. /\ DOMAIN r.senses = DOMAIN v.senses
      /\ \A i \in DOMAIN v.senses : RendersSense(r.senses[i], v.senses[i], t, to)
  BY <1>1 DEF Renders
<1>4. ValidRefs(chunk.prior, r.senses)
  <2>1. \A i \in DOMAIN v.senses : /\ r.senses[i].ref = to[v.senses[i].ref]
                                   /\ v.senses[i] \in ToSet(v.senses)
    BY <1>3 DEF RendersSense, ToSet
  <2>2. \A s \in ToSet(r.senses) : RefLength(s.ref) <= EveryRef
    BY <1>3, <2>1 DEF FreshRefs, ToSet
  <2>3. \A i \in DOMAIN r.senses : \A s \in chunk.prior : r.senses[i].ref # s.ref
    BY <1>3, <2>1 DEF FreshRefs
  <2>4. \A i, j \in DOMAIN r.senses : r.senses[i].ref = r.senses[j].ref => i = j
    BY <1>1, <1>2, <1>3, <2>1 DEF FreshRefs, ValidRefs
  <2> QED BY <1>2, <2>2, <2>3, <2>4 DEF ValidRefs
<1>5. ASSUME NEW i \in DOMAIN r.senses PROVE TranslatedSense(r.senses[i])
  <2> DEFINE x == v.senses[i]
             y == r.senses[i]
             e == Named(t.senses, "ref", x.ref)
  <2>1. x \in ToSet(v.senses) /\ ValidSense(x)
    BY <1>2, <1>3 DEF ToSet
  <2>2. e \in ToSet(t.senses)
    <3>1. Corresponds(t.senses, "ref", {s.ref : s \in ToSet(v.senses)})
      BY DEF ValidateTranslation, StagesAccept
    <3>2. x.ref \in {t.senses[k]["ref"] : k \in DOMAIN t.senses}
      BY <2>1, <3>1 DEF Corresponds
    <3>3. PICK k \in DOMAIN t.senses : t.senses[k]["ref"] = x.ref
      BY <3>2
    <3> HIDE DEF x
    <3> QED BY <3>3 DEF Named, ToSet
  <2>3. e.english # <<>> /\ Safe(e.english)
    BY <2>2 DEF ValidateTranslation, StagesAccept
  <2>4. /\ y.kind = x.kind /\ y.disc = x.disc /\ y.canonical = x.canonical
        /\ y.normalized = x.normalized /\ y.english = e.english
    BY <1>3 DEF RendersSense
  <2> HIDE DEF x, y, e
  <2>5. TranslatedSense(y)
    BY <2>1, <2>3, <2>4 DEF ValidSense, TranslatedSense
  <2> QED BY <2>5 DEF y
<1> QED BY <1>4, <1>5 DEF ToSet

\* Its words.
LEMMA RenderedTokens ==
    ASSUME NEW chunk, NEW v, NEW t, NEW r, NEW to,
           StagesAccept(chunk, v, t), Renders(r, v, t, to), FreshRefs(chunk, v, to)
    PROVE  LET senses == chunk.prior \cup ToSet(r.senses) IN
           /\ Covers(r.tokens, Tokens(chunk.blocks))
           /\ \A y \in ToSet(r.tokens) :
                 /\ ValidToken(y, chunk.candidates, senses)
                 /\ ValidSubtitle(y.class, WordOf(chunk.blocks, y.token), y.shadow,
                                  Said(y, chunk.candidates, senses, "english"))
<1> DEFINE a == rawLinguisticArtifact(v)
           senses == chunk.prior \cup ToSet(r.senses)
<1>1. a.tokens = v.tokens /\ a.senses = v.senses
  BY RawShape
<1>2. /\ DOMAIN r.tokens = DOMAIN v.tokens
      /\ \A i \in DOMAIN v.tokens : RendersToken(r.tokens[i], v.tokens[i], a, t, to)
  BY <1>1 DEF Renders
<1>3. Covers(r.tokens, Tokens(chunk.blocks))
  <2>1. Covers(v.tokens, Tokens(chunk.blocks))
    BY <1>1 DEF StagesAccept, ValidateLinguistic
  <2>2. \A i \in DOMAIN v.tokens : r.tokens[i]["token"] = v.tokens[i]["token"]
    BY <1>2 DEF RendersToken
  <2>3. {r.tokens[i]["token"] : i \in DOMAIN r.tokens} = {v.tokens[i]["token"] : i \in DOMAIN v.tokens}
    BY <1>2, <2>2
  <2> QED BY <1>2, <2>1, <2>2, <2>3 DEF Covers, Corresponds
<1>4. ASSUME NEW i \in DOMAIN r.tokens
      PROVE  /\ ValidToken(r.tokens[i], chunk.candidates, senses)
             /\ ValidSubtitle(r.tokens[i].class, WordOf(chunk.blocks, r.tokens[i].token), r.tokens[i].shadow,
                              Said(r.tokens[i], chunk.candidates, senses, "english"))
  <2> DEFINE x == v.tokens[i]
             y == r.tokens[i]
  <2>1. x \in ToSet(v.tokens) /\ RendersToken(y, x, a, t, to)
    BY <1>2 DEF ToSet
  <2> HIDE DEF x, y
  <2>2. /\ ValidToken(x, chunk.candidates, chunk.prior \cup ToSet(v.senses))
        /\ ValidSubtitle(x.class, WordOf(chunk.blocks, x.token), ShadowOf(t.tokens, "token", x.token),
                         Said(x, chunk.candidates, ToSet(t.senses) \cup chunk.prior, "english"))
    BY <1>1, <2>1 DEF StagesAccept, ValidateLinguistic, ValidateTranslation
  <2>3. /\ y.token = x.token /\ y.class = x.class /\ y.kind = x.kind
        /\ y.id = x.id /\ y.ref = Renamed(rawLinguisticArtifact(v), to, x.ref)
        /\ y.shadow = ShadowOf(t.tokens, "token", x.token)
    BY <2>1 DEF RendersToken
  <2> HIDE DEF a
  <2>4. /\ y.ref = Nothing <=> x.ref = Nothing
        /\ ValidReference(y, chunk.candidates, senses)
        /\ Said(y, chunk.candidates, senses, "english")
           = Said(x, chunk.candidates, ToSet(t.senses) \cup chunk.prior, "english")
    <3>1. ValidReference(x, chunk.candidates, chunk.prior \cup ToSet(v.senses))
      BY <2>2 DEF ValidToken
    <3>2. Alike(y, x, chunk, v, t, r)
      BY <2>3, <3>1, PointsAlike
    <3> QED BY <3>2 DEF Alike
  <2> HIDE DEF senses
  <2>5. ValidToken(y, chunk.candidates, senses)
    BY <2>2, <2>3, <2>4 DEF ValidToken
  <2>6. ValidSubtitle(y.class, WordOf(chunk.blocks, y.token), y.shadow,
                      Said(y, chunk.candidates, senses, "english"))
    BY <2>2, <2>3, <2>4
  <2> QED BY <2>5, <2>6 DEF y
<1> HIDE DEF a, senses
<1>5. \A y \in ToSet(r.tokens) :
         /\ ValidToken(y, chunk.candidates, senses)
         /\ ValidSubtitle(y.class, WordOf(chunk.blocks, y.token), y.shadow,
                          Said(y, chunk.candidates, senses, "english"))
  BY <1>4 DEF ToSet
<1> QED BY <1>3, <1>5 DEF senses

\* A construction of the same shape that points to a sense of the same kind.
LEMMA SameShape ==
    ASSUME NEW x, NEW y, NEW blocks, NEW cands, NEW senses, NEW others,
           y.role = x.role, y.kind = x.kind, y.members = x.members, y.spans = x.spans,
           ValidConstruction(x, blocks, cands, senses), ValidReference(y, cands, others)
    PROVE  ValidConstruction(y, blocks, cands, others)
<1> DEFINE xs == [k \in DOMAIN x.spans |-> ResolveSpan(blocks, x.spans[k])]
           ys == [k \in DOMAIN y.spans |-> ResolveSpan(blocks, y.spans[k])]
<1>1. xs = ys /\ Contiguous(y) = Contiguous(x)
  BY DEF Contiguous
<1> DEFINE Body(c, spans, members) ==
      /\ c.kind \in SenseKind \ {"word"}
      /\ IF Contiguous(c) THEN DOMAIN spans = {1} ELSE {1, 2} \subseteq DOMAIN spans
      /\ members # <<>>
      /\ \A k \in DOMAIN spans : spans[k].first > 0
      /\ \A k \in 2 .. Len(spans) :
            spans[k].block = spans[k - 1].block /\ spans[k].first > spans[k - 1].last
      /\ \A k \in DOMAIN members :
            /\ members[k] \in Tokens(blocks)
            /\ \E s \in ToSet(spans) : Inside(members[k], s)
            /\ k > 1 => members[k][1] = members[k - 1][1] /\ members[k][2] > members[k - 1][2]
            /\ \A j \in DOMAIN members : SentenceOf(blocks, members[j]) = SentenceOf(blocks, members[k])
      /\ IF Contiguous(c)
         THEN /\ memberRunCount(members) = 1
              /\ \A t \in Tokens(blocks) : Inside(t, spans[1]) => t \in ToSet(members)
         ELSE memberRunCount(members) >= 2
<1>2. /\ ValidConstruction(x, blocks, cands, senses) => Body(x, xs, x.members)
      /\ Body(y, ys, y.members) /\ ValidReference(y, cands, others)
            => ValidConstruction(y, blocks, cands, others)
  BY DEF ValidConstruction
<1> HIDE DEF xs, ys
<1>3. Body(x, xs, x.members) => Body(y, ys, y.members)
  BY <1>1
<1> HIDE DEF Body
<1> QED BY <1>2, <1>3

\* Its subtitle copies nothing either.
LEMMA SameSubtitle ==
    ASSUME NEW x, NEW y, NEW blocks, NEW shadow, NEW canonical,
           y.members = x.members, y.spans = x.spans,
           ValidConstructionSubtitle(x, blocks, shadow, canonical)
    PROVE  ValidConstructionSubtitle(y, blocks, shadow, canonical)
BY DEF ValidConstructionSubtitle

\* Its constructions.
LEMMA RenderedConstructions ==
    ASSUME NEW chunk, NEW v, NEW t, NEW r, NEW to,
           StagesAccept(chunk, v, t), Renders(r, v, t, to), FreshRefs(chunk, v, to)
    PROVE  LET senses == chunk.prior \cup ToSet(r.senses) IN
           /\ \A y \in ToSet(r.constructions) :
                 /\ ValidConstruction(y, chunk.blocks, chunk.candidates, senses)
                 /\ ValidConstructionSubtitle(y, chunk.blocks, y.shadow,
                                              Said(y, chunk.candidates, senses, "canonical"))
           /\ LayersApart(r.constructions, chunk.blocks)
<1> DEFINE a == rawLinguisticArtifact(v)
           senses == chunk.prior \cup ToSet(r.senses)
<1>1. /\ a.senses = v.senses /\ DOMAIN a.constructions = DOMAIN v.constructions
      /\ \A k \in DOMAIN v.constructions : a.constructions[k] = v.constructions[k].construction
  BY RawShape
<1>2. /\ DOMAIN r.constructions = DOMAIN a.constructions
      /\ \A i \in DOMAIN a.constructions :
            RendersConstruction(r.constructions[i], a.constructions[i],
                                v.constructions[i].construction_id, a, t, to)
  BY DEF Renders
<1>3. ASSUME NEW i \in DOMAIN r.constructions
      PROVE  /\ ValidConstruction(r.constructions[i], chunk.blocks, chunk.candidates, senses)
             /\ ValidConstructionSubtitle(r.constructions[i], chunk.blocks, r.constructions[i].shadow,
                                          Said(r.constructions[i], chunk.candidates, senses, "canonical"))
  <2> DEFINE x  == a.constructions[i]
             y  == r.constructions[i]
             id == v.constructions[i].construction_id
             shadow == ShadowOf(t.constructions, "construction_id", id)
             said == Said(x, chunk.candidates, ToSet(v.senses) \cup chunk.prior, "canonical")
  <2>1. x \in ToSet(a.constructions) /\ RendersConstruction(y, x, id, a, t, to)
    BY <1>2 DEF ToSet
  <2>2. ValidConstruction(x, chunk.blocks, chunk.candidates, chunk.prior \cup ToSet(v.senses))
    BY <1>1, <2>1 DEF StagesAccept, ValidateLinguistic
  <2>3. ValidConstructionSubtitle(x, chunk.blocks, shadow, said)
    <3>1. /\ v.constructions[i] \in ToSet(v.constructions)
          /\ v.constructions[i].construction = x
      BY <1>1, <1>2 DEF ToSet
    <3> QED BY <3>1 DEF StagesAccept, ValidateTranslation
  <2>4. /\ y.role = x.role /\ y.kind = x.kind /\ y.members = x.members /\ y.spans = x.spans
        /\ y.id = x.id /\ y.ref = Renamed(rawLinguisticArtifact(v), to, x.ref)
        /\ y.shadow = shadow
    BY <2>1 DEF RendersConstruction
  <2> HIDE DEF x, y, a, id, shadow
  <2>5. Alike(y, x, chunk, v, t, r)
    <3>1. ValidReference(x, chunk.candidates, chunk.prior \cup ToSet(v.senses))
      BY <2>2 DEF ValidConstruction
    <3> QED BY <2>4, <3>1, PointsAlike
  <2>6. ValidReference(y, chunk.candidates, senses) /\ Said(y, chunk.candidates, senses, "canonical") = said
    BY <2>5 DEF Alike
  <2> HIDE DEF senses, said
  <2>7. ValidConstruction(y, chunk.blocks, chunk.candidates, senses)
    BY <2>2, <2>4, <2>6, SameShape
  <2>8. ValidConstructionSubtitle(y, chunk.blocks, y.shadow, Said(y, chunk.candidates, senses, "canonical"))
    BY <2>3, <2>4, <2>6, SameSubtitle
  <2> QED BY <2>7, <2>8 DEF y
<1>4. LayersApart(r.constructions, chunk.blocks)
  <2>1. LayersApart(a.constructions, chunk.blocks)
    BY DEF StagesAccept, ValidateLinguistic
  <2>2. \A i \in DOMAIN a.constructions :
           /\ Contiguous(r.constructions[i]) = Contiguous(a.constructions[i])
           /\ r.constructions[i].spans = a.constructions[i].spans
    BY <1>2 DEF RendersConstruction, Contiguous
  <2> HIDE DEF a
  <2> QED BY <1>2, <2>1, <2>2 DEF LayersApart
<1> HIDE DEF senses
<1>5. \A y \in ToSet(r.constructions) :
         /\ ValidConstruction(y, chunk.blocks, chunk.candidates, senses)
         /\ ValidConstructionSubtitle(y, chunk.blocks, y.shadow,
                                      Said(y, chunk.candidates, senses, "canonical"))
  BY <1>3 DEF ToSet
<1> QED BY <1>4, <1>5 DEF senses

\* Together.
LEMMA RenderingIsValid ==
    ASSUME NEW chunk, NEW v, NEW t, NEW r, NEW to,
           StagesAccept(chunk, v, t), Renders(r, v, t, to), FreshRefs(chunk, v, to),
           \A p \in chunk.prior : TranslatedSense(p)
    PROVE  ValidateResponse(chunk.blocks, chunk.candidates, r, chunk.prior)
<1> DEFINE senses == chunk.prior \cup ToSet(r.senses)
<1>1. ValidRefs(chunk.prior, r.senses) /\ \A s \in senses : TranslatedSense(s)
  BY RenderedSenses
<1>2. /\ Covers(r.tokens, Tokens(chunk.blocks))
      /\ \A y \in ToSet(r.tokens) :
            /\ ValidToken(y, chunk.candidates, senses)
            /\ ValidSubtitle(y.class, WordOf(chunk.blocks, y.token), y.shadow,
                             Said(y, chunk.candidates, senses, "english"))
  BY RenderedTokens
<1>3. /\ \A y \in ToSet(r.constructions) :
            /\ ValidConstruction(y, chunk.blocks, chunk.candidates, senses)
            /\ ValidConstructionSubtitle(y, chunk.blocks, y.shadow,
                                         Said(y, chunk.candidates, senses, "canonical"))
      /\ LayersApart(r.constructions, chunk.blocks)
  BY RenderedConstructions
<1> QED BY <1>1, <1>2, <1>3 DEF ValidateResponse, TranslatedSense

-----------------------------------------------------------------------------
(* Publication.                                                            *)

\* A sense carried forward was translated, and its reference has a prefix.
CarriedSense(p) ==
    /\ TranslatedSense(p)
    /\ p.ref \in SenseRef /\ p.ref.blocks # <<>>
    /\ p.canonical \in Spelling /\ p.disc \in STRING
PriorIsSound == \A p \in prior : CarriedSense(p)

\* Prefixes keep references apart, and make them longer.
LEMMA PrefixKeepsApart ==
    ASSUME NEW b \in Nat
    PROVE  /\ \A p, q \in SenseRef : Prefixed(b, p) = Prefixed(b, q) => p = q
           /\ \A p \in SenseRef : /\ Prefixed(b, p) \in SenseRef
                                  /\ Prefixed(b, p).blocks # <<>>
                                  /\ Prefixed(b, p).blocks[1] = b
                                  /\ RefLength(p) \in Nat /\ RefLength(Prefixed(b, p)) \in Nat
                                  /\ RefLength(p) <= RefLength(Prefixed(b, p))
<1>1. \A x \in Seq(Nat) : /\ <<b>> \o x \in Seq(Nat) /\ Len(<<b>> \o x) = 1 + Len(x)
                          /\ Len(x) \in Nat
                          /\ \A i \in 1 .. Len(x) : (<<b>> \o x)[i + 1] = x[i]
  OBVIOUS
<1>2. \A x, y \in Seq(Nat) : <<b>> \o x = <<b>> \o y => x = y
  <2>1. SUFFICES ASSUME NEW x \in Seq(Nat), NEW y \in Seq(Nat), <<b>> \o x = <<b>> \o y PROVE x = y
    OBVIOUS
  <2>2. Len(x) = Len(y)
    BY <1>1, <2>1
  <2>3. \A i \in 1 .. Len(x) : x[i] = y[i]
    BY <1>1, <2>1, <2>2
  <2> QED BY <2>2, <2>3
<1>3. \A p \in SenseRef : /\ p.blocks \in Seq(Nat) /\ p.name \in DOMAIN Scalars
                          /\ p = [blocks |-> p.blocks, name |-> p.name]
                          /\ Scalars[p.name] \in Nat
  BY SemanticsAssumption DEF SenseRef
<1>4. \A p, q \in SenseRef : Prefixed(b, p) = Prefixed(b, q) => p = q
  <2>1. SUFFICES ASSUME NEW p \in SenseRef, NEW q \in SenseRef, Prefixed(b, p) = Prefixed(b, q) PROVE p = q
    OBVIOUS
  <2>2. Prefixed(b, p).blocks = Prefixed(b, q).blocks /\ Prefixed(b, p).name = Prefixed(b, q).name
    BY <2>1
  <2>3. <<b>> \o p.blocks = <<b>> \o q.blocks /\ p.name = q.name
    BY <2>2 DEF Prefixed
  <2>4. p.blocks = q.blocks
    BY <1>2, <1>3, <2>3
  <2> QED BY <1>3, <2>3, <2>4
<1>5. ASSUME NEW p \in SenseRef
      PROVE  /\ Prefixed(b, p) \in SenseRef
             /\ Prefixed(b, p).blocks # <<>>
             /\ Prefixed(b, p).blocks[1] = b
             /\ RefLength(p) \in Nat /\ RefLength(Prefixed(b, p)) \in Nat
             /\ RefLength(p) <= RefLength(Prefixed(b, p))
  <2>1. Prefixed(b, p) \in SenseRef /\ Prefixed(b, p).blocks[1] = b
    BY PrefixFirst
  <2>2. Prefixed(b, p).blocks = <<b>> \o p.blocks /\ Prefixed(b, p).name = p.name
    BY DEF Prefixed
  <2>3. Len(Prefixed(b, p).blocks) = 1 + Len(p.blocks) /\ Len(p.blocks) \in Nat
    BY <1>1, <1>3, <2>2
  <2>4. Prefixed(b, p).blocks # <<>>
    <3>1. Len(<<>>) = 0
      OBVIOUS
    <3> QED BY <2>3, <3>1
  <2>5. /\ RefLength(p) = 3 * Len(p.blocks) + Scalars[p.name]
        /\ RefLength(Prefixed(b, p)) = 3 * (1 + Len(p.blocks)) + Scalars[p.name]
    BY <2>2, <2>3 DEF RefLength
  <2>6. Scalars[p.name] \in Nat
    BY <1>3
  <2> QED BY <2>1, <2>3, <2>4, <2>5, <2>6
<1> QED BY <1>4, <1>5

\* A sense with a spelling has an identity.
LEMMA SensesHaveIdentities ==
    ASSUME NEW s, ValidSense(s), s.canonical \in Spelling, s.disc \in STRING \cup {Nothing}
    PROVE  SenseId(s) \in SenseIdentity /\ SenseId(s) # Nothing
<1>1. NormalizeForm(s.canonical) \in Spelling
  <2> DEFINE D == DOMAIN Normal
             c == s.canonical
  <2>1. c \in Seq(D) /\ DOMAIN c = 1 .. Len(c) /\ Len(c) \in Nat /\ \A i \in DOMAIN c : c[i] \in D
    BY DEF Spelling
  <2>2. \A i \in 1 .. Len(c) : Normal[c[i]] \in D
    BY <2>1, SemanticsAssumption
  <2> HIDE DEF D, c
  <2>3. [i \in 1 .. Len(c) |-> Normal[c[i]]] \in Seq(D)
    BY <2>1, <2>2
  <2> QED BY <2>1, <2>3 DEF NormalizeForm, Spelling, D, c
<1>2. s.kind \in SenseKind /\ s.disc \in STRING
  BY DEF ValidSense
<1>3. SenseId(s) \in SenseIdentity
  BY <1>1, <1>2 DEF SenseId, SenseIdentity
<1> QED BY <1>3, SemanticsAssumption

\* What both stages accept is published, unless it has one of the gaps.
LEMMA AcceptedPublishes ==
    ASSUME CompileInv, PriorIsSound, NEW v, NEW t, StagesAccept(Chunk, v, t),
           ~Gap(MergeLinguisticTranslation(v, t))
    PROVE  Publishes(MergeLinguisticTranslation(v, t))
<1> DEFINE a == rawLinguisticArtifact(v)
           r == MergeLinguisticTranslation(v, t)
           n == NamespaceChunkResponse(block, r)
           senses == Chunk.prior \cup ToSet(n.senses)
<1>1. /\ block \in Nat /\ Chunk.prior \subseteq prior
      /\ \A p \in prior : p.ref.blocks[1] \in 0 .. block - 1
  BY DEF CompileInv, RunsAreNumbered, PriorIsPublished, IsPublished, Chunk, PrepareChunk
<1>2. Renders(r, v, t, AsTheyAre) /\ Renders(n, v, t, Behind(block))
  BY MergeRenders, NamespaceRenders DEF StagesAccept
<1>3. /\ a.senses = v.senses
      /\ \A i \in DOMAIN v.senses : /\ v.senses[i].ref \in SenseRef
                                    /\ v.senses[i].canonical \in Spelling
                                    /\ v.senses[i].disc \in STRING \cup {Nothing}
  BY RawShape DEF StagesAccept, DecodeLinguisticArtifact
<1>4. /\ DOMAIN r.senses = DOMAIN v.senses /\ DOMAIN n.senses = DOMAIN v.senses
      /\ \A i \in DOMAIN v.senses : /\ RendersSense(r.senses[i], v.senses[i], t, AsTheyAre)
                                    /\ RendersSense(n.senses[i], v.senses[i], t, Behind(block))
  BY <1>2, <1>3 DEF Renders
<1>5. /\ DOMAIN r.constructions = DOMAIN a.constructions /\ DOMAIN n.constructions = DOMAIN a.constructions
      /\ \A i \in DOMAIN a.constructions :
            /\ r.constructions[i].id = a.constructions[i].id
            /\ r.constructions[i].ref = Renamed(a, AsTheyAre, a.constructions[i].ref)
            /\ n.constructions[i].id = a.constructions[i].id
            /\ n.constructions[i].ref = Renamed(a, Behind(block), a.constructions[i].ref)
  BY <1>2 DEF Renders, RendersConstruction
<1>6. ~Gap(r)
  OBVIOUS
<1> HIDE DEF r, n
<1>7. \A i \in DOMAIN v.senses :
         /\ r.senses[i].ref = v.senses[i].ref /\ n.senses[i].ref = Prefixed(block, v.senses[i].ref)
         /\ v.senses[i].ref.blocks = <<>>
         /\ RefLength(Prefixed(block, v.senses[i].ref)) <= LocalRef
         /\ RefLength(v.senses[i].ref) <= LocalRef
         /\ RefLength(Prefixed(block, v.senses[i].ref)) <= EveryRef
         /\ RefLength(v.senses[i].ref) <= EveryRef
  <2>1. SUFFICES ASSUME NEW i \in DOMAIN v.senses
                 PROVE  /\ r.senses[i].ref = v.senses[i].ref
                        /\ n.senses[i].ref = Prefixed(block, v.senses[i].ref)
                        /\ v.senses[i].ref.blocks = <<>>
                        /\ RefLength(Prefixed(block, v.senses[i].ref)) <= LocalRef
                        /\ RefLength(v.senses[i].ref) <= LocalRef
                        /\ RefLength(Prefixed(block, v.senses[i].ref)) <= EveryRef
                        /\ RefLength(v.senses[i].ref) <= EveryRef
    OBVIOUS
  <2>2. r.senses[i].ref = v.senses[i].ref /\ n.senses[i].ref = Prefixed(block, v.senses[i].ref)
    <3>1. /\ r.senses[i].ref = AsTheyAre[v.senses[i].ref]
          /\ n.senses[i].ref = Behind(block)[v.senses[i].ref]
      BY <1>4 DEF RendersSense
    <3> QED BY <1>3, <3>1 DEF AsTheyAre, Behind
  <2>3. r.senses[i] \in ToSet(r.senses)
    BY <1>4 DEF ToSet
  <2>4. ~(RefLength(Prefixed(block, v.senses[i].ref)) > LocalRef) /\ v.senses[i].ref.blocks = <<>>
    BY <1>6, <2>2, <2>3 DEF Gap
  <2>5. /\ RefLength(v.senses[i].ref) \in Nat /\ RefLength(Prefixed(block, v.senses[i].ref)) \in Nat
        /\ RefLength(v.senses[i].ref) <= RefLength(Prefixed(block, v.senses[i].ref))
    BY <1>1, <1>3, PrefixKeepsApart
  <2> HIDE DEF a
  <2> QED BY <2>2, <2>4, <2>5, SemanticsAssumption
<1>8. \A i \in DOMAIN v.senses : \A p \in prior :
         v.senses[i].ref # p.ref /\ Prefixed(block, v.senses[i].ref) # p.ref
  <2>1. SUFFICES ASSUME NEW i \in DOMAIN v.senses, NEW p \in prior
                 PROVE  v.senses[i].ref # p.ref /\ Prefixed(block, v.senses[i].ref) # p.ref
    OBVIOUS
  <2>2. p.ref.blocks # <<>> /\ p.ref.blocks[1] \in 0 .. block - 1
    BY <1>1 DEF PriorIsSound, CarriedSense
  <2>3. v.senses[i].ref.blocks = <<>> /\ Prefixed(block, v.senses[i].ref).blocks[1] = block
    BY <1>1, <1>3, <1>7, PrefixKeepsApart
  <2>4. block \notin 0 .. block - 1
    BY <1>1
  <2> QED BY <2>2, <2>3, <2>4
<1>9. FreshRefs(Chunk, v, AsTheyAre)
  <2>1. \A s \in ToSet(v.senses) : /\ RefLength(s.ref) <= EveryRef
                                   /\ s.ref \in SenseRef
                                   /\ \A p \in Chunk.prior : s.ref # p.ref
    BY <1>1, <1>3, <1>7, <1>8 DEF ToSet
  <2> QED BY <2>1 DEF FreshRefs, AsTheyAre
<1>10. FreshRefs(Chunk, v, Behind(block))
  <2>1. \A s \in ToSet(v.senses) : /\ RefLength(Prefixed(block, s.ref)) <= EveryRef
                                   /\ s.ref \in SenseRef
                                   /\ \A p \in Chunk.prior : Prefixed(block, s.ref) # p.ref
    BY <1>1, <1>3, <1>7, <1>8 DEF ToSet
  <2>2. \A p \in SenseRef : Behind(block)[p] = Prefixed(block, p)
    BY DEF Behind
  <2>3. \A p, q \in SenseRef : Behind(block)[p] = Behind(block)[q] => p = q
    <3>1. \A p, q \in SenseRef : Prefixed(block, p) = Prefixed(block, q) => p = q
      BY <1>1, PrefixKeepsApart
    <3>2. SUFFICES ASSUME NEW p \in SenseRef, NEW q \in SenseRef, Behind(block)[p] = Behind(block)[q]
                   PROVE  p = q
      OBVIOUS
    <3>3. Prefixed(block, p) = Prefixed(block, q)
      BY <2>2, <3>2
    <3> QED BY <3>1, <3>3
  <2>4. \A p \in SenseRef : Behind(block)[p] \in SenseRef
    BY <1>1, <2>2, PrefixKeepsApart
  <2> QED BY <2>1, <2>2, <2>3, <2>4 DEF FreshRefs
<1>11. \A p \in Chunk.prior : TranslatedSense(p)
  BY <1>1 DEF PriorIsSound, CarriedSense
<1>12. /\ ValidateResponse(Chunk.blocks, Chunk.candidates, r, Chunk.prior)
       /\ ValidateResponse(Chunk.blocks, Chunk.candidates, n, Chunk.prior)
  BY <1>2, <1>9, <1>10, <1>11, RenderingIsValid
<1>13. ValidateChunkResponse(Chunk, r) /\ ValidateChunkResponse(Chunk, n)
  <2>1. /\ \A s \in ToSet(r.senses) : RefLength(s.ref) <= LocalRef
        /\ \A s \in ToSet(n.senses) : RefLength(s.ref) <= LocalRef
    BY <1>4, <1>7 DEF ToSet
  <2> QED BY <1>12, <2>1 DEF ValidateChunkResponse
<1>14. NamespaceAllowed(block, r, prior)
  BY <1>4, <1>7, <1>8 DEF NamespaceAllowed, ToSet
<1>15. Publishable(senses, n)
  <2>1. SUFFICES ASSUME NEW i \in DOMAIN n.constructions
                 PROVE  ResolveSense(senses, n.constructions[i]) # Nothing
    BY DEF Publishable, ToSet
  <2> DEFINE x == a.constructions[i]
             y == n.constructions[i]
  <2>2. x.id # Nothing \/ x.ref # Nothing
    <3>1. r.constructions[i] \in ToSet(r.constructions)
      BY <1>5 DEF ToSet
    <3>2. r.constructions[i].id # Nothing \/ r.constructions[i].ref # Nothing
      BY <1>6, <3>1 DEF Gap
    <3>3. \A s \in ToSet(a.senses) : s.ref \in SenseRef
      BY <1>3 DEF ToSet
    <3> QED BY <1>5, <3>2, <3>3, SemanticsAssumption DEF Renamed, AsTheyAre
  <2>3. y.id = x.id /\ (x.ref # Nothing => y.ref # Nothing)
    <3>1. \A s \in ToSet(a.senses) : s.ref \in SenseRef /\ Behind(block)[s.ref] \in SenseRef
      BY <1>3, <1>10 DEF ToSet, FreshRefs
    <3> QED BY <1>5, <3>1, SemanticsAssumption DEF Renamed
  <2>4. ValidReference(y, Chunk.candidates, senses)
    <3>1. y \in ToSet(n.constructions)
      BY DEF ToSet
    <3> QED BY <1>12, <3>1 DEF ValidateResponse, ValidConstruction
  <2>5. CASE y.id # Nothing
    BY <2>5 DEF ResolveSense
  <2>6. CASE y.id = Nothing
    <3> DEFINE s == OfRef(senses, y.ref)
    <3>1. y.ref # Nothing /\ \E z \in senses : z.ref = y.ref
      BY <2>2, <2>3, <2>4, <2>6 DEF ValidReference
    <3>2. s \in senses
      BY <3>1 DEF OfRef
    <3>3. ValidSense(s)
      BY <1>12, <3>2 DEF ValidateResponse
    <3>4. s.canonical \in Spelling /\ s.disc \in STRING \cup {Nothing}
      <4>1. \A p \in Chunk.prior : p.canonical \in Spelling /\ p.disc \in STRING
        BY <1>1 DEF PriorIsSound, CarriedSense
      <4>2. \A z \in ToSet(n.senses) : z.canonical \in Spelling /\ z.disc \in STRING \cup {Nothing}
        BY <1>3, <1>4 DEF RendersSense, ToSet
      <4> HIDE DEF s
      <4> QED BY <3>2, <4>1, <4>2
    <3>5. SenseId(s) # Nothing
      BY <3>3, <3>4, SensesHaveIdentities
    <3> QED BY <2>6, <3>1, <3>5 DEF ResolveSense
  <2> QED BY <2>5, <2>6
<1> QED BY <1>13, <1>14, <1>15 DEF Publishes, n, r

-----------------------------------------------------------------------------
(* The invariant of what was accepted.                                     *)

DraftIsAccepted ==
    phase \in {"translation", "publish"} =>
        /\ DecodeLinguisticArtifact(rawLinguisticArtifact(draft))
        /\ ValidateLinguistic(Chunk, rawLinguisticArtifact(draft))
MergedPublishes == phase = "publish" => Publishes(merged) \/ Gap(merged)
AcceptedInv == DraftIsAccepted /\ PriorIsSound /\ MergedPublishes

\* An accepted answer is accepted in source order, too.
LEMMA OrderedIsAccepted ==
    ASSUME NEW chunk, NEW a, NEW v \in Validated(chunk, a),
           DecodeLinguisticArtifact(a), ValidateLinguistic(chunk, a)
    PROVE  /\ DecodeLinguisticArtifact(rawLinguisticArtifact(v))
           /\ ValidateLinguistic(chunk, rawLinguisticArtifact(v))
<1> DEFINE w == rawLinguisticArtifact(v)
<1>1. PICK order \in SourceOrders(a.constructions) :
         /\ v.tokens = a.tokens /\ v.senses = a.senses
         /\ DOMAIN v.constructions = DOMAIN a.constructions
         /\ \A k \in DOMAIN a.constructions :
               v.constructions[k].construction = a.constructions[order[k]]
  BY DEF Validated
<1>2. /\ \A k \in DOMAIN a.constructions : order[k] \in DOMAIN a.constructions
      /\ \A i, j \in DOMAIN a.constructions : order[i] = order[j] => i = j
  BY DEF SourceOrders
<1>3. /\ w.tokens = a.tokens /\ w.senses = a.senses
      /\ DOMAIN w.constructions = DOMAIN a.constructions
      /\ \A k \in DOMAIN a.constructions : w.constructions[k] = a.constructions[order[k]]
  BY <1>1 DEF rawLinguisticArtifact
<1> HIDE DEF w
<1>4. DecodeLinguisticArtifact(w)
  BY <1>2, <1>3 DEF DecodeLinguisticArtifact
<1>5. \A c \in ToSet(w.constructions) : c \in ToSet(a.constructions)
  BY <1>2, <1>3 DEF ToSet
<1>6. LayersApart(w.constructions, chunk.blocks)
  BY <1>2, <1>3 DEF ValidateLinguistic, LayersApart
<1>7. ValidateLinguistic(chunk, w)
  BY <1>3, <1>5, <1>6 DEF ValidateLinguistic
<1> QED BY <1>4, <1>7 DEF w

\* Steps inside a paragraph keep the invariant when they keep the parts about
\* the stages.
LEMMA AcceptedStays ==
    ASSUME AcceptedInv, InParagraph, DraftIsAccepted', MergedPublishes'
    PROVE  AcceptedInv'
BY DEF AcceptedInv, InParagraph, PriorIsSound

\* Inside a paragraph, what can be published does not change.
LEMMA SameChunk ==
    ASSUME InParagraph
    PROVE  /\ Chunk' = Chunk
           /\ UNCHANGED <<phase, draft>> /\ DraftIsAccepted => DraftIsAccepted'
           /\ UNCHANGED <<phase, merged>> /\ MergedPublishes => MergedPublishes'
<1>1. Chunk' = Chunk
  BY DEF Chunk, InParagraph
<1>2. UNCHANGED <<phase, draft>> /\ DraftIsAccepted => DraftIsAccepted'
  BY <1>1 DEF DraftIsAccepted
<1>3. ASSUME UNCHANGED merged PROVE (Publishes(merged) \/ Gap(merged)) => (Publishes(merged) \/ Gap(merged))'
  BY <1>1, <1>3 DEF Publishes, Gap, InParagraph
<1> QED BY <1>1, <1>2, <1>3 DEF MergedPublishes

\* A failure or a rejected turn.
LEMMA AcceptedFails ==
    ASSUME AcceptedInv, UNCHANGED <<article, lexicon, published>>,
           \/ \E why : why \notin {"linguistic", "translation", "publish"} /\ FailRun(why)
           \/ phase \in Stage /\ Rejected
    PROVE  AcceptedInv'
<1>1. CASE \E why : why \notin {"linguistic", "translation", "publish"} /\ FailRun(why)
  <2>1. InParagraph /\ phase' \notin {"linguistic", "translation", "publish"}
    BY <1>1 DEF FailRun, InParagraph, runVars
  <2> QED BY <2>1, AcceptedStays DEF DraftIsAccepted, MergedPublishes
<1>2. CASE phase \in Stage /\ UNCHANGED <<phase, draft, merged, runVars>>
  <2>1. InParagraph /\ UNCHANGED <<phase, draft, merged>>
    BY <1>2 DEF InParagraph, runVars
  <2> QED BY <2>1, SameChunk, AcceptedStays DEF AcceptedInv
<1> QED BY <1>1, <1>2 DEF Rejected

\* The linguistic stage accepts.
LEMMA AcceptedLinguistic ==
    ASSUME AcceptedInv, NEW a,
           DecodeLinguisticArtifact(a), ValidateLinguistic(Chunk, a), draft' \in Validated(Chunk, a),
           phase' = "translation", UNCHANGED <<article, merged, lexicon, published, runVars>>
    PROVE  AcceptedInv'
<1>1. InParagraph
  BY DEF InParagraph, runVars
<1>2. Chunk' = Chunk
  BY <1>1, SameChunk
<1>3. /\ DecodeLinguisticArtifact(rawLinguisticArtifact(draft'))
      /\ ValidateLinguistic(Chunk, rawLinguisticArtifact(draft'))
  BY OrderedIsAccepted
<1>4. DraftIsAccepted' /\ MergedPublishes'
  BY <1>2, <1>3 DEF DraftIsAccepted, MergedPublishes
<1> QED BY <1>1, <1>4, AcceptedStays

\* The translation stage accepts.
LEMMA AcceptedTranslation ==
    ASSUME CompileInv, AcceptedInv, phase = "translation", NEW a, ValidateTranslation(Chunk, draft, a),
           merged' = MergeLinguisticTranslation(draft, a), phase' = "publish",
           UNCHANGED <<article, draft, lexicon, published, runVars>>
    PROVE  AcceptedInv'
<1> DEFINE r == MergeLinguisticTranslation(draft, a)
<1>1. InParagraph
  BY DEF InParagraph, runVars
<1>2. Chunk' = Chunk
  BY <1>1, SameChunk
<1>3. StagesAccept(Chunk, draft, a)
  BY DEF StagesAccept, AcceptedInv, DraftIsAccepted
<1>4. Publishes(r) \/ Gap(r)
  BY <1>3, AcceptedPublishes DEF AcceptedInv
<1>5. merged' = r
  OBVIOUS
<1> HIDE DEF r
<1>6. Publishes(merged)' \/ Gap(merged)'
  BY <1>1, <1>2, <1>4, <1>5 DEF Publishes, Gap, InParagraph
<1>7. DraftIsAccepted'
  BY <1>2, <1>3 DEF DraftIsAccepted, StagesAccept
<1> QED BY <1>1, <1>6, <1>7, AcceptedStays DEF MergedPublishes

\* A publication carries sound senses forward.
LEMMA AcceptedPublish ==
    ASSUME CompileInv, AcceptedInv, PublishChunk
    PROVE  AcceptedInv'
<1> DEFINE n      == NamespaceChunkResponse(block, merged)
           senses == Chunk.prior \cup ToSet(n.senses)
           a      == rawLinguisticArtifact(draft)
<1>1. CASE ~(/\ NamespaceAllowed(block, merged, prior)
             /\ ValidateChunkResponse(Chunk, n) /\ Publishable(senses, n))
  <2>1. FailRun("publish_refused") /\ UNCHANGED <<article, lexicon, published>>
    BY <1>1 DEF PublishChunk
  <2> QED BY <2>1, AcceptedFails
<1>2. CASE /\ NamespaceAllowed(block, merged, prior)
           /\ ValidateChunkResponse(Chunk, n) /\ Publishable(senses, n)
  <2>1. /\ phase = "publish" /\ prior' = prior \cup ToSet(n.senses)
        /\ phase' \in {"linguistic", "merge"}
    BY <1>2 DEF PublishChunk
  <2>2. DraftIsAccepted' /\ MergedPublishes'
    BY <2>1 DEF DraftIsAccepted, MergedPublishes
  <2>3. block \in Nat
    BY DEF CompileInv, RunsAreNumbered
  <2>4. \A s \in ToSet(n.senses) : TranslatedSense(s)
    BY <1>2 DEF ValidateChunkResponse, ValidateResponse, TranslatedSense
  <2>5. DecodeLinguisticArtifact(a) /\ AllExtend(merged.senses, a.senses)
    BY <2>1 DEF CompileInv, DraftIsGrounded, MergedIsDraft, Grounded, Translates
  <2>6. \A i \in DOMAIN a.senses : /\ a.senses[i].canonical \in Spelling
                                   /\ a.senses[i].disc \in STRING \cup {Nothing}
    BY <2>5 DEF DecodeLinguisticArtifact
  <2> HIDE DEF a
  <2>7. /\ DOMAIN n.senses = DOMAIN a.senses
        /\ \A i \in DOMAIN a.senses : /\ n.senses[i].ref = Prefixed(block, a.senses[i].ref)
                                      /\ n.senses[i].canonical = a.senses[i].canonical
                                      /\ n.senses[i].disc = a.senses[i].disc
                                      /\ a.senses[i].ref \in SenseRef
    BY <2>5, NamespacedSenses
  <2> HIDE DEF n
  <2>8. ASSUME NEW i \in DOMAIN n.senses PROVE CarriedSense(n.senses[i])
    <3>0. n.senses[i].ref = Prefixed(block, a.senses[i].ref) /\ a.senses[i].ref \in SenseRef
      BY <2>7
    <3>1. n.senses[i].ref \in SenseRef /\ n.senses[i].ref.blocks # <<>>
      <4>1. \A p \in SenseRef : Prefixed(block, p) \in SenseRef /\ Prefixed(block, p).blocks # <<>>
        BY <2>3, PrefixKeepsApart
      <4> QED BY <3>0, <4>1
    <3>2. TranslatedSense(n.senses[i])
      BY <2>4 DEF ToSet
    <3>3. n.senses[i].canonical \in Spelling /\ n.senses[i].disc \in STRING
      BY <2>6, <2>7, <3>2 DEF TranslatedSense, ValidSense
    <3> QED BY <3>1, <3>2, <3>3 DEF CarriedSense
  <2>9. PriorIsSound'
    BY <2>1, <2>8 DEF AcceptedInv, PriorIsSound, ToSet
  <2> QED BY <2>2, <2>9 DEF AcceptedInv
<1> QED BY <1>1, <1>2

\* Every step preserves it.
LEMMA AcceptedSteps ==
    CompileInv /\ AcceptedInv /\ [CompileNext]_compileVars => AcceptedInv'
<1> SUFFICES ASSUME CompileInv, AcceptedInv, [CompileNext]_compileVars PROVE AcceptedInv'
  OBVIOUS
<1>1. ASSUME NEW fresh \in BOOLEAN, NEW v \in Versions, StartCompile(fresh, v) PROVE AcceptedInv'
  BY <1>1 DEF StartCompile, AcceptedInv, DraftIsAccepted, MergedPublishes, PriorIsSound
<1>2. CASE LinguisticHit
  <2>1. draft' \in LinguisticRow
    BY <1>2 DEF LinguisticHit
  <2> DEFINE saved == cache[LinguisticSpec].artifact
  <2>2. /\ draft' \in Validated(Chunk, saved)
        /\ DecodeLinguisticArtifact(saved) /\ ValidateLinguistic(Chunk, saved)
    BY <2>1 DEF LinguisticRow
  <2>3. phase' = "translation" /\ UNCHANGED <<article, merged, lexicon, published, runVars>>
    BY <1>2 DEF LinguisticHit
  <2> HIDE DEF saved
  <2> QED BY <2>2, <2>3, AcceptedLinguistic
<1>3. ASSUME phase = "linguistic", NEW a \in Drafts(Chunk, run.number), LinguisticTurn(a) PROVE AcceptedInv'
  <2>1. CASE DecodeLinguisticArtifact(a) /\ ValidateLinguistic(Chunk, a)
    BY <1>3, <2>1, AcceptedLinguistic DEF LinguisticTurn
  <2>2. CASE ~(DecodeLinguisticArtifact(a) /\ ValidateLinguistic(Chunk, a))
    BY <1>3, <2>2, AcceptedFails DEF LinguisticTurn, Stage
  <2> QED BY <2>1, <2>2
<1>4. CASE TranslationHit
  <2>1. /\ phase = "translation" /\ TranslationRow # Nothing
        /\ merged' = MergeLinguisticTranslation(draft, TranslationRow) /\ phase' = "publish"
        /\ UNCHANGED <<article, draft, lexicon, published, runVars>>
    BY <1>4 DEF TranslationHit
  <2> DEFINE saved == cache[TranslationSpec].artifact
  <2>2. TranslationRow = saved /\ ValidateTranslation(Chunk, draft, saved)
    BY <2>1 DEF TranslationRow
  <2> HIDE DEF saved
  <2> QED BY <2>1, <2>2, AcceptedTranslation
<1>5. ASSUME phase = "translation", NEW a \in Renderings(Chunk, draft), TranslationTurn(a) PROVE AcceptedInv'
  <2>1. CASE ~ValidateTranslation(Chunk, draft, a)
    BY <1>5, <2>1, AcceptedFails DEF TranslationTurn, Stage
  <2>2. CASE /\ ValidateTranslation(Chunk, draft, a)
             /\ ~ValidateChunkResponse(Chunk, MergeLinguisticTranslation(draft, a))
    BY <1>5, <2>2, AcceptedFails DEF TranslationTurn
  <2>3. CASE /\ ValidateTranslation(Chunk, draft, a)
             /\ ValidateChunkResponse(Chunk, MergeLinguisticTranslation(draft, a))
    BY <1>5, <2>3, AcceptedTranslation DEF TranslationTurn
  <2> QED BY <2>1, <2>2, <2>3
<1>6. CASE MalformedTurn
  BY <1>6, AcceptedFails DEF MalformedTurn
<1>7. ASSUME NEW why \in {"provider", "storage", "lease_lost"}, StageFails(why) PROVE AcceptedInv'
  BY <1>7, AcceptedFails DEF StageFails
<1>8. CASE PublishChunk
  BY <1>8, AcceptedPublish
<1>9. CASE MergeArticle
  <2>1. InParagraph /\ phase' \notin {"linguistic", "translation", "publish"}
    BY <1>9 DEF MergeArticle, InParagraph, runVars
  <2> QED BY <2>1, AcceptedStays DEF DraftIsAccepted, MergedPublishes
<1>10. CASE UNCHANGED compileVars
  <2>1. InParagraph /\ UNCHANGED <<phase, draft, merged>>
    BY <1>10 DEF compileVars, stageVars, runVars, InParagraph
  <2> QED BY <2>1, SameChunk, AcceptedStays DEF AcceptedInv
<1> QED BY <1>1, <1>2, <1>3, <1>4, <1>5, <1>6, <1>7, <1>8, <1>9, <1>10 DEF CompileNext

-----------------------------------------------------------------------------
(* The audit of the whole article.                                         *)

\* The words of a chunk are those of its paragraph.
LEMMA ChunkBlocks ==
    ASSUME NEW blocks, NEW cands, NEW before, NEW b \in DOMAIN blocks,
           \A i \in DOMAIN blocks : i \in Nat /\ 0 .. i \subseteq DOMAIN blocks
    PROVE  LET chunk == PrepareChunk(blocks, cands, b, before) IN
           /\ b \in DOMAIN chunk.blocks /\ DOMAIN chunk.blocks \subseteq DOMAIN blocks
           /\ chunk.blocks[b] = blocks[b]
           /\ \A i \in DOMAIN chunk.blocks : i # b => chunk.blocks[i].words = <<>>
           /\ chunk.candidates \subseteq cands /\ chunk.prior \subseteq before
           /\ Tokens(chunk.blocks) = {<<b, i>> : i \in DOMAIN blocks[b].words}
<1> DEFINE chunk == PrepareChunk(blocks, cands, b, before)
<1>1. /\ chunk.blocks = [i \in 0 .. b |-> IF i = b THEN blocks[b] ELSE [words |-> <<>>, sentence |-> <<>>]]
      /\ chunk.candidates \subseteq cands /\ chunk.prior \subseteq before
  BY DEF PrepareChunk
<1> HIDE DEF chunk
<1>2. b \in 0 .. b /\ 0 .. b \subseteq DOMAIN blocks
  OBVIOUS
<1>3. /\ DOMAIN chunk.blocks = 0 .. b /\ chunk.blocks[b] = blocks[b]
      /\ \A i \in 0 .. b : i # b => chunk.blocks[i].words = <<>>
  BY <1>1, <1>2
<1>4. Tokens(chunk.blocks) = {<<b, i>> : i \in DOMAIN blocks[b].words}
  <2>1. ASSUME NEW t \in Tokens(chunk.blocks) PROVE t \in {<<b, i>> : i \in DOMAIN blocks[b].words}
    <3>1. PICK k \in 0 .. b : \E i \in DOMAIN chunk.blocks[k].words : t = <<k, i>>
      BY <1>3 DEF Tokens
    <3>2. k = b
      <4>1. DOMAIN <<>> = {}
        OBVIOUS
      <4> QED BY <1>3, <3>1, <4>1
    <3> QED BY <1>3, <3>1, <3>2
  <2>2. ASSUME NEW i \in DOMAIN blocks[b].words PROVE <<b, i>> \in Tokens(chunk.blocks)
    BY <1>2, <1>3 DEF Tokens
  <2> QED BY <2>1, <2>2
<1> QED BY <1>1, <1>2, <1>3, <1>4 DEF chunk

\* A text without words has no occurrence.
LEMMA NothingOccurs ==
    ASSUME NEW text, NEW number
    PROVE  OccurrenceOf(text, number, <<>>) = 0
<1>1. {i \in DOMAIN <<>> : /\ i + Len(text) - 1 <= Len(<<>>)
                           /\ SubSeq(<<>>, i, i + Len(text) - 1) = text} = {}
  OBVIOUS
<1> QED BY <1>1 DEF OccurrenceOf

\* Two texts that agree in a paragraph, of which one has no other words.
OnlyBlock(small, large, b) ==
    /\ b \in DOMAIN small /\ DOMAIN small \subseteq DOMAIN large
    /\ small[b] = large[b]
    /\ \A i \in DOMAIN small : i # b => small[i].words = <<>>
    /\ Tokens(small) = {<<b, i>> : i \in DOMAIN large[b].words}

\* A span that is found there lies in the paragraph, and is found in the other.
LEMMA SpanIsLocal ==
    ASSUME NEW small, NEW large, NEW b, OnlyBlock(small, large, b),
           NEW s, ResolveSpan(small, s).first > 0
    PROVE  s.block = b /\ ResolveSpan(large, s) = ResolveSpan(small, s)
<1>1. s.block \in DOMAIN small /\ s.words # <<>>
  BY DEF ResolveSpan
<1>2. s.block = b
  <2>1. OccurrenceOf(s.words, s.occurrence, small[s.block].words) > 0
    BY <1>1 DEF ResolveSpan
  <2>2. SUFFICES ASSUME s.block # b PROVE FALSE
    OBVIOUS
  <2>3. small[s.block].words = <<>>
    BY <1>1, <2>2 DEF OnlyBlock
  <2>4. OccurrenceOf(s.words, s.occurrence, small[s.block].words) = 0
    BY <2>3, NothingOccurs
  <2> QED BY <2>1, <2>4
<1>3. s.block \in DOMAIN large /\ large[s.block].words = small[s.block].words
  BY <1>2 DEF OnlyBlock
<1> QED BY <1>1, <1>2, <1>3 DEF ResolveSpan

\* What a reference of an answer says is said by more senses, too, when each
\* still has a name of its own.
OwnNames(cands, senses) ==
    /\ \A c, d \in cands : c.id = d.id => c = d
    /\ \A s, t \in senses : s.ref = t.ref => s = t

\* A reference means the same among more candidates and senses.
LEMMA SaidAmongMore ==
    ASSUME NEW x, NEW few, NEW many, NEW some, NEW all, NEW f,
           few \subseteq many, some \subseteq all, OwnNames(many, all),
           ValidReference(x, few, some)
    PROVE  ValidReference(x, many, all) /\ Said(x, many, all, f) = Said(x, few, some, f)
<1> DEFINE here == {c \in few : x.id # Nothing /\ c.id = x.id}
                   \cup {s \in some : x.id = Nothing /\ x.ref # Nothing /\ s.ref = x.ref}
           there == {c \in many : x.id # Nothing /\ c.id = x.id}
                   \cup {s \in all : x.id = Nothing /\ x.ref # Nothing /\ s.ref = x.ref}
<1>1. ValidReference(x, many, all)
  BY DEF ValidReference
<1>2. here = there
  <2>1. CASE x.id # Nothing
    <3>1. PICK c \in few : c.id = x.id
      BY <2>1 DEF ValidReference
    <3> QED BY <2>1, <3>1 DEF OwnNames
  <2>2. CASE x.id = Nothing /\ x.ref # Nothing
    <3>1. PICK s \in some : s.ref = x.ref
      BY <2>2 DEF ValidReference
    <3> QED BY <2>2, <3>1 DEF OwnNames
  <2>3. CASE x.id = Nothing /\ x.ref = Nothing
    BY <2>3
  <2> QED BY <2>1, <2>2, <2>3
<1>3. /\ Said(x, few, some, f) = IF here = {} THEN Nothing ELSE (CHOOSE n \in here : TRUE)[f]
      /\ Said(x, many, all, f) = IF there = {} THEN Nothing ELSE (CHOOSE n \in there : TRUE)[f]
  BY DEF Said
<1> HIDE DEF here, there
<1> QED BY <1>1, <1>2, <1>3

\* A construction of the paragraph is one of the whole text.
LEMMA ConstructionIsLocal ==
    ASSUME NEW small, NEW large, NEW b, OnlyBlock(small, large, b),
           \A t \in Tokens(large) : t[1] = b => t \in Tokens(small),
           NEW few, NEW many, NEW some, NEW all, NEW c,
           ValidConstruction(c, small, few, some), ValidReference(c, many, all)
    PROVE  /\ ValidConstruction(c, large, many, all)
           /\ \A k \in DOMAIN c.members : c.members[k] \in Tokens(small)
           /\ Contiguous(c) => /\ 1 \in DOMAIN c.spans /\ c.spans[1].block = b
                               /\ ResolveSpan(large, c.spans[1]) = ResolveSpan(small, c.spans[1])
<1> DEFINE xs == [k \in DOMAIN c.spans |-> ResolveSpan(small, c.spans[k])]
           ys == [k \in DOMAIN c.spans |-> ResolveSpan(large, c.spans[k])]
<1>1. \A k \in DOMAIN c.spans : xs[k].first > 0
  BY DEF ValidConstruction
<1>2. \A k \in DOMAIN c.spans : c.spans[k].block = b /\ ResolveSpan(large, c.spans[k]) = ResolveSpan(small, c.spans[k])
  <2>1. SUFFICES ASSUME NEW k \in DOMAIN c.spans
                 PROVE  c.spans[k].block = b /\ ResolveSpan(large, c.spans[k]) = ResolveSpan(small, c.spans[k])
    OBVIOUS
  <2>2. ResolveSpan(small, c.spans[k]).first > 0
    BY <1>1
  <2> QED BY <2>2, SpanIsLocal
<1>3. xs = ys
  BY <1>2
<1>4. \A k \in DOMAIN c.members : c.members[k] \in Tokens(small)
  BY DEF ValidConstruction
<1>5. \A t \in Tokens(small) : /\ t \in Tokens(large) /\ t[1] = b
                               /\ SentenceOf(large, t) = SentenceOf(small, t)
  BY DEF OnlyBlock, SentenceOf, Tokens
<1>6. ASSUME Contiguous(c)
      PROVE  1 \in DOMAIN c.spans /\ \A t \in Tokens(large) : Inside(t, xs[1]) => t \in Tokens(small)
  <2>1. DOMAIN xs = {1}
    BY <1>6 DEF ValidConstruction
  <2>2. 1 \in DOMAIN c.spans
    BY <2>1
  <2>3. xs[1].block = b
    BY <1>2, <2>2 DEF ResolveSpan
  <2> QED BY <2>2, <2>3 DEF Inside
<1>7. ValidConstruction(c, large, many, all)
  <2>1. /\ c.kind \in SenseKind \ {"word"}
        /\ IF Contiguous(c) THEN DOMAIN xs = {1} ELSE {1, 2} \subseteq DOMAIN xs
        /\ c.members # <<>>
        /\ \A k \in DOMAIN xs : xs[k].first > 0
        /\ \A k \in 2 .. Len(xs) : xs[k].block = xs[k - 1].block /\ xs[k].first > xs[k - 1].last
    BY DEF ValidConstruction
  <2>2. \A k \in DOMAIN c.members :
           /\ c.members[k] \in Tokens(small)
           /\ \E s \in ToSet(xs) : Inside(c.members[k], s)
           /\ k > 1 => c.members[k][1] = c.members[k - 1][1] /\ c.members[k][2] > c.members[k - 1][2]
           /\ \A j \in DOMAIN c.members : SentenceOf(small, c.members[j]) = SentenceOf(small, c.members[k])
    BY DEF ValidConstruction
  <2>3. IF Contiguous(c)
        THEN /\ memberRunCount(c.members) = 1
             /\ \A t \in Tokens(small) : Inside(t, xs[1]) => t \in ToSet(c.members)
        ELSE memberRunCount(c.members) >= 2
    BY DEF ValidConstruction
  <2> HIDE DEF xs, ys
  <2>4. /\ IF Contiguous(c) THEN DOMAIN ys = {1} ELSE {1, 2} \subseteq DOMAIN ys
        /\ \A k \in DOMAIN ys : ys[k].first > 0
        /\ \A k \in 2 .. Len(ys) : ys[k].block = ys[k - 1].block /\ ys[k].first > ys[k - 1].last
    BY <1>3, <2>1
  <2>5. \A k \in DOMAIN c.members :
           /\ c.members[k] \in Tokens(large)
           /\ \E s \in ToSet(ys) : Inside(c.members[k], s)
           /\ k > 1 => c.members[k][1] = c.members[k - 1][1] /\ c.members[k][2] > c.members[k - 1][2]
    BY <1>3, <1>5, <2>2
  <2>6. \A j, k \in DOMAIN c.members : SentenceOf(large, c.members[j]) = SentenceOf(large, c.members[k])
    <3>1. SUFFICES ASSUME NEW j \in DOMAIN c.members, NEW k \in DOMAIN c.members
                   PROVE  SentenceOf(large, c.members[j]) = SentenceOf(large, c.members[k])
      OBVIOUS
    <3> QED BY <1>5, <2>2
  <2>7. IF Contiguous(c)
        THEN /\ memberRunCount(c.members) = 1
             /\ \A t \in Tokens(large) : Inside(t, ys[1]) => t \in ToSet(c.members)
        ELSE memberRunCount(c.members) >= 2
    BY <1>3, <1>6, <2>3
  <2> QED BY <2>1, <2>4, <2>5, <2>6, <2>7 DEF ValidConstruction, ys
<1>8. Contiguous(c) => 1 \in DOMAIN c.spans
  BY <1>6
<1> HIDE DEF xs, ys
<1> QED BY <1>2, <1>4, <1>7, <1>8

\* The items of all answers are those of each.
LEMMA ItemsOfAll ==
    ASSUME NEW cs, NEW field
    PROVE  LET all == AllItems(cs, field) IN
           /\ \A p \in DOMAIN all : \E b \in 0 .. Len(cs) - 1 :
                 \E i \in DOMAIN NamespacedChunk(cs, b)[field] :
                    p = <<b, i>> /\ all[p] = NamespacedChunk(cs, b)[field][i]
           /\ \A b \in 0 .. Len(cs) - 1 : \A i \in DOMAIN NamespacedChunk(cs, b)[field] :
                 <<b, i>> \in DOMAIN all /\ all[<<b, i>>] = NamespacedChunk(cs, b)[field][i]
<1> DEFINE items(b) == NamespacedChunk(cs, b)[field]
           places == UNION {{<<b, i>> : i \in DOMAIN items(b)} : b \in 0 .. Len(cs) - 1}
           all == AllItems(cs, field)
<1>1. all = [p \in places |-> items(p[1])[p[2]]]
  BY DEF AllItems
<1> HIDE DEF all, items
<1>2. \A p \in places : \E b \in 0 .. Len(cs) - 1 : \E i \in DOMAIN items(b) : p = <<b, i>>
  OBVIOUS
<1>3. \A b \in 0 .. Len(cs) - 1 : \A i \in DOMAIN items(b) : <<b, i>> \in places
  OBVIOUS
<1>4. \A p \in places : all[p] = items(p[1])[p[2]]
  BY <1>1
<1>5. DOMAIN all = places
  BY <1>1
<1> HIDE DEF places
<1>6. \A p \in DOMAIN all : \E b \in 0 .. Len(cs) - 1 : \E i \in DOMAIN items(b) :
         p = <<b, i>> /\ all[p] = items(b)[i]
  BY <1>2, <1>4, <1>5
<1>7. \A b \in 0 .. Len(cs) - 1 : \A i \in DOMAIN items(b) :
         <<b, i>> \in DOMAIN all /\ all[<<b, i>>] = items(b)[i]
  BY <1>3, <1>4, <1>5
<1> QED BY <1>6, <1>7 DEF all, items

\* What the audit finds of a paragraph that was published.
Audited(blocks, cands, cs, b) ==
    LET r     == cs[b + 1].response
        n     == NamespacedChunk(cs, b)
        chunk == PrepareChunk(blocks, cands, b, CarriedInto(cs, b))
    IN  /\ cs[b + 1].chunk = chunk
        /\ ValidateChunkResponse(chunk, r)
        /\ NamespaceAllowed(b, r, CarriedInto(cs, b))
        /\ ValidateChunkResponse(chunk, n)
        /\ \A i \in DOMAIN n.senses : n.senses[i].ref.blocks[1] = b
AuditedArticle(blocks, cands, cs) ==
    /\ Len(cs) \in Nat /\ DOMAIN blocks = 0 .. Len(cs) - 1
    /\ \A c, d \in cands : c.id = d.id => c = d
    /\ \A b \in DOMAIN blocks : Audited(blocks, cands, cs, b)

\* The senses of all answers have names of their own and are translated.
LEMMA AllSenses ==
    ASSUME NEW blocks, NEW cands, NEW cs, AuditedArticle(blocks, cands, cs)
    PROVE  LET all == AllItems(cs, "senses") IN
           /\ ValidRefs({}, all) /\ OwnNames(cands, ToSet(all))
           /\ \A s \in ToSet(all) : TranslatedSense(s)
           /\ \A b \in DOMAIN blocks : CarriedInto(cs, b) \cup ToSet(NamespacedChunk(cs, b).senses)
                                          \subseteq ToSet(all)
<1> DEFINE all == AllItems(cs, "senses")
           mine(b) == NamespacedChunk(cs, b).senses
<1>1. /\ \A p \in DOMAIN all : \E b \in DOMAIN blocks : \E i \in DOMAIN mine(b) :
            p = <<b, i>> /\ all[p] = mine(b)[i]
      /\ \A b \in DOMAIN blocks : \A i \in DOMAIN mine(b) :
            <<b, i>> \in DOMAIN all /\ all[<<b, i>>] = mine(b)[i]
  BY ItemsOfAll DEF AuditedArticle
<1>2. ASSUME NEW b \in DOMAIN blocks
      PROVE  /\ \A i \in DOMAIN mine(b) : /\ RefLength(mine(b)[i].ref) <= EveryRef
                                          /\ mine(b)[i].ref.blocks[1] = b
                                          /\ TranslatedSense(mine(b)[i])
             /\ \A i, j \in DOMAIN mine(b) : mine(b)[i].ref = mine(b)[j].ref => i = j
  <2> DEFINE chunk == PrepareChunk(blocks, cands, b, CarriedInto(cs, b))
             n == NamespacedChunk(cs, b)
  <2>1. /\ ValidateChunkResponse(chunk, n)
        /\ \A i \in DOMAIN n.senses : n.senses[i].ref.blocks[1] = b
    BY DEF AuditedArticle, Audited
  <2> HIDE DEF chunk, n
  <2>2. /\ ValidRefs(chunk.prior, n.senses)
        /\ \A s \in ToSet(n.senses) : TranslatedSense(s)
    BY <2>1 DEF ValidateChunkResponse, ValidateResponse, TranslatedSense
  <2>3. /\ \A i \in DOMAIN n.senses : RefLength(n.senses[i].ref) <= EveryRef /\ TranslatedSense(n.senses[i])
        /\ \A i, j \in DOMAIN n.senses : n.senses[i].ref = n.senses[j].ref => i = j
    BY <2>2 DEF ValidRefs, ToSet
  <2> QED BY <2>1, <2>3 DEF n
<1> HIDE DEF all, mine
<1>3. \A p, q \in DOMAIN all : all[p].ref = all[q].ref => p = q
  <2>1. SUFFICES ASSUME NEW p \in DOMAIN all, NEW q \in DOMAIN all, all[p].ref = all[q].ref PROVE p = q
    OBVIOUS
  <2>2. PICK b \in DOMAIN blocks : \E i \in DOMAIN mine(b) : p = <<b, i>> /\ all[p] = mine(b)[i]
    BY <1>1
  <2>3. PICK d \in DOMAIN blocks : \E j \in DOMAIN mine(d) : q = <<d, j>> /\ all[q] = mine(d)[j]
    BY <1>1
  <2>4. b = d
    BY <1>2, <2>1, <2>2, <2>3
  <2> QED BY <1>2, <2>1, <2>2, <2>3, <2>4
<1>4. \A p \in DOMAIN all : RefLength(all[p].ref) <= EveryRef /\ TranslatedSense(all[p])
  BY <1>1, <1>2
<1>5. ValidRefs({}, all) /\ OwnNames(cands, ToSet(all)) /\ \A s \in ToSet(all) : TranslatedSense(s)
  BY <1>3, <1>4 DEF ValidRefs, OwnNames, ToSet, AuditedArticle
<1>6. ASSUME NEW b \in DOMAIN blocks PROVE ToSet(mine(b)) \subseteq ToSet(all)
  <2>1. \A i \in DOMAIN mine(b) : mine(b)[i] \in ToSet(all)
    BY <1>1 DEF ToSet
  <2>2. \A s \in ToSet(mine(b)) : \E i \in DOMAIN mine(b) : s = mine(b)[i]
    BY DEF ToSet
  <2> QED BY <2>1, <2>2
<1>7. ASSUME NEW b \in DOMAIN blocks PROVE CarriedInto(cs, b) \subseteq ToSet(all)
  <2>1. \A k \in 0 .. b - 1 : k \in DOMAIN blocks
    BY DEF AuditedArticle
  <2>2. CarriedInto(cs, b) = UNION {ToSet(mine(k)) : k \in 0 .. b - 1}
    BY DEF CarriedInto, mine
  <2> QED BY <1>6, <2>1, <2>2
<1> QED BY <1>5, <1>6, <1>7 DEF all, mine

\* The words of all answers are those of the article, and each is valid.
LEMMA AllTokens ==
    ASSUME NEW blocks, NEW cands, NEW cs, AuditedArticle(blocks, cands, cs)
    PROVE  LET all    == AllItems(cs, "tokens")
               senses == ToSet(AllItems(cs, "senses"))
           IN  /\ Covers(all, Tokens(blocks))
               /\ \A x \in ToSet(all) :
                     /\ ValidToken(x, cands, senses)
                     /\ ValidSubtitle(x.class, WordOf(blocks, x.token), x.shadow,
                                      Said(x, cands, senses, "english"))
<1> DEFINE all == AllItems(cs, "tokens")
           mine(b) == NamespacedChunk(cs, b).tokens
<1>1. /\ \A p \in DOMAIN all : \E b \in DOMAIN blocks : \E i \in DOMAIN mine(b) :
            p = <<b, i>> /\ all[p] = mine(b)[i]
      /\ \A b \in DOMAIN blocks : \A i \in DOMAIN mine(b) :
            <<b, i>> \in DOMAIN all /\ all[<<b, i>>] = mine(b)[i]
  <2>1. /\ \A p \in DOMAIN all : \E b \in 0 .. Len(cs) - 1 :
              \E i \in DOMAIN NamespacedChunk(cs, b)["tokens"] :
                 p = <<b, i>> /\ all[p] = NamespacedChunk(cs, b)["tokens"][i]
        /\ \A b \in 0 .. Len(cs) - 1 : \A i \in DOMAIN NamespacedChunk(cs, b)["tokens"] :
              <<b, i>> \in DOMAIN all /\ all[<<b, i>>] = NamespacedChunk(cs, b)["tokens"][i]
    BY ItemsOfAll
  <2> QED BY <2>1 DEF AuditedArticle
<1> DEFINE senses  == ToSet(AllItems(cs, "senses"))
           here(b) == {<<b, i>> : i \in DOMAIN blocks[b].words}
<1>2. ASSUME NEW b \in DOMAIN blocks
      PROVE  /\ Corresponds(mine(b), "token", here(b))
             /\ \A x \in ToSet(mine(b)) :
                   /\ ValidToken(x, cands, senses)
                   /\ ValidSubtitle(x.class, WordOf(blocks, x.token), x.shadow,
                                    Said(x, cands, senses, "english"))
  <2> DEFINE chunk == PrepareChunk(blocks, cands, b, CarriedInto(cs, b))
             n == NamespacedChunk(cs, b)
             some == chunk.prior \cup ToSet(n.senses)
  <2>1. ValidateChunkResponse(chunk, n)
    BY DEF AuditedArticle, Audited
  <2>2. OnlyBlock(chunk.blocks, blocks, b) /\ chunk.candidates \subseteq cands
        /\ chunk.prior \subseteq CarriedInto(cs, b)
    BY ChunkBlocks DEF AuditedArticle, OnlyBlock
  <2>3. some \subseteq senses /\ OwnNames(cands, senses)
    BY <2>2, AllSenses
  <2>4. n.tokens = mine(b)
    OBVIOUS
  <2> HIDE DEF chunk, n, mine, senses
  <2>5. /\ Covers(n.tokens, Tokens(chunk.blocks))
        /\ \A x \in ToSet(n.tokens) :
              /\ ValidToken(x, chunk.candidates, some)
              /\ ValidSubtitle(x.class, WordOf(chunk.blocks, x.token), x.shadow,
                               Said(x, chunk.candidates, some, "english"))
    BY <2>1 DEF ValidateChunkResponse, ValidateResponse
  <2>6. Corresponds(mine(b), "token", here(b))
    BY <2>2, <2>4, <2>5 DEF OnlyBlock, Covers
  <2>7. ASSUME NEW x \in ToSet(mine(b))
        PROVE  /\ ValidToken(x, cands, senses)
               /\ ValidSubtitle(x.class, WordOf(blocks, x.token), x.shadow,
                                Said(x, cands, senses, "english"))
    <3> HIDE DEF some, here
    <3>1. /\ ValidToken(x, chunk.candidates, some)
          /\ ValidSubtitle(x.class, WordOf(chunk.blocks, x.token), x.shadow,
                           Said(x, chunk.candidates, some, "english"))
      BY <2>4, <2>5
    <3>2. ValidReference(x, chunk.candidates, some)
      BY <3>1 DEF ValidToken
    <3>3. /\ ValidReference(x, cands, senses)
          /\ Said(x, cands, senses, "english") = Said(x, chunk.candidates, some, "english")
      BY <2>2, <2>3, <3>2, SaidAmongMore
    <3>4. x.token \in here(b)
      BY <2>6 DEF Corresponds, ToSet
    <3>5. WordOf(chunk.blocks, x.token) = WordOf(blocks, x.token)
      BY <2>2, <3>4 DEF WordOf, OnlyBlock, here
    <3> QED BY <3>1, <3>3, <3>5 DEF ValidToken
  <2> QED BY <2>6, <2>7
<1> HIDE DEF all, mine
<1>3. {all[p].token : p \in DOMAIN all} = Tokens(blocks)
  <2>1. \A p \in DOMAIN all : all[p].token \in Tokens(blocks)
    <3>1. SUFFICES ASSUME NEW b \in DOMAIN blocks, NEW i \in DOMAIN mine(b) PROVE mine(b)[i].token \in Tokens(blocks)
      BY <1>1
    <3>2. mine(b)[i]["token"] \in here(b)
      BY <1>2 DEF Corresponds
    <3> QED BY <3>2 DEF Tokens
  <2>2. ASSUME NEW t \in Tokens(blocks) PROVE \E p \in DOMAIN all : all[p].token = t
    <3>1. PICK b \in DOMAIN blocks : t \in here(b)
      BY DEF Tokens
    <3>2. PICK i \in DOMAIN mine(b) : mine(b)[i]["token"] = t
      <4>1. {mine(b)[i]["token"] : i \in DOMAIN mine(b)} = here(b)
        BY <1>2 DEF Corresponds
      <4> HIDE DEF here
      <4> QED BY <3>1, <4>1
    <3> QED BY <1>1, <3>2
  <2> QED BY <2>1, <2>2
<1>4. ASSUME NEW p \in DOMAIN all, NEW q \in DOMAIN all, all[p].token = all[q].token PROVE p = q
  <2>1. PICK b \in DOMAIN blocks : \E i \in DOMAIN mine(b) : p = <<b, i>> /\ all[p] = mine(b)[i]
    BY <1>1
  <2>2. PICK d \in DOMAIN blocks : \E j \in DOMAIN mine(d) : q = <<d, j>> /\ all[q] = mine(d)[j]
    BY <1>1
  <2>3. PICK i \in DOMAIN mine(b) : p = <<b, i>> /\ all[p] = mine(b)[i]
    BY <2>1
  <2>4. PICK j \in DOMAIN mine(d) : q = <<d, j>> /\ all[q] = mine(d)[j]
    BY <2>2
  <2>5. mine(b)[i]["token"] \in here(b) /\ mine(d)[j]["token"] \in here(d)
    BY <1>2 DEF Corresponds
  <2>6. b = d
    BY <1>4, <2>3, <2>4, <2>5
  <2>7. \A k, l \in DOMAIN mine(b) : mine(b)[k]["token"] = mine(b)[l]["token"] => k = l
    BY <1>2 DEF Corresponds
  <2> QED BY <1>4, <2>3, <2>4, <2>6, <2>7
<1>5. Covers(all, Tokens(blocks))
  BY <1>3, <1>4 DEF Covers, Corresponds
<1>6. ASSUME NEW x \in ToSet(all)
      PROVE  /\ ValidToken(x, cands, senses)
             /\ ValidSubtitle(x.class, WordOf(blocks, x.token), x.shadow,
                              Said(x, cands, senses, "english"))
  <2>1. PICK b \in DOMAIN blocks : x \in ToSet(mine(b))
    BY <1>1 DEF ToSet
  <2> QED BY <1>2, <2>1
<1> QED BY <1>5, <1>6 DEF all

\* The constructions of all answers are valid in the article, and contiguous
\* ones of different paragraphs do not meet.
LEMMA AllConstructions ==
    ASSUME NEW blocks, NEW cands, NEW cs, AuditedArticle(blocks, cands, cs)
    PROVE  LET all    == AllItems(cs, "constructions")
               senses == ToSet(AllItems(cs, "senses"))
           IN  /\ \A c \in ToSet(all) :
                     /\ ValidConstruction(c, blocks, cands, senses)
                     /\ ValidConstructionSubtitle(c, blocks, c.shadow, Said(c, cands, senses, "canonical"))
               /\ LayersApart(all, blocks)
<1> DEFINE all == AllItems(cs, "constructions")
           mine(b) == NamespacedChunk(cs, b).constructions
<1>1. /\ \A p \in DOMAIN all : \E b \in DOMAIN blocks : \E i \in DOMAIN mine(b) :
            p = <<b, i>> /\ all[p] = mine(b)[i]
      /\ \A b \in DOMAIN blocks : \A i \in DOMAIN mine(b) :
            <<b, i>> \in DOMAIN all /\ all[<<b, i>>] = mine(b)[i]
  <2>1. /\ \A p \in DOMAIN all : \E b \in 0 .. Len(cs) - 1 :
              \E i \in DOMAIN NamespacedChunk(cs, b)["constructions"] :
                 p = <<b, i>> /\ all[p] = NamespacedChunk(cs, b)["constructions"][i]
        /\ \A b \in 0 .. Len(cs) - 1 : \A i \in DOMAIN NamespacedChunk(cs, b)["constructions"] :
              <<b, i>> \in DOMAIN all /\ all[<<b, i>>] = NamespacedChunk(cs, b)["constructions"][i]
    BY ItemsOfAll
  <2> QED BY <2>1 DEF AuditedArticle
<1> DEFINE senses == ToSet(AllItems(cs, "senses"))
           At(c, b) == /\ 1 \in DOMAIN c.spans /\ c.spans[1].block = b
           Apart(c, d) == LET s == ResolveSpan(blocks, c.spans[1])
                              t == ResolveSpan(blocks, d.spans[1])
                          IN  ~(s.block = t.block /\ s.first <= t.last /\ t.first <= s.last)
<1>2. ASSUME NEW b \in DOMAIN blocks
      PROVE  /\ \A c \in ToSet(mine(b)) :
                   /\ ValidConstruction(c, blocks, cands, senses)
                   /\ ValidConstructionSubtitle(c, blocks, c.shadow, Said(c, cands, senses, "canonical"))
                   /\ Contiguous(c) => At(c, b)
             /\ \A i, j \in DOMAIN mine(b) :
                   i # j /\ Contiguous(mine(b)[i]) /\ Contiguous(mine(b)[j]) => Apart(mine(b)[i], mine(b)[j])
  <2> DEFINE chunk == PrepareChunk(blocks, cands, b, CarriedInto(cs, b))
             n == NamespacedChunk(cs, b)
             some == chunk.prior \cup ToSet(n.senses)
  <2>1. ValidateChunkResponse(chunk, n)
    BY DEF AuditedArticle, Audited
  <2>2. OnlyBlock(chunk.blocks, blocks, b) /\ chunk.candidates \subseteq cands
        /\ chunk.prior \subseteq CarriedInto(cs, b)
    BY ChunkBlocks DEF AuditedArticle, OnlyBlock
  <2>3. some \subseteq senses /\ OwnNames(cands, senses)
    BY <2>2, AllSenses
  <2>4. n.constructions = mine(b)
    OBVIOUS
  <2>5. \A t \in Tokens(blocks) : t[1] = b => t \in Tokens(chunk.blocks)
    <3> HIDE DEF chunk
    <3> QED BY <2>2 DEF OnlyBlock, Tokens
  <2> HIDE DEF chunk, n, mine, senses
  <2>6. /\ \A c \in ToSet(n.constructions) :
              /\ ValidConstruction(c, chunk.blocks, chunk.candidates, some)
              /\ ValidConstructionSubtitle(c, chunk.blocks, c.shadow, Said(c, chunk.candidates, some, "canonical"))
        /\ LayersApart(n.constructions, chunk.blocks)
    BY <2>1 DEF ValidateChunkResponse, ValidateResponse
  <2> HIDE DEF some, At, Apart
  <2>7. ASSUME NEW c \in ToSet(mine(b))
        PROVE  /\ ValidConstruction(c, blocks, cands, senses)
               /\ ValidConstructionSubtitle(c, blocks, c.shadow, Said(c, cands, senses, "canonical"))
               /\ Contiguous(c) => /\ At(c, b)
                                   /\ ResolveSpan(blocks, c.spans[1]) = ResolveSpan(chunk.blocks, c.spans[1])
    <3>1. /\ ValidConstruction(c, chunk.blocks, chunk.candidates, some)
          /\ ValidConstructionSubtitle(c, chunk.blocks, c.shadow, Said(c, chunk.candidates, some, "canonical"))
      BY <2>4, <2>6
    <3>2. ValidReference(c, chunk.candidates, some)
      BY <3>1 DEF ValidConstruction
    <3>3. /\ ValidReference(c, cands, senses)
          /\ Said(c, cands, senses, "canonical") = Said(c, chunk.candidates, some, "canonical")
      BY <2>2, <2>3, <3>2, SaidAmongMore
    <3>4. /\ ValidConstruction(c, blocks, cands, senses)
          /\ \A k \in DOMAIN c.members : c.members[k] \in Tokens(chunk.blocks)
          /\ Contiguous(c) => /\ 1 \in DOMAIN c.spans /\ c.spans[1].block = b
                              /\ ResolveSpan(blocks, c.spans[1]) = ResolveSpan(chunk.blocks, c.spans[1])
      BY <2>2, <2>5, <3>1, <3>3, ConstructionIsLocal
    <3>5. \A t \in Tokens(chunk.blocks) : WordOf(blocks, t) = WordOf(chunk.blocks, t)
      BY <2>2 DEF OnlyBlock, WordOf
    <3>6. [k \in DOMAIN c.members |-> WordOf(blocks, c.members[k])]
          = [k \in DOMAIN c.members |-> WordOf(chunk.blocks, c.members[k])]
      BY <3>4, <3>5
    <3>7. ValidConstructionSubtitle(c, blocks, c.shadow, Said(c, cands, senses, "canonical"))
      BY <3>1, <3>3, <3>6 DEF ValidConstructionSubtitle
    <3> QED BY <3>4, <3>7 DEF At
  <2>8. ASSUME NEW i \in DOMAIN mine(b), NEW j \in DOMAIN mine(b), i # j,
               Contiguous(mine(b)[i]), Contiguous(mine(b)[j])
        PROVE  Apart(mine(b)[i], mine(b)[j])
    <3>1. mine(b)[i] \in ToSet(mine(b)) /\ mine(b)[j] \in ToSet(mine(b))
      BY DEF ToSet
    <3>2. /\ ResolveSpan(blocks, mine(b)[i].spans[1]) = ResolveSpan(chunk.blocks, mine(b)[i].spans[1])
          /\ ResolveSpan(blocks, mine(b)[j].spans[1]) = ResolveSpan(chunk.blocks, mine(b)[j].spans[1])
      BY <2>7, <2>8, <3>1
    <3>3. LayersApart(mine(b), chunk.blocks)
      BY <2>4, <2>6
    <3> QED BY <2>8, <3>2, <3>3 DEF LayersApart, Apart
  <2> QED BY <2>7, <2>8
<1> HIDE DEF all, mine, senses
<1>3. ASSUME NEW c \in ToSet(all)
      PROVE  /\ ValidConstruction(c, blocks, cands, senses)
             /\ ValidConstructionSubtitle(c, blocks, c.shadow, Said(c, cands, senses, "canonical"))
  <2>1. PICK b \in DOMAIN blocks : c \in ToSet(mine(b))
    BY <1>1 DEF ToSet
  <2> HIDE DEF At, Apart
  <2> QED BY <1>2, <2>1
<1>4. ASSUME NEW p \in DOMAIN all, NEW q \in DOMAIN all, p # q, Contiguous(all[p]), Contiguous(all[q])
      PROVE  Apart(all[p], all[q])
  <2>1. PICK b \in DOMAIN blocks : \E i \in DOMAIN mine(b) : p = <<b, i>> /\ all[p] = mine(b)[i]
    BY <1>1
  <2>2. PICK d \in DOMAIN blocks : \E j \in DOMAIN mine(d) : q = <<d, j>> /\ all[q] = mine(d)[j]
    BY <1>1
  <2>3. PICK i \in DOMAIN mine(b) : p = <<b, i>> /\ all[p] = mine(b)[i]
    BY <2>1
  <2>4. PICK j \in DOMAIN mine(d) : q = <<d, j>> /\ all[q] = mine(d)[j]
    BY <2>2
  <2>5. CASE b = d
    <3>1. i # j
      BY <1>4, <2>3, <2>4, <2>5
    <3> HIDE DEF At, Apart
    <3> QED BY <1>2, <1>4, <2>3, <2>4, <2>5, <3>1
  <2>6. CASE b # d
    <3>1. mine(b)[i] \in ToSet(mine(b)) /\ mine(d)[j] \in ToSet(mine(d))
      BY DEF ToSet
    <3>2. all[p].spans[1].block = b /\ all[q].spans[1].block = d
      <4> HIDE DEF Apart
      <4> QED BY <1>2, <1>4, <2>3, <2>4, <3>1
    <3>3. /\ ResolveSpan(blocks, all[p].spans[1]).block = b
          /\ ResolveSpan(blocks, all[q].spans[1]).block = d
      BY <3>2 DEF ResolveSpan
    <3> QED BY <2>6, <3>3
  <2> QED BY <2>5, <2>6
<1>5. LayersApart(all, blocks)
  BY <1>4 DEF LayersApart
<1> QED BY <1>3, <1>5 DEF all, senses

\* The audit of paragraphs that were published finds nothing.
LEMMA AuditAccepts ==
    ASSUME NEW blocks, NEW cands, NEW cs, AuditedArticle(blocks, cands, cs)
    PROVE  MergeChunks(blocks, cands, cs)
<1> DEFINE r == [tokens |-> AllItems(cs, "tokens"), senses |-> AllItems(cs, "senses"),
                 constructions |-> AllItems(cs, "constructions")]
           senses == {} \cup ToSet(r.senses)
<1>1. /\ r.tokens = AllItems(cs, "tokens") /\ r.senses = AllItems(cs, "senses")
      /\ r.constructions = AllItems(cs, "constructions")
  OBVIOUS
<1>2. senses = ToSet(AllItems(cs, "senses"))
  BY <1>1
<1>3. ValidRefs({}, r.senses) /\ \A s \in senses : TranslatedSense(s)
  BY <1>1, <1>2, AllSenses
<1>4. /\ Covers(r.tokens, Tokens(blocks))
      /\ \A x \in ToSet(r.tokens) :
            /\ ValidToken(x, cands, senses)
            /\ ValidSubtitle(x.class, WordOf(blocks, x.token), x.shadow, Said(x, cands, senses, "english"))
  BY <1>1, <1>2, AllTokens
<1>5. /\ \A c \in ToSet(r.constructions) :
            /\ ValidConstruction(c, blocks, cands, senses)
            /\ ValidConstructionSubtitle(c, blocks, c.shadow, Said(c, cands, senses, "canonical"))
      /\ LayersApart(r.constructions, blocks)
  BY <1>1, <1>2, AllConstructions
<1> HIDE DEF r
<1>6. ValidateResponse(blocks, cands, r, {})
  BY <1>3, <1>4, <1>5 DEF ValidateResponse, TranslatedSense
<1>7. /\ DOMAIN blocks = 0 .. Len(cs) - 1
      /\ \A b \in DOMAIN blocks :
            LET chunk == PrepareChunk(blocks, cands, b, CarriedInto(cs, b)) IN
            /\ cs[b + 1].chunk = chunk
            /\ ValidateChunkResponse(chunk, cs[b + 1].response)
            /\ NamespaceAllowed(b, cs[b + 1].response, CarriedInto(cs, b))
  BY DEF AuditedArticle, Audited
<1> QED BY <1>6, <1>7 DEF MergeChunks, r

-----------------------------------------------------------------------------
(* What the audit will find is an invariant.                               *)

\* A snapshot of the lexicon names each candidate once.
CandidatesAreNamed == \A c, d \in candidates : c.id = d.id => c = d

\* A merged answer is valid under the names its provider gave, but for the
\* bound on their lengths.
MergedIsValid ==
    phase = "publish" => ValidateResponse(Chunk.blocks, Chunk.candidates, merged, Chunk.prior)

\* The run has kept what it published, paragraph by paragraph.
KeptIsPublished ==
    /\ \E S : chunks \in Seq(S)
    /\ Len(chunks) = block /\ prior = CarriedInto(chunks, block)
    /\ \A b \in 0 .. block - 1 : Audited(article, candidates, chunks, b)
    /\ phase = "merge" => DOMAIN article = 0 .. block - 1

AuditInv == CandidatesAreNamed /\ MergedIsValid /\ KeptIsPublished /\ phase # "merge_refused"

\* Merging keeps the references, which the first stage found fresh.
LEMMA MergedAnswersAreValid ==
    ASSUME CompileInv, PriorIsSound, NEW v, NEW t, StagesAccept(Chunk, v, t)
    PROVE  ValidateResponse(Chunk.blocks, Chunk.candidates, MergeLinguisticTranslation(v, t), Chunk.prior)
<1>1. /\ rawLinguisticArtifact(v).senses = v.senses
      /\ \A i \in DOMAIN v.senses : v.senses[i].ref \in SenseRef
  BY RawShape DEF StagesAccept, DecodeLinguisticArtifact
<1>2. ValidRefs(Chunk.prior, v.senses)
  BY <1>1 DEF StagesAccept, ValidateLinguistic
<1>3. \A s \in ToSet(v.senses) : /\ s.ref \in SenseRef /\ RefLength(s.ref) <= EveryRef
                                 /\ \A p \in Chunk.prior : s.ref # p.ref
  BY <1>1, <1>2 DEF ValidRefs, ToSet
<1>4. FreshRefs(Chunk, v, AsTheyAre)
  BY <1>3 DEF FreshRefs, AsTheyAre
<1>5. \A p \in Chunk.prior : TranslatedSense(p)
  BY DEF PriorIsSound, CarriedSense, Chunk, PrepareChunk
<1>6. Renders(MergeLinguisticTranslation(v, t), v, t, AsTheyAre)
  BY MergeRenders DEF StagesAccept
<1> QED BY <1>4, <1>5, <1>6, RenderingIsValid

\* Steps that publish nothing.
LEMMA AuditStays ==
    ASSUME AuditInv, UNCHANGED <<article, runVars>>, MergedIsValid',
           phase' # "merge_refused", phase' = "merge" => phase = "merge"
    PROVE  AuditInv'
<1>1. UNCHANGED <<article, candidates, prior, chunks, block>>
  BY DEF runVars
<1>2. CandidatesAreNamed'
  BY <1>1 DEF AuditInv, CandidatesAreNamed
<1>3. KeptIsPublished'
  BY <1>1 DEF AuditInv, KeptIsPublished
<1> QED BY <1>2, <1>3 DEF AuditInv

\* A failure or a rejected turn.
LEMMA AuditFails ==
    ASSUME AuditInv, UNCHANGED article,
           \/ \E why : why \notin {"publish", "merge", "merge_refused"} /\ FailRun(why)
           \/ phase \in Stage /\ Rejected
    PROVE  AuditInv'
<1>1. /\ UNCHANGED runVars /\ MergedIsValid'
      /\ phase' # "merge_refused" /\ (phase' = "merge" => phase = "merge")
  BY DEF FailRun, Rejected, Stage, MergedIsValid, AuditInv
<1> QED BY <1>1, AuditStays

\* The translation stage accepts.
LEMMA AuditTranslation ==
    ASSUME CompileInv, AcceptedInv, AuditInv, phase = "translation", NEW a,
           ValidateTranslation(Chunk, draft, a),
           merged' = MergeLinguisticTranslation(draft, a), phase' = "publish",
           UNCHANGED <<article, runVars>>
    PROVE  AuditInv'
<1> DEFINE r == MergeLinguisticTranslation(draft, a)
<1>1. StagesAccept(Chunk, draft, a)
  BY DEF StagesAccept, AcceptedInv, DraftIsAccepted
<1>2. ValidateResponse(Chunk.blocks, Chunk.candidates, r, Chunk.prior)
  BY <1>1, MergedAnswersAreValid DEF AcceptedInv
<1>3. merged' = r /\ Chunk' = Chunk
  BY DEF Chunk, runVars
<1> HIDE DEF r
<1>4. MergedIsValid'
  BY <1>2, <1>3 DEF MergedIsValid
<1> QED BY <1>4, AuditStays

\* One set more in a union.
LEMMA UnionOfOneMore ==
    ASSUME NEW A, NEW B, NEW c, c \in A,
           \A y \in A : y \in B \/ y = c, \A y \in B : y \in A
    PROVE  UNION A = (UNION B) \cup c
<1>1. ASSUME NEW x, x \in UNION A PROVE x \in (UNION B) \cup c
  <2>1. \E y : y \in A /\ x \in y
    BY <1>1, Zenon
  <2>2. PICK y : y \in A /\ x \in y
    BY <2>1
  <2>3. CASE y \in B
    BY <2>2, <2>3, Zenon
  <2>4. CASE y = c
    BY <2>2, <2>4, Zenon
  <2> QED BY <2>2, <2>3, <2>4
<1>2. ASSUME NEW x, x \in (UNION B) \cup c PROVE x \in UNION A
  <2>1. CASE x \in c
    BY <2>1, Zenon
  <2>2. CASE x \in UNION B
    <3>1. \E y : y \in B /\ x \in y
      BY <2>2, Zenon
    <3>2. PICK y : y \in B /\ x \in y
      BY <3>1
    <3> QED BY <3>2, Zenon
  <2> QED BY <1>2, <2>1, <2>2, Zenon
<1> QED BY <1>1, <1>2, Zenon

\* The sets up to a number are those below it and its own.
LEMMA UnionUpTo ==
    ASSUME NEW n \in Nat, NEW f
    PROVE  UNION {f[k] : k \in 0 .. n} = (UNION {f[k] : k \in 0 .. n - 1}) \cup f[n]
<1>1. \A k \in 0 .. n : k \in 0 .. n - 1 \/ k = n
  OBVIOUS
<1>2. /\ n \in 0 .. n
      /\ \A k \in 0 .. n - 1 : k \in 0 .. n
  OBVIOUS
<1>3. \A y \in {f[k] : k \in 0 .. n} : y \in {f[k] : k \in 0 .. n - 1} \/ y = f[n]
  BY <1>1
<1>4. f[n] \in {f[k] : k \in 0 .. n} /\ \A y \in {f[k] : k \in 0 .. n - 1} : y \in {f[k] : k \in 0 .. n}
  BY <1>2
<1> QED BY <1>3, <1>4, UnionOfOneMore

\* A paragraph more does not change what is found of those before.
LEMMA AuditAppends ==
    ASSUME NEW S, NEW cs \in Seq(S), NEW c
    PROVE  LET ds == Append(cs, c) IN
           /\ \E T : ds \in Seq(T)
           /\ Len(ds) = Len(cs) + 1 /\ ds[Len(cs) + 1] = c
           /\ CarriedInto(ds, Len(cs) + 1)
              = CarriedInto(cs, Len(cs)) \cup ToSet(NamespaceChunkResponse(Len(cs), c.response).senses)
           /\ CarriedInto(ds, Len(cs)) = CarriedInto(cs, Len(cs))
           /\ NamespacedChunk(ds, Len(cs)) = NamespaceChunkResponse(Len(cs), c.response)
           /\ \A blocks, cands : \A b \in 0 .. Len(cs) - 1 :
                 Audited(blocks, cands, cs, b) => Audited(blocks, cands, ds, b)
<1> DEFINE ds == Append(cs, c)
           n  == Len(cs)
<1>1. n \in Nat /\ Len(ds) = n + 1 /\ ds[n + 1] = c /\ \A i \in 1 .. n : ds[i] = cs[i]
  <2>1. cs \in Seq(S \cup {c}) /\ c \in S \cup {c}
    OBVIOUS
  <2> QED BY <2>1
<1>2. ds \in Seq(S \cup {c})
  <2>1. cs \in Seq(S \cup {c}) /\ c \in S \cup {c}
    OBVIOUS
  <2> QED BY <2>1
<1> HIDE DEF ds, n
<1>3. \A k \in 0 .. n - 1 : NamespacedChunk(ds, k) = NamespacedChunk(cs, k)
  BY <1>1 DEF NamespacedChunk
<1>4. NamespacedChunk(ds, n) = NamespaceChunkResponse(n, c.response)
  BY <1>1 DEF NamespacedChunk
<1>5. \A b \in 0 .. n : CarriedInto(ds, b) = CarriedInto(cs, b)
  <2>1. SUFFICES ASSUME NEW b \in 0 .. n PROVE CarriedInto(ds, b) = CarriedInto(cs, b)
    OBVIOUS
  <2>2. {ToSet(NamespacedChunk(ds, k).senses) : k \in 0 .. b - 1}
        = {ToSet(NamespacedChunk(cs, k).senses) : k \in 0 .. b - 1}
    BY <1>1, <1>3
  <2> QED BY <2>2 DEF CarriedInto
<1>6. CarriedInto(ds, n + 1) = CarriedInto(cs, n) \cup ToSet(NamespaceChunkResponse(n, c.response).senses)
  <2> DEFINE senses == [k \in 0 .. n |-> ToSet(NamespacedChunk(ds, k).senses)]
  <2>1. \A k \in 0 .. n : senses[k] = ToSet(NamespacedChunk(ds, k).senses)
    OBVIOUS
  <2> HIDE DEF senses
  <2>2. CarriedInto(ds, n + 1) = UNION {senses[k] : k \in 0 .. n}
    <3>1. {ToSet(NamespacedChunk(ds, k).senses) : k \in 0 .. n} = {senses[k] : k \in 0 .. n}
      BY <2>1
    <3> DEFINE upTo(j) == {ToSet(NamespacedChunk(ds, k).senses) : k \in 0 .. j}
               next == n + 1
    <3>2. upTo(n) = {senses[k] : k \in 0 .. n}
      BY <3>1
    <3>3. next - 1 = n
      BY <1>1
    <3> HIDE DEF next
    <3>4. CarriedInto(ds, next) = UNION upTo(next - 1)
      BY DEF CarriedInto
    <3> HIDE DEF upTo
    <3> QED BY <3>2, <3>3, <3>4 DEF next
  <2>3. CarriedInto(ds, n) = UNION {senses[k] : k \in 0 .. n - 1}
    <3>1. {ToSet(NamespacedChunk(ds, k).senses) : k \in 0 .. n - 1} = {senses[k] : k \in 0 .. n - 1}
      BY <1>1, <2>1
    <3> QED BY <3>1 DEF CarriedInto
  <2>4. senses[n] = ToSet(NamespaceChunkResponse(n, c.response).senses)
    BY <1>1, <1>4, <2>1
  <2>5. UNION {senses[k] : k \in 0 .. n} = (UNION {senses[k] : k \in 0 .. n - 1}) \cup senses[n]
    BY <1>1, UnionUpTo
  <2> QED BY <1>1, <1>5, <2>2, <2>3, <2>4, <2>5
<1>7. ASSUME NEW blocks, NEW cands, NEW b \in 0 .. n - 1, Audited(blocks, cands, cs, b)
      PROVE  Audited(blocks, cands, ds, b)
  <2>1. ds[b + 1] = cs[b + 1] /\ NamespacedChunk(ds, b) = NamespacedChunk(cs, b)
        /\ CarriedInto(ds, b) = CarriedInto(cs, b)
    BY <1>1, <1>3, <1>5
  <2> QED BY <1>7, <2>1 DEF Audited
<1>8. CarriedInto(ds, n) = CarriedInto(cs, n)
  BY <1>1, <1>5
<1> QED BY <1>1, <1>2, <1>4, <1>6, <1>7, <1>8 DEF ds, n

\* A publication keeps the paragraph as the audit will want it.
LEMMA AuditPublish ==
    ASSUME CompileInv, AcceptedInv, AuditInv, PublishChunk
    PROVE  AuditInv'
<1> DEFINE n      == NamespaceChunkResponse(block, merged)
           senses == Chunk.prior \cup ToSet(n.senses)
           a      == rawLinguisticArtifact(draft)
           kept   == [chunk |-> Chunk, response |-> merged]
<1>1. CASE ~(/\ NamespaceAllowed(block, merged, prior)
             /\ ValidateChunkResponse(Chunk, n) /\ Publishable(senses, n))
  <2>1. FailRun("publish_refused") /\ UNCHANGED article
    BY <1>1 DEF PublishChunk
  <2> QED BY <2>1, AuditFails
<1>2. CASE /\ NamespaceAllowed(block, merged, prior)
           /\ ValidateChunkResponse(Chunk, n) /\ Publishable(senses, n)
  <2>1. /\ phase = "publish" /\ chunks' = Append(chunks, kept)
        /\ prior' = prior \cup ToSet(n.senses) /\ block' = block + 1
        /\ phase' = IF block + 1 \in DOMAIN article THEN "linguistic" ELSE "merge"
        /\ UNCHANGED <<article, candidates>>
    BY <1>2 DEF PublishChunk
  <2>2. /\ block \in Nat /\ block \in DOMAIN article
        /\ \A b \in DOMAIN article : b \in Nat /\ 0 .. b \subseteq DOMAIN article
    BY <2>1 DEF CompileInv, RunsAreNumbered
  <2>3. PICK S : chunks \in Seq(S)
    BY DEF AuditInv, KeptIsPublished
  <2>4. /\ Len(chunks) = block /\ prior = CarriedInto(chunks, block)
        /\ \A b \in 0 .. block - 1 : Audited(article, candidates, chunks, b)
    BY DEF AuditInv, KeptIsPublished
  <2>5. DecodeLinguisticArtifact(a) /\ AllExtend(merged.senses, a.senses)
    BY <2>1 DEF CompileInv, DraftIsGrounded, MergedIsDraft, Grounded, Translates
  <2> HIDE DEF a
  <2>6. /\ DOMAIN n.senses = DOMAIN a.senses
        /\ \A i \in DOMAIN a.senses : /\ n.senses[i].ref = Prefixed(block, a.senses[i].ref)
                                      /\ n.senses[i].canonical = a.senses[i].canonical
                                      /\ n.senses[i].disc = a.senses[i].disc
                                      /\ a.senses[i].ref \in SenseRef
    BY <2>5, NamespacedSenses
  <2>7. /\ DOMAIN merged.senses = DOMAIN a.senses
        /\ \A i \in DOMAIN a.senses : merged.senses[i].ref = a.senses[i].ref
    <3>1. \A i \in DOMAIN a.senses : "ref" \in DOMAIN a.senses[i]
      BY <2>5 DEF DecodeLinguisticArtifact
    <3> QED BY <2>5, <3>1 DEF AllExtend, Extends
  <2> HIDE DEF n
  <2>8. \A i \in DOMAIN n.senses : n.senses[i].ref.blocks[1] = block
    BY <2>2, <2>6, PrefixKeepsApart
  <2>9. ValidateChunkResponse(Chunk, merged)
    <3>1. ASSUME NEW i \in DOMAIN a.senses PROVE RefLength(merged.senses[i].ref) <= LocalRef
      <4>1. n.senses[i] \in ToSet(n.senses)
        BY <2>6 DEF ToSet
      <4>2. RefLength(Prefixed(block, a.senses[i].ref)) <= LocalRef
        BY <1>2, <2>6, <4>1 DEF ValidateChunkResponse
      <4>3. /\ RefLength(a.senses[i].ref) \in Nat /\ RefLength(Prefixed(block, a.senses[i].ref)) \in Nat
            /\ RefLength(a.senses[i].ref) <= RefLength(Prefixed(block, a.senses[i].ref))
        BY <2>2, <2>6, PrefixKeepsApart
      <4> QED BY <2>7, <4>2, <4>3, SemanticsAssumption
    <3>2. \A s \in ToSet(merged.senses) : RefLength(s.ref) <= LocalRef
      BY <2>7, <3>1 DEF ToSet
    <3> QED BY <2>1, <3>2 DEF ValidateChunkResponse, AuditInv, MergedIsValid
  <2>10. /\ \E T : chunks' \in Seq(T)
         /\ Len(chunks') = block + 1 /\ chunks'[block + 1] = kept
         /\ CarriedInto(chunks', block + 1) = CarriedInto(chunks, block) \cup ToSet(n.senses)
         /\ CarriedInto(chunks', block) = CarriedInto(chunks, block)
         /\ NamespacedChunk(chunks', block) = n
         /\ \A b \in 0 .. block - 1 : Audited(article, candidates, chunks', b)
    <3>1. kept.response = merged
      OBVIOUS
    <3> HIDE DEF kept
    <3> QED BY <2>1, <2>3, <2>4, <3>1, AuditAppends DEF n
  <2>11. Audited(article, candidates, chunks', block)
    <3>1. kept.chunk = Chunk /\ kept.response = merged
      OBVIOUS
    <3>2. Chunk = PrepareChunk(article, candidates, block, CarriedInto(chunks', block))
      BY <2>4, <2>10 DEF Chunk
    <3> HIDE DEF kept
    <3> QED BY <1>2, <2>4, <2>8, <2>9, <2>10, <3>1, <3>2 DEF Audited
  <2>12. \A b \in 0 .. block : Audited(article, candidates, chunks', b)
    <3>1. \A b \in 0 .. block : b \in 0 .. block - 1 \/ b = block
      BY <2>2
    <3> QED BY <2>10, <2>11, <3>1
  <2>13. phase' = "merge" => DOMAIN article = 0 .. block
    <3>1. SUFFICES ASSUME block + 1 \notin DOMAIN article PROVE DOMAIN article = 0 .. block
      BY <2>1
    <3>2. \A b \in DOMAIN article : b \in 0 .. block
      BY <2>2, <3>1
    <3> QED BY <2>2, <3>2
  <2>14. KeptIsPublished'
    <3>1. block' - 1 = block
      BY <2>1, <2>2
    <3> QED BY <2>1, <2>4, <2>10, <2>12, <2>13, <3>1 DEF KeptIsPublished
  <2>15. CandidatesAreNamed' /\ MergedIsValid' /\ phase' # "merge_refused"
    BY <2>1 DEF AuditInv, CandidatesAreNamed, MergedIsValid
  <2> QED BY <2>14, <2>15 DEF AuditInv
<1> QED BY <1>1, <1>2

\* The audit.
LEMMA AuditMerges ==
    ASSUME CompileInv, AuditInv, MergeArticle
    PROVE  AuditInv'
<1>1. AuditedArticle(article, candidates, chunks)
  BY DEF AuditInv, KeptIsPublished, CandidatesAreNamed, AuditedArticle, CompileInv, RunsAreNumbered, MergeArticle
<1>2. MergeChunks(article, candidates, chunks)
  BY <1>1, AuditAccepts
<1>3. phase' = "ready" /\ UNCHANGED <<article, runVars>>
  BY <1>2 DEF MergeArticle
<1> QED BY <1>3, AuditStays DEF MergedIsValid

\* A new attempt has kept nothing, and its snapshot names each candidate once.
LEMMA AuditStarts ==
    ASSUME NEW fresh, NEW version, StartCompile(fresh, version)
    PROVE  AuditInv'
<1>1. /\ phase' = "linguistic" /\ block' = 0 /\ chunks' = <<>> /\ prior' = {}
      /\ candidates' = LookupCandidates(lexicon, article)
  BY DEF StartCompile
<1>2. CandidatesAreNamed'
  BY <1>1 DEF CandidatesAreNamed, LookupCandidates
<1>3. KeptIsPublished'
  <2>1. <<>> \in Seq({}) /\ Len(<<>>) = 0
    OBVIOUS
  <2>2. CarriedInto(<<>>, 0) = {}
    BY DEF CarriedInto
  <2> QED BY <1>1, <2>1, <2>2 DEF KeptIsPublished
<1> QED BY <1>1, <1>2, <1>3 DEF AuditInv, MergedIsValid

\* Every step preserves it.
LEMMA AuditSteps ==
    CompileInv /\ AcceptedInv /\ AuditInv /\ [CompileNext]_compileVars => AuditInv'
<1> SUFFICES ASSUME CompileInv, AcceptedInv, AuditInv, [CompileNext]_compileVars PROVE AuditInv'
  OBVIOUS
<1>1. ASSUME NEW fresh \in BOOLEAN, NEW v \in Versions, StartCompile(fresh, v) PROVE AuditInv'
  BY <1>1, AuditStarts
<1>2. CASE LinguisticHit
  BY <1>2, AuditStays DEF LinguisticHit, MergedIsValid
<1>3. ASSUME phase = "linguistic", NEW a \in Drafts(Chunk, run.number), LinguisticTurn(a) PROVE AuditInv'
  <2>1. CASE DecodeLinguisticArtifact(a) /\ ValidateLinguistic(Chunk, a)
    BY <1>3, <2>1, AuditStays DEF LinguisticTurn, MergedIsValid
  <2>2. CASE ~(DecodeLinguisticArtifact(a) /\ ValidateLinguistic(Chunk, a))
    BY <1>3, <2>2, AuditFails DEF LinguisticTurn, Stage
  <2> QED BY <2>1, <2>2
<1>4. CASE TranslationHit
  <2>1. /\ phase = "translation" /\ TranslationRow # Nothing
        /\ merged' = MergeLinguisticTranslation(draft, TranslationRow) /\ phase' = "publish"
        /\ UNCHANGED <<article, runVars>>
    BY <1>4 DEF TranslationHit
  <2> DEFINE saved == cache[TranslationSpec].artifact
  <2>2. TranslationRow = saved /\ ValidateTranslation(Chunk, draft, saved)
    BY <2>1 DEF TranslationRow
  <2> HIDE DEF saved
  <2> QED BY <2>1, <2>2, AuditTranslation
<1>5. ASSUME phase = "translation", NEW a \in Renderings(Chunk, draft), TranslationTurn(a) PROVE AuditInv'
  <2>1. CASE ~ValidateTranslation(Chunk, draft, a)
    BY <1>5, <2>1, AuditFails DEF TranslationTurn, Stage
  <2>2. CASE /\ ValidateTranslation(Chunk, draft, a)
             /\ ~ValidateChunkResponse(Chunk, MergeLinguisticTranslation(draft, a))
    BY <1>5, <2>2, AuditFails DEF TranslationTurn
  <2>3. CASE /\ ValidateTranslation(Chunk, draft, a)
             /\ ValidateChunkResponse(Chunk, MergeLinguisticTranslation(draft, a))
    BY <1>5, <2>3, AuditTranslation DEF TranslationTurn
  <2> QED BY <2>1, <2>2, <2>3
<1>6. CASE MalformedTurn
  BY <1>6, AuditFails DEF MalformedTurn
<1>7. ASSUME NEW why \in {"provider", "storage", "lease_lost"}, StageFails(why) PROVE AuditInv'
  BY <1>7, AuditFails DEF StageFails
<1>8. CASE PublishChunk
  BY <1>8, AuditPublish
<1>9. CASE MergeArticle
  BY <1>9, AuditMerges
<1>10. CASE UNCHANGED compileVars
  <2>1. UNCHANGED <<article, phase, merged, runVars>>
    BY <1>10 DEF compileVars, stageVars
  <2>2. Chunk' = Chunk
    BY <2>1 DEF Chunk, runVars
  <2>3. MergedIsValid'
    BY <2>1, <2>2 DEF AuditInv, MergedIsValid
  <2> QED BY <2>1, <2>3, AuditStays DEF AuditInv
<1> QED BY <1>1, <1>2, <1>3, <1>4, <1>5, <1>6, <1>7, <1>8, <1>9, <1>10 DEF CompileNext

\* At first the run has kept nothing.
LEMMA AuditBegins == CompileInit => AuditInv
<1> SUFFICES ASSUME CompileInit PROVE AuditInv
  OBVIOUS
<1>1. /\ phase = "queued" /\ block = 0 /\ chunks = <<>> /\ prior = {} /\ candidates = {}
  BY DEF CompileInit
<1>2. <<>> \in Seq({}) /\ Len(<<>>) = 0
  OBVIOUS
<1>3. CarriedInto(<<>>, 0) = {}
  BY DEF CarriedInto
<1> QED BY <1>1, <1>2, <1>3 DEF AuditInv, CandidatesAreNamed, MergedIsValid, KeptIsPublished

\* Whatever the providers answer and the cache returns, an analysis and a
\* translation that the two stages accept make an answer that can be published,
\* unless it has one of the named gaps, and the audit of the whole article never
\* refuses what its paragraphs published.
THEOREM AcceptedIsPublished == CompileSpec => []AcceptedAnswersPublish
<1>1. CompileInit => AcceptedInv
  BY DEF CompileInit, AcceptedInv, DraftIsAccepted, MergedPublishes, PriorIsSound
<1>2. CompileInv /\ AcceptedInv /\ AuditInv => AcceptedAnswersPublish
  <2> SUFFICES ASSUME CompileInv, AcceptedInv, AuditInv PROVE AcceptedAnswersPublish
    OBVIOUS
  <2>1. ASSUME phase = "translation", NEW a \in Renderings(Chunk, draft), ValidateTranslation(Chunk, draft, a)
        PROVE  \/ Publishes(MergeLinguisticTranslation(draft, a))
               \/ Gap(MergeLinguisticTranslation(draft, a))
    <3>1. StagesAccept(Chunk, draft, a)
      BY <2>1 DEF StagesAccept, AcceptedInv, DraftIsAccepted
    <3> QED BY <3>1, AcceptedPublishes DEF AcceptedInv
  <2>2. phase # "merge_refused" /\ MergedPublishes
    BY DEF AuditInv, AcceptedInv
  <2> QED BY <2>1, <2>2 DEF AcceptedAnswersPublish, MergedPublishes
<1> QED BY <1>1, <1>2, AcceptedSteps, AuditBegins, AuditSteps, CompileCorrect, PTL DEF CompileSpec
==============================================================================
