-------------------------- MODULE MediaStoreProofs --------------------------
(* Proofs about MediaStore. *)
EXTENDS MediaStore, TLAPS

-----------------------------------------------------------------------------
(* The inductive invariant.                                                *)

Contents == Bytes \cup {"none"}

MediaTypeOK ==
    /\ row \subseteq Digest
    /\ ref \in [Ref -> Digest \cup {None}]
    /\ file \in [Digest -> Contents]
    /\ stale \subseteq Artifact
    /\ lock \in [Digest -> Proc \cup {None}]
    /\ task \in [Proc -> Task \cup {Idle}]
    /\ phase \in {"serving", "temps", "blobs"}
    /\ phase = "temps" => todo \subseteq stale
    /\ phase = "blobs" => todo \subseteq Digest
    /\ faults \in Nat

\* Where the bytes of the digest are while an operation holds its lock, and
\* what became of the row: nobody else moves them.
Stage(t) ==
    LET d == t.digest IN
    /\ t.at \in {"lock", "count", "parity"} => t.temp = "none"
    /\ t.at = "begin" => t.temp = "audio"
    /\ t.at \in {"commit", "discard"} => t.temp \in {"none", "audio"}
    /\ t.at = "commit" => file[d] = "audio"
    /\ t.at = "aside" => t.temp = "empty" /\ file[d] # "none" /\ ~Referenced(d)
    /\ t.at \in {"delete", "commitrow", "verifyrow", "remove", "restore"}
          => file[d] = "none" /\ ~Referenced(d)
    /\ t.at = "remove" => d \notin row

OperationsAreOrdered ==
    \A p \in Proc : task[p] # Idle => /\ task[p].at # "lock" => lock[task[p].digest] = p
                                      /\ Stage(task[p])

\* A reference leads to a row and verified bytes.
ReferencesPlay ==
    \A r \in Ref : ref[r] # None => ref[r] \in row /\ file[ref[r]] = "audio"

\* A cleanup artifact of d with contents in X, in temp/ or in an operation's hands.
Aside(d, X) ==
    \/ \E e \in stale : e.digest = d /\ e.kind = "cleanup" /\ e.bytes \in X
    \/ \E p \in Proc : \E e \in Own(p) : e.digest = d /\ e.kind = "cleanup" /\ e.bytes \in X

\* A row has a file with contents in X, in place or aside.
RowsHave(X) == \A d \in row : file[d] \in X \/ Aside(d, X)

\* With at most one refused operation the placeholder of a cleanup never
\* outlives the operation, except in the crash of a cleanup that had not moved
\* the bytes yet; so recovery cannot take it for the bytes.
PlaceholdersAreHarmless ==
    /\ \A d \in Digest : file[d] \in {"none", "audio"}
    /\ \A p \in Proc : task[p] # Idle /\ task[p].at # "aside" => task[p].temp \in {"none", "audio"}
    /\ \A e \in stale : e.kind = "cleanup" /\ e.bytes # "audio" =>
          phase # "serving" /\ (e.digest \in row => file[e.digest] = "audio")
    /\ RowsHave({"audio"})

\* Recovery runs alone, and without a problem it leaves nothing out.
RecoveryIsThorough ==
    /\ phase # "serving" => \A p \in Proc : task[p] = Idle
    /\ phase = "temps" /\ ~problem => stale \subseteq todo
    /\ phase = "blobs" /\ ~problem =>
          stale = {} /\ \A d \in Digest : file[d] # "none" /\ d \notin row => d \in todo

MediaInv ==
    /\ MediaTypeOK
    /\ OperationsAreOrdered
    /\ ReferencesPlay
    /\ RowsHave(Bytes)
    /\ faults < 2 => PlaceholdersAreHarmless
    /\ RecoveryIsThorough

-----------------------------------------------------------------------------
(* Tasks and their files.                                                  *)

Writing  == {"begin", "commit", "parity", "discard"}
Clearing == {"lock", "count", "aside", "delete", "commitrow", "verifyrow",
             "remove", "restore"}

\* The fields of a task.
LEMMA TaskFields ==
    ASSUME NEW t \in Task
    PROVE  /\ t # Idle /\ t.at # "idle"
           /\ t.digest \in Digest /\ t.temp \in Contents
           /\ \/ t.kind = "write" /\ t.at \in Writing /\ t.ref \in Ref
              \/ t.kind = "cleanup" /\ t.at \in Clearing
<1> DEFINE W == [at : Writing, kind : {"write"}, digest : Digest, ref : Ref, temp : Contents]
           C == [at : Clearing, kind : {"cleanup"}, digest : Digest, temp : Contents]
<1>1. Task = W \cup C
  BY DEF Task, Writing, Clearing, Contents
<1>2. CASE t \in W
  <2>1. t.at # "idle" /\ t.kind = "write" /\ t.at \in Writing
    BY <1>2 DEF Writing
  <2> QED
    BY <1>2, <2>1 DEF Idle
<1>3. CASE t \in C
  <2>1. t.at # "idle" /\ t.kind = "cleanup" /\ t.at \in Clearing
    BY <1>3 DEF Clearing
  <2> QED
    BY <1>3, <2>1 DEF Idle
<1> QED
  BY <1>1, <1>2, <1>3

\* A task that goes on at another statement of its operation.
LEMMA GotoTask ==
    ASSUME MediaTypeOK, NEW p \in Proc, task[p] \in Task,
           NEW temp \in Contents, NEW at,
           IF task[p].kind = "write" THEN at \in Writing ELSE at \in Clearing,
           Goto(p, at, temp)
    PROVE  \E u \in Task : /\ task' = [task EXCEPT ![p] = u]
                           /\ u.at = at /\ u.temp = temp
                           /\ u.digest = task[p].digest /\ u.kind = task[p].kind
                           /\ u.kind = "write" => u.ref = task[p].ref
<1> DEFINE W == [at : Writing, kind : {"write"}, digest : Digest, ref : Ref, temp : Contents]
           C == [at : Clearing, kind : {"cleanup"}, digest : Digest, temp : Contents]
<1>1. Task = W \cup C
  BY DEF Task, Writing, Clearing, Contents
<1>2. PICK u : u = [[task[p] EXCEPT !.at = at] EXCEPT !.temp = temp]
  OBVIOUS
<1>3. task' = [task EXCEPT ![p] = u]
  BY <1>2 DEF Goto, MediaTypeOK
<1>4. CASE task[p] \in W
  <2>1. u \in W
    BY <1>2, <1>4
  <2>2. /\ u.at = at /\ u.temp = temp /\ u.ref = task[p].ref
        /\ u.digest = task[p].digest /\ u.kind = task[p].kind
    BY <1>2, <1>4
  <2> QED
    BY <1>1, <1>3, <2>1, <2>2
<1>5. CASE task[p] \in C
  <2>1. u \in C
    BY <1>2, <1>5
  <2> QED
    BY <1>1, <1>2, <1>3, <1>5, <2>1
<1> QED
  BY <1>1, <1>4, <1>5

\* The file in the hands of a task.
LEMMA OwnFile ==
    ASSUME NEW p \in Proc, task[p] \in Task
    PROVE  \A e : e \in Own(p) <=>
              /\ task[p].temp # "none"
              /\ e = [digest |-> task[p].digest, kind |-> task[p].kind, bytes |-> task[p].temp]
BY TaskFields DEF Own

\* It is a legal artifact, named after the task's digest and kind.
LEMMA OwnArtifact ==
    ASSUME NEW p \in Proc, task[p] \in Task
    PROVE  \A e \in Own(p) : /\ e \in Artifact
                             /\ e.digest = task[p].digest /\ e.kind = task[p].kind
                             /\ e.bytes = task[p].temp /\ e.bytes \in Bytes
BY OwnFile, TaskFields DEF Artifact, Contents

-----------------------------------------------------------------------------
(* One step of an operation.                                               *)

\* What a step of p at digest d leaves alone: other tasks, the files, rows and
\* new references of other digests, the locks of others.
Touches(p, d) ==
    /\ phase = "serving" /\ phase' = "serving"
    /\ \A q \in Proc : q # p => task'[q] = task[q]
    /\ lock[d] \in {p, None}
    /\ \A e \in Digest : lock[e] \notin {p, None} => lock'[e] = lock[e]
    /\ \A e \in Digest : e # d => file'[e] = file[e] /\ (e \in row' <=> e \in row)
    /\ \A r \in Ref : ref'[r] \in {ref[r], d, None}
    /\ stale \subseteq stale'
    /\ faults \in Nat /\ faults' >= faults

\* Aside in the next state, of what is d in this one.
AsideNext(d, X) ==
    \/ \E e \in stale' : e.digest = d /\ e.kind = "cleanup" /\ e.bytes \in X
    \/ \E p \in Proc : \E e \in Own(p)' : e.digest = d /\ e.kind = "cleanup" /\ e.bytes \in X

\* What it has to show for its own task and digest.
Accounts(p, d) ==
    /\ task'[p] # Idle =>
          /\ task'[p].digest = d
          /\ task'[p].at # "lock" => lock'[d] = p
          /\ Stage(task[p])'
    /\ \A r \in Ref : ref'[r] = d => d \in row' /\ file'[d] = "audio"
    /\ d \in row' => file'[d] \in Bytes \/ AsideNext(d, Bytes)
    /\ faults' < 2 => /\ file'[d] \in {"none", "audio"}
                      /\ d \in row' => file'[d] = "audio" \/ AsideNext(d, {"audio"})
                      /\ task'[p] # Idle /\ task'[p].at # "aside"
                            => task'[p].temp \in {"none", "audio"}
                      /\ \A e \in stale' : e \in stale \/ e.kind = "write" \/ e.bytes = "audio"

\* Operations on a digest exclude each other by its lock, so a step that
\* accounts for its own keeps the invariant.
LEMMA OperationKeeps ==
    ASSUME MediaInv, MediaTypeOK', NEW p \in Proc, NEW d \in Digest,
           task[p] = Idle \/ task[p].digest = d,
           Touches(p, d), Accounts(p, d)
    PROVE  MediaInv'
<1>0. /\ MediaTypeOK /\ OperationsAreOrdered /\ ReferencesPlay /\ RowsHave(Bytes)
      /\ faults < 2 => PlaceholdersAreHarmless
  BY DEF MediaInv
<1>1. /\ \A q \in Proc : q # p => task'[q] = task[q] /\ Own(q)' = Own(q)
      /\ \A e \in Digest : e # d => file'[e] = file[e] /\ (e \in row' <=> e \in row)
      /\ \A e \in Digest : e # d => (Referenced(e)' => Referenced(e))
      /\ lock[d] \in {p, None}
      /\ \A e \in Digest : lock[e] \notin {p, None} => lock'[e] = lock[e]
      /\ phase = "serving" /\ phase' = "serving"
  <2>1. ASSUME NEW e \in Digest, e # d, Referenced(e)' PROVE Referenced(e)
    <3>1. PICK r \in Ref : ref'[r] = e
      BY <2>1 DEF Referenced
    <3>2. ref[r] = e
      BY <2>1, <3>1, MediaAssumption DEF Touches
    <3> QED
      BY <3>2 DEF Referenced
  <2>2. \A q \in Proc : q # p => Own(q)' = Own(q)
    BY DEF Touches, Own
  <2> QED
    BY <2>1, <2>2 DEF Touches
<1>2. ASSUME NEW q \in Proc, q # p, task[q] # Idle
      PROVE  /\ task[q] \in Task
             /\ task[q].at # "lock" => /\ task[q].digest # d
                                       /\ lock'[task[q].digest] = q
             /\ Stage(task[q])'
  <2>1. task[q] \in Task /\ task[q].digest \in Digest
    BY <1>0, <1>2, TaskFields DEF MediaTypeOK
  <2>2. /\ task[q].at # "lock" => lock[task[q].digest] = q
        /\ Stage(task[q])
    BY <1>0, <1>2 DEF OperationsAreOrdered
  <2>3. task[q].at # "lock" => task[q].digest # d /\ lock'[task[q].digest] = q
    BY <1>1, <1>2, <2>1, <2>2, MediaAssumption
  <2>4. task'[q] = task[q]
    BY <1>1, <1>2
  <2>5. Stage(task[q])'
    BY <1>1, <2>1, <2>2, <2>3, <2>4 DEF Stage
  <2> QED
    BY <2>1, <2>3, <2>5
<1>3. OperationsAreOrdered'
  <2>1. ASSUME NEW q \in Proc, task'[q] # Idle
        PROVE  (task'[q].at # "lock" => lock'[task'[q].digest] = q) /\ Stage(task[q])'
    <3>1. CASE q = p
      BY <2>1, <3>1 DEF Accounts
    <3>2. CASE q # p
      BY <1>1, <1>2, <2>1, <3>2
    <3> QED
      BY <3>1, <3>2
  <2> QED
    BY <2>1 DEF OperationsAreOrdered
<1>4. ReferencesPlay'
  <2>1. ASSUME NEW r \in Ref, ref'[r] # None PROVE ref'[r] \in row' /\ file'[ref'[r]] = "audio"
    <3>1. CASE ref'[r] = d
      BY <3>1 DEF Accounts
    <3>2. CASE ref'[r] # d
      <4>1. ref'[r] = ref[r] /\ ref[r] \in Digest
        BY <1>0, <2>1, <3>2 DEF Touches, MediaTypeOK
      <4> QED
        BY <1>0, <1>1, <2>1, <3>2, <4>1 DEF ReferencesPlay
    <3> QED
      BY <3>1, <3>2
  <2> QED
    BY <2>1 DEF ReferencesPlay
<1>5. ASSUME NEW X, NEW e \in Digest, e # d, Aside(e, X) PROVE Aside(e, X)'
  <2>1. CASE \E a \in stale : a.digest = e /\ a.kind = "cleanup" /\ a.bytes \in X
    BY <2>1 DEF Aside, Touches
  <2>2. CASE \E q \in Proc : \E a \in Own(q) : a.digest = e /\ a.kind = "cleanup" /\ a.bytes \in X
    <3>0. PICK q \in Proc : \E a \in Own(q) : a.digest = e /\ a.kind = "cleanup" /\ a.bytes \in X
      BY <2>2
    <3>1. PICK a \in Own(q) : a.digest = e /\ a.kind = "cleanup" /\ a.bytes \in X
      BY <3>0
    <3>2. q # p
      <4>1. ASSUME q = p PROVE FALSE
        <5>1. task[p] \in Task /\ task[p].digest = d
          BY <1>0, <3>1, <4>1 DEF MediaTypeOK, Own
        <5> QED
          BY <1>5, <3>1, <4>1, <5>1, OwnArtifact
      <4> QED
        BY <4>1
    <3> QED
      BY <1>1, <3>1, <3>2 DEF Aside
  <2> QED
    BY <1>5, <2>1, <2>2 DEF Aside
<1>6. ASSUME NEW X, RowsHave(X), d \in row' => file'[d] \in X \/ AsideNext(d, X)
      PROVE  RowsHave(X)'
  <2>1. ASSUME NEW e \in row' PROVE file'[e] \in X \/ Aside(e, X)'
    <3>1. e \in Digest
      BY <2>1 DEF MediaTypeOK
    <3>2. AsideNext(d, X) => Aside(d, X)'
      BY DEF Aside, AsideNext
    <3> QED
      BY <1>1, <1>5, <1>6, <2>1, <3>1, <3>2 DEF RowsHave
  <2> QED
    BY <2>1 DEF RowsHave
<1>7. RowsHave(Bytes)'
  BY <1>0, <1>6 DEF Accounts
<1>8. ASSUME faults' < 2 PROVE PlaceholdersAreHarmless'
  <2>1. PlaceholdersAreHarmless
    BY <1>0, <1>8 DEF Touches, MediaTypeOK
  <2>2. \A e \in Digest : file'[e] \in {"none", "audio"}
    BY <1>1, <1>8, <2>1 DEF PlaceholdersAreHarmless, Accounts
  <2>3. \A q \in Proc : task'[q] # Idle /\ task'[q].at # "aside"
                           => task'[q].temp \in {"none", "audio"}
    BY <1>1, <1>8, <2>1 DEF PlaceholdersAreHarmless, Accounts
  <2>4. \A e \in stale' : e.kind = "write" \/ e.bytes = "audio"
    <3>1. \A e \in stale : e.kind = "write" \/ e.bytes = "audio"
      BY <1>0, <1>1, <2>1 DEF PlaceholdersAreHarmless, MediaTypeOK, Artifact
    <3> QED
      BY <1>8, <3>1 DEF Accounts
  <2>5. RowsHave({"audio"})'
    BY <1>6, <1>8, <2>1 DEF PlaceholdersAreHarmless, Accounts
  <2> QED
    BY <2>2, <2>3, <2>4, <2>5 DEF PlaceholdersAreHarmless
<1>9. RecoveryIsThorough'
  BY <1>1 DEF RecoveryIsThorough
<1> QED
  BY <1>3, <1>4, <1>7, <1>8, <1>9 DEF MediaInv

\* A task under way holds the lock of its digest and knows where the bytes are.
LEMMA UnderWay ==
    ASSUME MediaInv, NEW p \in Proc, NEW at, Serving(p, at), at # "idle"
    PROVE  /\ phase = "serving"
           /\ task[p] \in Task /\ task[p] # Idle /\ task[p].at = at
           /\ task[p].digest \in Digest
           /\ at # "lock" => lock[task[p].digest] = p
           /\ Stage(task[p])
           /\ task[p].kind = IF at \in Writing THEN "write" ELSE "cleanup"
           /\ task[p].kind = "write" => task[p].ref \in Ref
           /\ faults < 2 /\ at # "aside" => task[p].temp \in {"none", "audio"}
           /\ faults \in Nat
<1>1. task[p].at = at /\ task[p] # Idle /\ phase = "serving"
  BY DEF Serving, Idle
<1>2. task[p] \in Task /\ faults \in Nat
  BY <1>1 DEF MediaInv, MediaTypeOK
<1> QED
  BY <1>1, <1>2, TaskFields DEF MediaInv, OperationsAreOrdered, PlaceholdersAreHarmless,
     Writing, Clearing

\* What the end of an operation does.
LEMMA EndStep ==
    ASSUME MediaInv, NEW p \in Proc, task[p] \in Task, NEW left,
           left \subseteq Own(p), End(p, left)
    PROVE  /\ task' \in [Proc -> Task \cup {Idle}] /\ lock' \in [Digest -> Proc \cup {None}]
           /\ stale' \subseteq Artifact
           /\ task'[p] = Idle
           /\ \A q \in Proc : q # p => task'[q] = task[q]
           /\ \A e \in Digest : lock[e] \notin {p, None} => lock'[e] = lock[e]
           /\ stale' = stale \cup left
<1>1. left \subseteq Artifact
  BY OwnArtifact
<1> QED
  BY <1>1 DEF End, MediaInv, MediaTypeOK

\* A step that moves no bytes, takes no row and loses no bytes of its task that
\* its row needs, accounts for its digest.
LEMMA QuietAccounts ==
    ASSUME MediaInv, MediaTypeOK', NEW p \in Proc, NEW d \in Digest,
           task[p] = Idle \/ task[p].digest = d,
           Touches(p, d),
           UNCHANGED <<row, file>>,
           \A r \in Ref : ref'[r] \in {ref[r], None},
           task'[p] # Idle => /\ task'[p].digest = d
                              /\ task'[p].at # "lock" => lock'[d] = p
                              /\ Stage(task[p])',
           \A e \in Own(p) : \/ e.kind = "write" \/ e \in stale' \/ e \in Own(p)' \/ d \notin row
                             \/ e.bytes # "audio" /\ file[d] # "none",
           faults' < 2 => /\ task'[p] # Idle /\ task'[p].at # "aside"
                                => task'[p].temp \in {"none", "audio"}
                          /\ \A e \in stale' : e \in stale \/ e.kind = "write" \/ e.bytes = "audio"
    PROVE  Accounts(p, d)
<1>0. /\ MediaTypeOK /\ ReferencesPlay /\ RowsHave(Bytes)
      /\ faults < 2 => PlaceholdersAreHarmless
  BY DEF MediaInv
<1>1. \A r \in Ref : ref'[r] = d => d \in row' /\ file'[d] = "audio"
  BY <1>0, MediaAssumption DEF ReferencesPlay
<1>2. ASSUME NEW X, d \in row, Aside(d, X)
      PROVE  Aside(d, X)' \/ (file[d] # "none" /\ X # {"audio"})
  <2>1. CASE \E e \in stale : e.digest = d /\ e.kind = "cleanup" /\ e.bytes \in X
    BY <2>1 DEF Aside, Touches
  <2>2. ASSUME NEW q \in Proc, NEW e \in Own(q),
               e.digest = d, e.kind = "cleanup", e.bytes \in X
        PROVE  Aside(d, X)' \/ (file[d] # "none" /\ X # {"audio"})
    <3>1. CASE q # p
      <4>1. e \in Own(q)'
        BY <2>2, <3>1 DEF Own, Touches
      <4> QED
        BY <2>2, <4>1 DEF Aside
    <3>2. CASE q = p
      BY <1>2, <2>2, <3>2 DEF Aside
    <3> QED
      BY <3>1, <3>2
  <2> QED
    BY <1>2, <2>1, <2>2 DEF Aside
<1>3. d \in row' => file'[d] \in Bytes \/ Aside(d, Bytes)'
  BY <1>0, <1>2 DEF RowsHave, MediaTypeOK, Contents
<1>4. ASSUME faults' < 2
      PROVE  /\ file'[d] \in {"none", "audio"}
             /\ d \in row' => file'[d] = "audio" \/ Aside(d, {"audio"})'
  <2>1. PlaceholdersAreHarmless
    BY <1>0, <1>4 DEF Touches, MediaTypeOK
  <2>2. file'[d] \in {"none", "audio"} /\ RowsHave({"audio"})
    BY <2>1 DEF PlaceholdersAreHarmless
  <2>3. d \in row => file[d] = "audio" \/ Aside(d, {"audio"})
    BY <2>2 DEF RowsHave
  <2> QED
    BY <1>2, <2>2, <2>3
<1>5. \A X : Aside(d, X)' <=> AsideNext(d, X)
  BY DEF Aside, AsideNext
<1> QED
  BY <1>1, <1>3, <1>4, <1>5 DEF Accounts

-----------------------------------------------------------------------------
(* Uploads.                                                                *)

\* A new upload under a free lock, or a refused one and its litter.
LEMMA PrepareKeeps ==
    ASSUME MediaInv, NEW p \in Proc, NEW r \in Ref, NEW d \in Digest, PrepareWrite(p, r, d)
    PROVE  MediaInv'
<1>0. MediaTypeOK /\ phase = "serving" /\ UNCHANGED <<row, ref, file, conn, recovery>>
  BY DEF PrepareWrite, Serving, MediaInv
<1>1. task[p] = Idle /\ Own(p) = {} /\ lock[d] = None
  BY <1>0, TaskFields DEF PrepareWrite, Serving, MediaTypeOK, Own
<1>2. CASE UNCHANGED <<lock, task>> /\ (Fault(1) \/ Fault(2)) /\
           (\/ UNCHANGED stale
            \/ stale' = stale \cup {[digest |-> d, kind |-> "write", bytes |-> "damaged"]})
  <2>1. MediaTypeOK'
    BY <1>0, <1>2 DEF MediaTypeOK, Fault, recovery, Artifact, Bytes
  <2>2. Touches(p, d)
    BY <1>0, <1>1, <1>2 DEF MediaTypeOK, Fault, recovery, Touches
  <2>3. Accounts(p, d)
    BY <1>0, <1>1, <1>2, <2>1, <2>2, QuietAccounts
  <2> QED
    BY <1>1, <2>1, <2>2, <2>3, OperationKeeps
<1>3. CASE /\ NoFault /\ UNCHANGED stale
           /\ task' = [task EXCEPT ![p] = [at |-> "begin", kind |-> "write",
                                           digest |-> d, ref |-> r, temp |-> "audio"]]
           /\ lock' = [lock EXCEPT ![d] = p]
  <2> DEFINE t == [at |-> "begin", kind |-> "write", digest |-> d, ref |-> r, temp |-> "audio"]
  <2>1. t \in Task /\ t.at = "begin" /\ t.temp = "audio" /\ t.digest = d
    BY DEF Task, Bytes
  <2>2. task' = [task EXCEPT ![p] = t]
    BY <1>3
  <2> HIDE DEF t
  <2>3. MediaTypeOK'
    BY <1>0, <1>3, <2>1, <2>2 DEF MediaTypeOK, NoFault, recovery
  <2>4. Touches(p, d)
    BY <1>0, <1>1, <1>3, <2>2 DEF MediaTypeOK, NoFault, recovery, Touches
  <2>5. task'[p] = t /\ lock'[d] = p
    BY <1>0, <1>3, <2>2 DEF MediaTypeOK
  <2>6. Stage(task[p])'
    BY <2>1, <2>5 DEF Stage
  <2>7. Accounts(p, d)
    BY <1>0, <1>1, <1>3, <2>1, <2>3, <2>4, <2>5, <2>6, QuietAccounts
  <2> QED
    BY <1>1, <2>3, <2>4, <2>7, OperationKeeps
<1> QED
  BY <1>2, <1>3 DEF PrepareWrite

\* An operation that ends and takes its file along, or leaves it in temp/.
LEMMA EndKeeps ==
    ASSUME MediaInv, NEW p \in Proc, NEW at, Serving(p, at), at \notin {"idle", "lock"},
           NEW left, left = {} \/ left = Own(p), End(p, left),
           UNCHANGED <<row, file, phase, todo, problem>>,
           \A r \in Ref : ref'[r] = ref[r], ref' \in [Ref -> Digest \cup {None}],
           faults' \in Nat, faults' >= faults,
           at = "aside" => left = {} \/ faults' >= 2,
           at \in {"delete", "commitrow", "verifyrow", "restore"} =>
              left = Own(p) \/ task[p].temp = "none"
    PROVE  MediaInv'
<1> DEFINE d == task[p].digest
<1>1. /\ phase = "serving" /\ task[p] \in Task /\ task[p].at = at
      /\ d \in Digest /\ lock[d] = p /\ Stage(task[p])
      /\ task[p].kind = IF at \in Writing THEN "write" ELSE "cleanup"
      /\ faults < 2 /\ at # "aside" => task[p].temp \in {"none", "audio"}
      /\ faults \in Nat
  BY UnderWay
<1>2. /\ task' \in [Proc -> Task \cup {Idle}] /\ lock' \in [Digest -> Proc \cup {None}]
      /\ stale' \subseteq Artifact
      /\ task'[p] = Idle
      /\ \A q \in Proc : q # p => task'[q] = task[q]
      /\ \A e \in Digest : lock[e] \notin {p, None} => lock'[e] = lock[e]
      /\ stale' = stale \cup left
  BY <1>1, EndStep
<1>3. MediaTypeOK'
  BY <1>2 DEF MediaInv, MediaTypeOK
<1>4. Touches(p, d)
  BY <1>1, <1>2 DEF Touches
<1>5. \A e \in Own(p) : /\ e.kind = task[p].kind /\ e.bytes = task[p].temp
                        /\ task[p].temp # "none"
  BY <1>1, OwnArtifact, OwnFile
<1>6. \A e \in Own(p) : \/ e.kind = "write" \/ e \in stale' \/ d \notin row
                        \/ e.bytes # "audio" /\ file[d] # "none"
  <2>1. CASE at \in Writing
    BY <1>1, <1>5, <2>1
  <2>2. CASE at \in {"count", "aside", "remove"}
    BY <1>1, <1>5, <2>2 DEF Stage
  <2>3. CASE at \in {"delete", "commitrow", "verifyrow", "restore"}
    BY <1>2, <1>5, <2>3
  <2> QED
    BY <1>1, <2>1, <2>2, <2>3, TaskFields DEF Clearing
<1>7. ASSUME faults' < 2
      PROVE  \A e \in stale' : e \in stale \/ e.kind = "write" \/ e.bytes = "audio"
  <2>1. ~(faults' >= 2)
    BY <1>7
  <2>2. faults < 2
    BY <1>1, <1>7
  <2>3. \A e \in stale' : e \in stale \/ (e \in left /\ e \in Own(p))
    BY <1>2
  <2>4. ASSUME NEW e \in Own(p), e \in left PROVE e.bytes = "audio"
    <3>1. at # "aside"
      BY <2>1, <2>4
    <3> QED
      BY <1>1, <1>5, <2>2, <3>1
  <2> QED
    BY <2>3, <2>4
<1>8. Accounts(p, d)
  BY <1>1, <1>2, <1>3, <1>4, <1>6, <1>7, QuietAccounts
<1> QED
  BY <1>1, <1>3, <1>4, <1>8, OperationKeeps

\* Dropping a file, unless it is a cleanup that still needs it.
LEMMA DropKeeps ==
    ASSUME MediaInv, NEW p \in Proc, NEW at, Serving(p, at),
           at \in {"begin", "commit", "discard", "remove"},
           Drop(p), UNCHANGED <<row, ref, file, recovery>>
    PROVE  MediaInv'
<1>1. ref' \in [Ref -> Digest \cup {None}] /\ faults \in Nat
  BY DEF MediaInv, MediaTypeOK
<1>2. UNCHANGED <<phase, todo, problem>>
  BY DEF recovery
<1>3. PICK left : (left = {} \/ left = Own(p)) /\ End(p, left) /\ faults' \in Nat /\ faults' >= faults
  BY <1>1 DEF Drop, NoFault, Fault
<1> QED
  BY <1>1, <1>2, <1>3, EndKeeps

\* The next statement of an operation, which moves no bytes.
LEMMA GotoKeeps ==
    ASSUME MediaInv, NEW p \in Proc, NEW at, Serving(p, at), at # "idle",
           NEW next, IF at \in Writing THEN next \in Writing ELSE next \in Clearing,
           next # "lock",
           Goto(p, next, task[p].temp),
           UNCHANGED <<row, ref, file, stale, phase, todo, problem>>,
           lock' \in [Digest -> Proc \cup {None}],
           lock[task[p].digest] \in {p, None}, lock'[task[p].digest] = p,
           \A e \in Digest : lock[e] \notin {p, None} => lock'[e] = lock[e],
           faults' \in Nat, faults' >= faults,
           next = "aside" <=> at = "aside",
           \A t \in Task : /\ Stage(task[p])
                           /\ t.at = next /\ t.temp = task[p].temp /\ t.digest = task[p].digest
                           => Stage(t)
    PROVE  MediaInv'
<1> DEFINE d == task[p].digest
<1>1. /\ phase = "serving" /\ task[p] \in Task /\ task[p].at = at
      /\ d \in Digest /\ Stage(task[p]) /\ task[p].temp \in Contents
      /\ task[p].kind = IF at \in Writing THEN "write" ELSE "cleanup"
      /\ faults < 2 /\ at # "aside" => task[p].temp \in {"none", "audio"}
      /\ faults \in Nat
  BY UnderWay, TaskFields
<1>2. MediaTypeOK
  BY DEF MediaInv
<1>3. PICK u \in Task : /\ task' = [task EXCEPT ![p] = u]
                        /\ u.at = next /\ u.temp = task[p].temp
                        /\ u.digest = d /\ u.kind = task[p].kind
  BY <1>1, <1>2, GotoTask
<1>4. task'[p] = u
  BY <1>2, <1>3 DEF MediaTypeOK
<1>5. MediaTypeOK'
  BY <1>2, <1>3 DEF MediaTypeOK
<1>6. Touches(p, d)
  BY <1>1, <1>2, <1>3 DEF Touches, MediaTypeOK
<1>7. Stage(task[p])'
  <2>1. Stage(u)
    BY <1>1, <1>3
  <2> QED
    BY <1>4, <2>1 DEF Stage, Referenced
<1>8. Own(p)' = Own(p)
  <2>1. u # Idle /\ task[p] # Idle
    BY <1>1, TaskFields
  <2> QED
    BY <1>3, <1>4, <2>1 DEF Own
<1>9. faults' < 2 => (u.at # "aside" => u.temp \in {"none", "audio"})
  BY <1>1, <1>3
<1>10. Accounts(p, d)
  BY <1>1, <1>3, <1>4, <1>5, <1>6, <1>7, <1>8, <1>9, QuietAccounts
<1> QED
  BY <1>1, <1>5, <1>6, <1>10, OperationKeeps

\* A step of an operation under its lock that moves bytes, or changes the row
\* or a reference of its digest, and goes on at another statement.
LEMMA GotoFrame ==
    ASSUME MediaInv, NEW p \in Proc, NEW at, Serving(p, at), at \notin {"idle", "lock"},
           NEW next, IF at \in Writing THEN next \in Writing ELSE next \in Clearing,
           NEW temp \in Contents,
           Goto(p, next, temp),
           UNCHANGED <<stale, lock, phase, todo, problem>>,
           row' \subseteq Digest, ref' \in [Ref -> Digest \cup {None}],
           file' \in [Digest -> Contents],
           \A e \in Digest : e # task[p].digest => file'[e] = file[e] /\ (e \in row' <=> e \in row),
           \A r \in Ref : ref'[r] \in {ref[r], task[p].digest},
           faults' \in Nat, faults' >= faults
    PROVE  /\ MediaTypeOK' /\ Touches(p, task[p].digest)
           /\ task'[p].at = next /\ task'[p].temp = temp
           /\ task'[p].digest = task[p].digest /\ task'[p].kind = task[p].kind
           /\ lock'[task[p].digest] = p
           /\ task'[p] \in Task
<1>1. /\ phase = "serving" /\ task[p] \in Task
      /\ task[p].digest \in Digest /\ lock[task[p].digest] = p
      /\ task[p].kind = IF at \in Writing THEN "write" ELSE "cleanup"
      /\ faults \in Nat
  BY UnderWay
<1>2. MediaTypeOK
  BY DEF MediaInv
<1>3. PICK u \in Task : /\ task' = [task EXCEPT ![p] = u]
                        /\ u.at = next /\ u.temp = temp
                        /\ u.digest = task[p].digest /\ u.kind = task[p].kind
  BY <1>1, <1>2, GotoTask
<1>4. task'[p] = u /\ lock'[task[p].digest] = p
  BY <1>1, <1>2, <1>3 DEF MediaTypeOK
<1>5. MediaTypeOK'
  BY <1>2, <1>3 DEF MediaTypeOK
<1>6. Touches(p, task[p].digest)
  BY <1>1, <1>2, <1>3 DEF Touches, MediaTypeOK
<1> QED
  BY <1>3, <1>4, <1>5, <1>6

\* The bytes are published, or were there already; a refusal ends the upload.
LEMMA CommitPreparedKeeps ==
    ASSUME MediaInv, NEW p \in Proc, CommitPrepared(p)
    PROVE  MediaInv'
<1> DEFINE d == task[p].digest
<1>1. /\ Serving(p, "begin") /\ UNCHANGED <<row, ref, phase, todo, problem>>
  BY DEF CommitPrepared, recovery
<1>2. /\ task[p] \in Task /\ d \in Digest /\ task[p].at = "begin" /\ task[p].temp = "audio"
      /\ faults \in Nat /\ lock[d] = p
  BY <1>1, UnderWay DEF Stage
<1>3. /\ MediaTypeOK /\ ReferencesPlay
      /\ ref' \in [Ref -> Digest \cup {None}] /\ row' \subseteq Digest
  BY <1>1 DEF MediaInv, MediaTypeOK
<1>4. CASE Drop(p) /\ UNCHANGED file
  BY <1>1, <1>4, DropKeeps DEF CommitPrepared
<1>5. CASE NoFault /\ file[d] = "audio" /\ Goto(p, "commit", task[p].temp)
           /\ UNCHANGED <<file, lock, stale>>
  <2>1. \A t \in Task : t.at = "commit" /\ t.temp = task[p].temp /\ t.digest = d => Stage(t)
    BY <1>2, <1>5 DEF Stage
  <2>2. lock' \in [Digest -> Proc \cup {None}]
    BY <1>3, <1>5 DEF MediaTypeOK
  <2> QED
    BY <1>1, <1>2, <1>5, <2>1, <2>2, GotoKeeps DEF NoFault, Writing
<1>6. CASE NoFault /\ file[d] = "none" /\ Goto(p, "commit", "none")
           /\ file' = [file EXCEPT ![d] = task[p].temp] /\ UNCHANGED <<lock, stale>>
  <2>1. /\ file' \in [Digest -> Contents] /\ file'[d] = "audio"
        /\ \A e \in Digest : e # d => file'[e] = file[e]
    BY <1>2, <1>3, <1>6 DEF MediaTypeOK, Contents, Bytes
  <2>2. "none" \in Contents /\ "commit" \in Writing /\ "begin" \in Writing /\ faults' = faults
    BY <1>6 DEF Contents, Writing, NoFault
  <2>3. /\ MediaTypeOK' /\ Touches(p, d)
        /\ task'[p].at = "commit" /\ task'[p].temp = "none"
        /\ task'[p].digest = d /\ lock'[d] = p
    BY <1>1, <1>2, <1>3, <1>6, <2>1, <2>2, GotoFrame
  <2>4. Stage(task[p])'
    BY <2>1, <2>3 DEF Stage
  <2>5. \A r \in Ref : ref'[r] = d => d \in row'
    BY <1>1, <1>2, <1>3, MediaAssumption DEF ReferencesPlay
  <2>6. Accounts(p, d)
    BY <1>6, <2>1, <2>3, <2>4, <2>5 DEF Accounts, Bytes
  <2> QED
    BY <1>2, <2>3, <2>6, OperationKeeps
<1>7. CASE UNCHANGED file /\ \/ Fault(1) /\ End(p, {})
                             \/ Fault(2) /\ End(p, Own(p))
  <2>1. faults' \in Nat /\ faults' >= faults
    BY <1>2, <1>7 DEF Fault
  <2> QED
    BY <1>1, <1>3, <1>7, <2>1, EndKeeps
<1> QED
  BY <1>4, <1>5, <1>6, <1>7 DEF CommitPrepared

\* Row and reference appear after the bytes did, or not at all.
LEMMA CommitTransactionKeeps ==
    ASSUME MediaInv, NEW p \in Proc, CommitTransaction(p)
    PROVE  MediaInv'
<1> DEFINE d == task[p].digest
<1>1. /\ Serving(p, "commit") /\ UNCHANGED <<file, phase, todo, problem, recovery>>
  BY DEF CommitTransaction, recovery
<1>2. /\ task[p] \in Task /\ d \in Digest /\ task[p].at = "commit"
      /\ task[p].temp \in {"none", "audio"} /\ file[d] = "audio"
      /\ faults \in Nat /\ lock[d] = p /\ task[p].ref \in Ref
  BY <1>1, UnderWay DEF Stage, Writing
<1>3. /\ MediaTypeOK /\ file' \in [Digest -> Contents]
      /\ lock \in [Digest -> Proc \cup {None}]
  BY <1>1 DEF MediaInv, MediaTypeOK
<1>4. CASE Drop(p) /\ UNCHANGED <<row, ref>>
  BY <1>1, <1>4, DropKeeps
<1>5. ASSUME NEW next \in {"discard", "parity"}, next = "parity" => task[p].temp = "none",
             Goto(p, next, task[p].temp), UNCHANGED <<lock, stale>>,
             Publish(p) \/ UNCHANGED <<row, ref>>,
             faults' \in Nat, faults' >= faults
      PROVE  MediaInv'
  <2>1. CASE UNCHANGED <<row, ref>>
    <3>1. \A t \in Task : t.at = next /\ t.temp = task[p].temp /\ t.digest = d => Stage(t)
      BY <1>2, <1>5 DEF Stage
    <3> QED
      BY <1>1, <1>2, <1>3, <1>5, <2>1, <3>1, GotoKeeps DEF Writing
  <2>2. CASE Publish(p)
    <3>1. /\ row' = row \cup {d} /\ row' \subseteq Digest
          /\ ref' \in [Ref -> Digest \cup {None}]
          /\ \A r \in Ref : ref'[r] \in {ref[r], d}
          /\ \A e \in Digest : e # d => (e \in row' <=> e \in row)
      BY <1>2, <1>3, <2>2 DEF Publish, MediaTypeOK
    <3>2. next \in Writing /\ "commit" \in Writing /\ task[p].temp \in Contents
      BY <1>2 DEF Writing, Contents, Bytes
    <3>3. /\ MediaTypeOK' /\ Touches(p, d)
          /\ task'[p].at = next /\ task'[p].temp = task[p].temp
          /\ task'[p].digest = d /\ lock'[d] = p
      BY <1>1, <1>2, <1>3, <1>5, <3>1, <3>2, GotoFrame
    <3>4. Stage(task[p])'
      BY <1>2, <1>5, <3>3 DEF Stage
    <3>5. Accounts(p, d)
      BY <1>1, <1>2, <1>5, <3>1, <3>3, <3>4 DEF Accounts, Bytes
    <3> QED
      BY <1>2, <3>3, <3>5, OperationKeeps
  <2> QED
    BY <1>5, <2>1, <2>2
<1>6. CASE /\ NoFault /\ Publish(p) /\ Goto(p, "discard", task[p].temp) /\ UNCHANGED <<lock, stale>>
  BY <1>2, <1>5, <1>6 DEF NoFault
<1>7. CASE /\ Fault(1) /\ (Publish(p) \/ UNCHANGED <<row, ref>>)
           /\ Goto(p, IF task[p].temp = "none" THEN "parity" ELSE "discard", task[p].temp)
           /\ UNCHANGED <<lock, stale>>
  <2>1. faults' \in Nat /\ faults' >= faults
    BY <1>2, <1>7 DEF Fault
  <2> QED
    BY <1>5, <1>7, <2>1
<1> QED
  BY <1>4, <1>6, <1>7 DEF CommitTransaction

\* Taking the published bytes back: no row, hence no reference, needs them.
LEMMA RestoreAfterCommitFailureKeeps ==
    ASSUME MediaInv, NEW p \in Proc, RestoreAfterCommitFailure(p)
    PROVE  MediaInv'
<1> DEFINE d == task[p].digest
<1>1. /\ Serving(p, "parity") /\ UNCHANGED <<row, ref, phase, todo, problem>> /\ End(p, {})
  BY DEF RestoreAfterCommitFailure, recovery
<1>2. /\ task[p] \in Task /\ d \in Digest /\ faults \in Nat /\ lock[d] = p /\ phase = "serving"
  BY <1>1, UnderWay
<1>3. MediaTypeOK /\ ReferencesPlay /\ ref' \in [Ref -> Digest \cup {None}]
  BY <1>1 DEF MediaInv, MediaTypeOK
<1>4. CASE UNCHANGED file /\ (NoFault \/ Fault(1))
  <2>1. faults' \in Nat /\ faults' >= faults
    BY <1>2, <1>4 DEF Fault, NoFault
  <2> QED
    BY <1>1, <1>3, <1>4, <2>1, EndKeeps
<1>5. CASE d \notin row /\ NoFault /\ file' = [file EXCEPT ![d] = "none"]
  <2>1. /\ task' \in [Proc -> Task \cup {Idle}] /\ lock' \in [Digest -> Proc \cup {None}]
        /\ task'[p] = Idle /\ stale' = stale
        /\ \A q \in Proc : q # p => task'[q] = task[q]
        /\ \A e \in Digest : lock[e] \notin {p, None} => lock'[e] = lock[e]
    BY <1>1, <1>2, EndStep
  <2>2. /\ file' \in [Digest -> Contents] /\ file'[d] = "none"
        /\ \A e \in Digest : e # d => file'[e] = file[e]
    BY <1>2, <1>3, <1>5 DEF MediaTypeOK, Contents
  <2>3. MediaTypeOK'
    BY <1>1, <1>3, <1>5, <2>1, <2>2 DEF MediaTypeOK, NoFault
  <2>4. Touches(p, d)
    BY <1>1, <1>2, <1>5, <2>1, <2>2 DEF Touches, NoFault
  <2>5. Accounts(p, d)
    BY <1>1, <1>2, <1>3, <1>5, <2>1, <2>2, MediaAssumption DEF Accounts, ReferencesPlay
  <2> QED
    BY <1>2, <2>3, <2>4, <2>5, OperationKeeps
<1> QED
  BY <1>4, <1>5 DEF RestoreAfterCommitFailure

-----------------------------------------------------------------------------
(* Clearing.                                                               *)

\* A reference less makes no digest referenced.
LEMMA ClearReferenceKeeps ==
    ASSUME MediaInv, NEW p \in Proc, NEW r \in Ref, ClearReference(p, r)
    PROVE  MediaInv'
<1> DEFINE t == [at |-> "lock", kind |-> "cleanup", digest |-> ref[r], temp |-> "none"]
<1>1. /\ MediaTypeOK /\ OperationsAreOrdered /\ ReferencesPlay /\ RowsHave(Bytes)
      /\ faults < 2 => PlaceholdersAreHarmless
  BY DEF MediaInv
<1>2. /\ Serving(p, "idle") /\ ref[r] \in Digest
      /\ ref' = [ref EXCEPT ![r] = None] /\ task' = [task EXCEPT ![p] = t]
      /\ UNCHANGED <<row, file, stale, lock, phase, todo, problem, faults>>
  BY <1>1 DEF ClearReference, MediaTypeOK, recovery
<1>3. t \in Task /\ t # Idle /\ t.temp = "none" /\ t.at = "lock"
  BY <1>2, TaskFields DEF Task
<1>4. task[p] = Idle
  BY <1>1, <1>2, TaskFields DEF Serving, MediaTypeOK
<1> HIDE DEF t
<1>5. MediaTypeOK'
  BY <1>1, <1>2, <1>3 DEF MediaTypeOK
<1>6. task'[p] = t /\ \A q \in Proc : q # p => task'[q] = task[q]
  BY <1>1, <1>2 DEF MediaTypeOK
<1>7. \A q \in Ref : ref'[q] \in {ref[q], None}
  BY <1>1, <1>2 DEF MediaTypeOK
<1>8. \A e \in Digest : Referenced(e)' => Referenced(e)
  BY <1>7, MediaAssumption DEF Referenced
<1>9. \A q \in Proc : Own(q)' = Own(q)
  BY <1>3, <1>4, <1>6 DEF Own
<1>10. OperationsAreOrdered'
  <2>1. ASSUME NEW q \in Proc, task'[q] # Idle
        PROVE  (task'[q].at # "lock" => lock'[task'[q].digest] = q) /\ Stage(task[q])'
    <3>1. CASE q = p
      BY <1>3, <1>6, <3>1 DEF Stage
    <3>2. CASE q # p
      <4>1. task'[q] = task[q] /\ task[q].digest \in Digest
        BY <1>1, <1>6, <2>1, <3>2, TaskFields DEF MediaTypeOK
      <4>2. (task[q].at # "lock" => lock[task[q].digest] = q) /\ Stage(task[q])
        BY <1>1, <2>1, <4>1 DEF OperationsAreOrdered
      <4> QED
        BY <1>2, <1>8, <4>1, <4>2 DEF Stage
    <3> QED
      BY <3>1, <3>2
  <2> QED
    BY <2>1 DEF OperationsAreOrdered
<1>11. ReferencesPlay'
  BY <1>1, <1>2, <1>7 DEF ReferencesPlay
<1>12. ASSUME NEW X, RowsHave(X) PROVE RowsHave(X)'
  BY <1>2, <1>9, <1>12 DEF RowsHave, Aside
<1>13. faults' < 2 => PlaceholdersAreHarmless'
  BY <1>1, <1>2, <1>3, <1>6, <1>12 DEF PlaceholdersAreHarmless
<1>14. RecoveryIsThorough'
  BY <1>2 DEF RecoveryIsThorough, Serving
<1> QED
  BY <1>1, <1>5, <1>10, <1>11, <1>12, <1>13, <1>14 DEF MediaInv

\* The lock is taken before the first look at the references.
LEMMA LockOrphanKeeps ==
    ASSUME MediaInv, NEW p \in Proc, LockOrphan(p)
    PROVE  MediaInv'
<1> DEFINE d == task[p].digest
<1>1. /\ Serving(p, "lock") /\ lock[d] = None /\ lock' = [lock EXCEPT ![d] = p]
      /\ UNCHANGED <<row, ref, file, stale, phase, todo, problem, faults>>
  BY DEF LockOrphan, disk, recovery
<1>2. /\ task[p] \in Task /\ d \in Digest /\ faults \in Nat /\ task[p].temp = "none"
      /\ lock \in [Digest -> Proc \cup {None}]
  BY <1>1, UnderWay DEF Stage, MediaInv, MediaTypeOK
<1>3. Goto(p, "count", task[p].temp)
  BY <1>2 DEF LockOrphan
<1>4. \A t \in Task : t.at = "count" /\ t.temp = task[p].temp => Stage(t)
  BY <1>2 DEF Stage
<1>5. /\ lock' \in [Digest -> Proc \cup {None}] /\ lock'[d] = p
      /\ \A e \in Digest : lock[e] \notin {p, None} => lock'[e] = lock[e]
  BY <1>1, <1>2
<1> QED
  BY <1>1, <1>2, <1>3, <1>4, <1>5, GotoKeeps DEF Clearing, Writing

\* The count and the placeholder: the bytes are where they were.
LEMMA CountReferencesKeeps ==
    ASSUME MediaInv, NEW p \in Proc, CountReferences(p)
    PROVE  MediaInv'
<1> DEFINE d == task[p].digest
<1>1. /\ Serving(p, "count") /\ UNCHANGED <<row, ref, file, phase, todo, problem>>
  BY DEF CountReferences, recovery
<1>2. /\ task[p] \in Task /\ d \in Digest /\ faults \in Nat /\ task[p].temp = "none"
      /\ task[p].at = "count" /\ lock[d] = p
  BY <1>1, UnderWay DEF Stage
<1>3. /\ MediaTypeOK /\ ref' \in [Ref -> Digest \cup {None}]
      /\ row' \subseteq Digest /\ file' \in [Digest -> Contents]
      /\ lock \in [Digest -> Proc \cup {None}]
  BY <1>1 DEF MediaInv, MediaTypeOK
<1>4. CASE End(p, {}) /\ (NoFault \/ Fault(1))
  <2>1. faults' \in Nat /\ faults' >= faults
    BY <1>2, <1>4 DEF Fault, NoFault
  <2> QED
    BY <1>1, <1>3, <1>4, <2>1, EndKeeps
<1>5. CASE /\ ~Referenced(d) /\ NoFault /\ UNCHANGED <<lock, stale>>
           /\ file[d] = "none" /\ Goto(p, "delete", "none")
  <2>1. \A t \in Task : t.at = "delete" /\ t.temp = task[p].temp /\ t.digest = d => Stage(t)
    BY <1>5 DEF Stage
  <2> QED
    BY <1>1, <1>2, <1>3, <1>5, <2>1, GotoKeeps DEF Clearing, Writing, NoFault
<1>6. CASE /\ ~Referenced(d) /\ NoFault /\ UNCHANGED <<lock, stale>>
           /\ file[d] # "none" /\ Goto(p, "aside", "empty")
  <2>1. /\ "empty" \in Contents /\ "aside" \in Clearing /\ "count" \notin Writing
        /\ faults' = faults
    BY <1>6 DEF Contents, Bytes, Clearing, Writing, NoFault
  <2>2. /\ MediaTypeOK' /\ Touches(p, d)
        /\ task'[p].at = "aside" /\ task'[p].temp = "empty"
        /\ task'[p].digest = d /\ lock'[d] = p
    BY <1>1, <1>2, <1>3, <1>6, <2>1, GotoFrame
  <2>3. Stage(task[p])'
    BY <1>1, <1>6, <2>2 DEF Stage, Referenced
  <2>4. Own(p) = {}
    BY <1>2 DEF Own
  <2>5. Accounts(p, d)
    BY <1>1, <1>2, <1>6, <2>2, <2>3, <2>4, QuietAccounts
  <2> QED
    BY <1>2, <2>2, <2>5, OperationKeeps
<1> QED
  BY <1>4, <1>5, <1>6 DEF CountReferences

\* The bytes go from their place into the hands of the cleanup.
LEMMA MoveAsideKeeps ==
    ASSUME MediaInv, NEW p \in Proc, MoveAside(p)
    PROVE  MediaInv'
<1> DEFINE d == task[p].digest
<1>1. /\ Serving(p, "aside") /\ UNCHANGED <<row, ref, phase, todo, problem>>
  BY DEF MoveAside, recovery
<1>2. /\ task[p] \in Task /\ d \in Digest /\ faults \in Nat
      /\ task[p].at = "aside" /\ lock[d] = p /\ task[p].kind = "cleanup"
      /\ file[d] # "none" /\ ~Referenced(d)
  BY <1>1, UnderWay DEF Stage, Writing
<1>3. /\ MediaTypeOK /\ ref' \in [Ref -> Digest \cup {None}] /\ row' \subseteq Digest
      /\ file[d] \in Bytes /\ file[d] \in Contents
      /\ faults < 2 => PlaceholdersAreHarmless
  BY <1>1, <1>2 DEF MediaInv, MediaTypeOK, Contents
<1>4. CASE NoFault /\ file' = [file EXCEPT ![d] = "none"]
           /\ Goto(p, "delete", file[d]) /\ UNCHANGED <<lock, stale>>
  <2>1. /\ file' \in [Digest -> Contents] /\ file'[d] = "none"
        /\ \A e \in Digest : e # d => file'[e] = file[e]
    BY <1>2, <1>3, <1>4 DEF MediaTypeOK, Contents
  <2>2. /\ "delete" \in Clearing /\ "aside" \notin Writing /\ faults' = faults
    BY <1>4 DEF Clearing, Writing, NoFault
  <2>3. /\ MediaTypeOK' /\ Touches(p, d)
        /\ task'[p].at = "delete" /\ task'[p].temp = file[d]
        /\ task'[p].digest = d /\ task'[p].kind = "cleanup" /\ lock'[d] = p
        /\ task'[p] \in Task
    BY <1>1, <1>2, <1>3, <1>4, <2>1, <2>2, GotoFrame
  <2>4. Stage(task[p])'
    BY <1>1, <1>2, <2>1, <2>3 DEF Stage, Referenced
  <2>5. [digest |-> d, kind |-> "cleanup", bytes |-> file[d]] \in Own(p)'
    <3>1. task'[p] # Idle
      BY <2>3, TaskFields
    <3> QED
      BY <1>2, <2>3, <3>1 DEF Own
  <2>6. ASSUME NEW X, file[d] \in X PROVE AsideNext(d, X)
    <3> DEFINE own == [digest |-> d, kind |-> "cleanup", bytes |-> file[d]]
    <3>1. own.digest = d /\ own.kind = "cleanup" /\ own.bytes \in X
      BY <2>6
    <3>2. own \in Own(p)'
      BY <2>5
    <3> HIDE DEF own
    <3> QED
      BY <3>1, <3>2 DEF AsideNext
  <2>7. faults' < 2 => file[d] = "audio"
    BY <1>2, <1>3, <2>2 DEF PlaceholdersAreHarmless
  <2>8. Accounts(p, d)
    BY <1>1, <1>2, <1>3, <1>4, <2>1, <2>3, <2>4, <2>6, <2>7 DEF Accounts, Referenced
  <2> QED
    BY <1>2, <2>3, <2>8, OperationKeeps
<1>5. CASE UNCHANGED file /\ (\/ Fault(1) /\ End(p, {})
                              \/ Fault(2) /\ End(p, Own(p)))
  <2>1. PICK left : /\ left = {} \/ (left = Own(p) /\ faults' >= 2)
                    /\ End(p, left) /\ faults' \in Nat /\ faults' >= faults
    BY <1>2, <1>5 DEF Fault
  <2> QED
    BY <1>1, <1>3, <1>5, <2>1, EndKeeps
<1> QED
  BY <1>4, <1>5 DEF MoveAside

\* The deletion decides whether the bytes come back.
LEMMA DeleteRowKeeps ==
    ASSUME MediaInv, NEW p \in Proc, DeleteRow(p)
    PROVE  MediaInv'
<1> DEFINE d == task[p].digest
<1>1. /\ Serving(p, "delete")
      /\ UNCHANGED <<row, ref, file, stale, lock, phase, todo, problem, faults>>
  BY DEF DeleteRow, disk, recovery
<1>2. /\ task[p] \in Task /\ d \in Digest /\ faults \in Nat
      /\ task[p].at = "delete" /\ lock[d] = p
      /\ file[d] = "none" /\ ~Referenced(d)
  BY <1>1, UnderWay DEF Stage
<1>3. /\ lock \in [Digest -> Proc \cup {None}]
  BY DEF MediaInv, MediaTypeOK
<1>4. PICK next \in {"commitrow", "restore"} : Goto(p, next, task[p].temp)
  BY DEF DeleteRow
<1>5. \A t \in Task : t.at = next /\ t.temp = task[p].temp /\ t.digest = d => Stage(t)
  BY <1>2, <1>4 DEF Stage
<1> QED
  BY <1>1, <1>2, <1>3, <1>4, <1>5, GotoKeeps DEF Clearing, Writing

\* The row goes, or stays; the bytes remain in the hands of the cleanup, or in
\* temp/ when its context is canceled.
LEMMA CommitCleanupKeeps ==
    ASSUME MediaInv, NEW p \in Proc, CommitCleanup(p)
    PROVE  MediaInv'
<1> DEFINE d == task[p].digest
<1>1. /\ Serving(p, "commitrow") /\ UNCHANGED <<ref, file, phase, todo, problem>>
  BY DEF CommitCleanup, recovery
<1>2. /\ task[p] \in Task /\ d \in Digest /\ faults \in Nat
      /\ task[p].at = "commitrow" /\ lock[d] = p
      /\ file[d] = "none" /\ ~Referenced(d) /\ task[p].temp \in Contents
      /\ faults < 2 => task[p].temp \in {"none", "audio"}
  BY <1>1, UnderWay, TaskFields DEF Stage
<1>3. /\ MediaTypeOK /\ ref' \in [Ref -> Digest \cup {None}]
      /\ file' \in [Digest -> Contents]
      /\ lock \in [Digest -> Proc \cup {None}]
  BY <1>1 DEF MediaInv, MediaTypeOK
<1>4. ASSUME NEW next \in {"remove", "verifyrow"},
             Goto(p, next, task[p].temp), UNCHANGED <<lock, stale>>,
             row' = row \ {d} \/ (row' = row /\ next = "verifyrow"),
             faults' \in Nat, faults' >= faults
      PROVE  MediaInv'
  <2>1. CASE row' = row /\ next = "verifyrow"
    <3>1. \A t \in Task : t.at = next /\ t.temp = task[p].temp /\ t.digest = d => Stage(t)
      BY <1>2, <2>1 DEF Stage
    <3> QED
      BY <1>1, <1>2, <1>3, <1>4, <2>1, <3>1, GotoKeeps DEF Clearing, Writing
  <2>2. CASE row' = row \ {d}
    <3>1. /\ row' \subseteq Digest /\ \A e \in Digest : e # d => (e \in row' <=> e \in row)
          /\ \A r \in Ref : ref'[r] \in {ref[r], d}
      BY <1>1, <1>3, <2>2 DEF MediaTypeOK
    <3>2. next \in Clearing /\ "commitrow" \notin Writing
      BY DEF Clearing, Writing
    <3>3. /\ MediaTypeOK' /\ Touches(p, d)
          /\ task'[p].at = next /\ task'[p].temp = task[p].temp
          /\ task'[p].digest = d /\ lock'[d] = p
      BY <1>1, <1>2, <1>3, <1>4, <3>1, <3>2, GotoFrame
    <3>4. Stage(task[p])'
      BY <1>1, <1>2, <2>2, <3>3 DEF Stage, Referenced
    <3>5. Accounts(p, d)
      BY <1>1, <1>2, <1>4, <2>2, <3>3, <3>4 DEF Accounts, Referenced
    <3> QED
      BY <1>2, <3>3, <3>5, OperationKeeps
  <2> QED
    BY <1>4, <2>1, <2>2
<1>5. CASE /\ NoFault /\ row' = row \ {d}
           /\ Goto(p, "remove", task[p].temp) /\ UNCHANGED <<lock, stale>>
  BY <1>2, <1>4, <1>5 DEF NoFault
<1>6. CASE /\ Fault(1) /\ row' \in {row, row \ {d}}
           /\ Goto(p, "verifyrow", task[p].temp) /\ UNCHANGED <<lock, stale>>
  <2>1. faults' \in Nat /\ faults' >= faults
    BY <1>2, <1>6 DEF Fault
  <2> QED
    BY <1>4, <1>6, <2>1
<1>7. CASE NoFault /\ End(p, Own(p)) /\ UNCHANGED row
  BY <1>1, <1>2, <1>3, <1>7, EndKeeps DEF NoFault
<1> QED
  BY <1>5, <1>6, <1>7 DEF CommitCleanup

\* A lost answer to the commit: the row decides.
LEMMA VerifyCleanupKeeps ==
    ASSUME MediaInv, NEW p \in Proc, VerifyCleanup(p)
    PROVE  MediaInv'
<1> DEFINE d == task[p].digest
<1>1. /\ Serving(p, "verifyrow")
      /\ UNCHANGED <<row, ref, file, phase, todo, problem, faults>>
  BY DEF VerifyCleanup, recovery
<1>2. /\ task[p] \in Task /\ d \in Digest /\ faults \in Nat
      /\ task[p].at = "verifyrow" /\ lock[d] = p /\ Stage(task[p])
  BY <1>1, UnderWay
<1>3. lock \in [Digest -> Proc \cup {None}] /\ ref' \in [Ref -> Digest \cup {None}]
  BY <1>1 DEF MediaInv, MediaTypeOK
<1>4. CASE Goto(p, IF d \in row THEN "restore" ELSE "remove", task[p].temp)
           /\ UNCHANGED <<lock, stale>>
  <2> DEFINE next == IF d \in row THEN "restore" ELSE "remove"
  <2>1. next \in {"restore", "remove"} /\ (next = "remove" => d \notin row)
    OBVIOUS
  <2>2. Goto(p, next, task[p].temp)
    BY <1>4
  <2> HIDE DEF next
  <2>3. \A t \in Task : t.at = next /\ t.temp = task[p].temp /\ t.digest = d => Stage(t)
    BY <1>2, <2>1 DEF Stage
  <2> QED
    BY <1>1, <1>2, <1>3, <1>4, <2>1, <2>2, <2>3, GotoKeeps DEF Clearing, Writing
<1>5. CASE End(p, Own(p))
  BY <1>1, <1>2, <1>3, <1>5, EndKeeps
<1> QED
  BY <1>4, <1>5 DEF VerifyCleanup

\* The bytes are back in their place, or left in temp/.
LEMMA RestoreAsideKeeps ==
    ASSUME MediaInv, NEW p \in Proc, RestoreAside(p)
    PROVE  MediaInv'
<1> DEFINE d == task[p].digest
<1>1. /\ Serving(p, "restore") /\ UNCHANGED <<row, ref, phase, todo, problem>>
  BY DEF RestoreAside, recovery
<1>2. /\ task[p] \in Task /\ d \in Digest /\ faults \in Nat /\ phase = "serving"
      /\ task[p].at = "restore" /\ lock[d] = p
      /\ ~Referenced(d) /\ task[p].temp \in Contents
      /\ faults < 2 => task[p].temp \in {"none", "audio"}
  BY <1>1, UnderWay, TaskFields DEF Stage
<1>3. MediaTypeOK /\ ref' \in [Ref -> Digest \cup {None}]
  BY <1>1 DEF MediaInv, MediaTypeOK
<1>4. CASE /\ UNCHANGED file
           /\ \/ task[p].temp = "none" /\ NoFault /\ End(p, {})
              \/ Fault(1) /\ End(p, Own(p))
  <2>1. PICK left : /\ left = Own(p) \/ (left = {} /\ task[p].temp = "none")
                    /\ End(p, left) /\ faults' \in Nat /\ faults' >= faults
    BY <1>2, <1>4 DEF Fault, NoFault
  <2> QED
    BY <1>1, <1>3, <1>4, <2>1, EndKeeps
<1>5. CASE /\ task[p].temp # "none" /\ NoFault /\ End(p, {})
           /\ file' = [file EXCEPT ![d] = task[p].temp]
  <2>1. /\ task' \in [Proc -> Task \cup {Idle}] /\ lock' \in [Digest -> Proc \cup {None}]
        /\ task'[p] = Idle /\ stale' = stale
        /\ \A q \in Proc : q # p => task'[q] = task[q]
        /\ \A e \in Digest : lock[e] \notin {p, None} => lock'[e] = lock[e]
    BY <1>2, <1>5, EndStep
  <2>2. /\ file' \in [Digest -> Contents] /\ file'[d] = task[p].temp
        /\ \A e \in Digest : e # d => file'[e] = file[e]
    BY <1>2, <1>3, <1>5 DEF MediaTypeOK
  <2>3. MediaTypeOK'
    BY <1>1, <1>3, <1>5, <2>1, <2>2 DEF MediaTypeOK, NoFault
  <2>4. Touches(p, d)
    BY <1>1, <1>2, <1>5, <2>1, <2>2 DEF Touches, NoFault
  <2>5. task[p].temp \in Bytes /\ faults' = faults
    BY <1>2, <1>5 DEF Contents, NoFault
  <2>6. Accounts(p, d)
    BY <1>1, <1>2, <1>5, <2>1, <2>2, <2>5 DEF Accounts, Referenced
  <2> QED
    BY <1>2, <2>3, <2>4, <2>6, OperationKeeps
<1> QED
  BY <1>4, <1>5 DEF RestoreAside

-----------------------------------------------------------------------------
(* Crash and recovery.                                                     *)

\* The invariant does not speak of the connection: a canceled transaction
\* changes nothing else.
LEMMA QuietKeeps ==
    ASSUME MediaInv, UNCHANGED <<row, ref, file, stale, lock, task, phase, todo, problem, faults>>
    PROVE  MediaInv'
<1>1. \A p \in Proc : Own(p)' = Own(p)
  BY DEF Own
<1>2. \A p \in Proc : Stage(task[p])' <=> Stage(task[p])
  BY DEF Stage, Referenced
<1>3. \A X : RowsHave(X)' <=> RowsHave(X)
  BY <1>1 DEF RowsHave, Aside
<1>4. MediaTypeOK' /\ ReferencesPlay'
  BY DEF MediaInv, MediaTypeOK, ReferencesPlay
<1>5. OperationsAreOrdered'
  BY <1>2 DEF MediaInv, OperationsAreOrdered
<1>6. faults' < 2 => PlaceholdersAreHarmless'
  BY <1>3 DEF MediaInv, PlaceholdersAreHarmless
<1>7. RecoveryIsThorough'
  BY DEF MediaInv, RecoveryIsThorough
<1> QED
  BY <1>3, <1>4, <1>5, <1>6, <1>7 DEF MediaInv

\* What the operations had in their hands is in temp/ now.
LEMMA StoppedKeeps ==
    ASSUME MediaInv, Stopped
    PROVE  MediaInv'
<1>1. /\ MediaTypeOK /\ OperationsAreOrdered /\ ReferencesPlay /\ RowsHave(Bytes)
      /\ faults < 2 => PlaceholdersAreHarmless
  BY DEF MediaInv
<1>2. /\ \A p \in Proc : task'[p] = Idle /\ Own(p)' = {}
      /\ UNCHANGED <<row, ref, file, faults>>
      /\ phase' = "temps" /\ problem' = FALSE /\ todo' = stale'
  BY DEF Stopped, Own
<1>3. /\ stale \subseteq stale' /\ \A p \in Proc : Own(p) \subseteq stale'
      /\ \A e \in stale' : e \in stale \/ \E p \in Proc : e \in Own(p)
  BY DEF Stopped
<1>4. ASSUME NEW p \in Proc, NEW e \in Own(p)
      PROVE  /\ task[p] \in Task /\ task[p] # Idle
             /\ e \in Artifact /\ e.digest = task[p].digest /\ e.bytes = task[p].temp
             /\ e.bytes \in Bytes
  <2>1. task[p] # Idle
    BY <1>4 DEF Own
  <2>2. task[p] \in Task
    BY <1>1, <2>1 DEF MediaTypeOK
  <2> QED
    BY <1>4, <2>1, <2>2, OwnArtifact
<1>5. MediaTypeOK'
  <2>1. stale' \subseteq Artifact
    BY <1>1, <1>3, <1>4 DEF MediaTypeOK
  <2>2. lock' \in [Digest -> Proc \cup {None}] /\ task' \in [Proc -> Task \cup {Idle}]
    BY DEF Stopped
  <2> QED
    BY <1>1, <1>2, <2>1, <2>2 DEF MediaTypeOK
<1>6. ASSUME NEW X, RowsHave(X) PROVE RowsHave(X)'
  <2>1. ASSUME NEW d, Aside(d, X) PROVE Aside(d, X)'
    BY <1>3, <2>1 DEF Aside
  <2> QED
    BY <1>2, <1>6, <2>1 DEF RowsHave
<1>7. ASSUME faults' < 2 PROVE PlaceholdersAreHarmless'
  <2>1. PlaceholdersAreHarmless
    BY <1>1, <1>2, <1>7
  <2>2. ASSUME NEW e \in stale', e.kind = "cleanup", e.bytes # "audio", e.digest \in row
        PROVE  file[e.digest] = "audio"
    <3>1. CASE e \in stale
      BY <2>1, <2>2, <3>1 DEF PlaceholdersAreHarmless
    <3>2. CASE \E p \in Proc : e \in Own(p)
      <4>1. PICK p \in Proc : e \in Own(p)
        BY <3>2
      <4>2. /\ task[p] \in Task /\ task[p] # Idle
            /\ e.digest = task[p].digest /\ e.bytes = task[p].temp /\ e.bytes \in Bytes
        BY <1>4, <4>1
      <4>3. task[p].at = "aside"
        BY <2>1, <2>2, <4>2 DEF PlaceholdersAreHarmless, Bytes
      <4>4. file[e.digest] # "none"
        BY <1>1, <4>2, <4>3 DEF OperationsAreOrdered, Stage
      <4> QED
        BY <2>1, <4>2, <4>4, TaskFields DEF PlaceholdersAreHarmless
    <3> QED
      BY <1>3, <3>1, <3>2
  <2>3. RowsHave({"audio"})'
    BY <1>6, <2>1 DEF PlaceholdersAreHarmless
  <2> QED
    BY <1>2, <2>1, <2>2, <2>3 DEF PlaceholdersAreHarmless
<1>8. OperationsAreOrdered' /\ ReferencesPlay' /\ RecoveryIsThorough'
  BY <1>1, <1>2 DEF OperationsAreOrdered, ReferencesPlay, RecoveryIsThorough
<1> QED
  BY <1>1, <1>5, <1>6, <1>7, <1>8 DEF MediaInv

\* Recovery finds every task idle, so only temp/ holds files aside.
LEMMA RecoveryAlone ==
    ASSUME MediaInv, phase # "serving"
    PROVE  /\ \A p \in Proc : task[p] = Idle /\ Own(p) = {}
           /\ \A d, X : Aside(d, X) <=>
                 \E e \in stale : e.digest = d /\ e.kind = "cleanup" /\ e.bytes \in X
<1>1. \A p \in Proc : task[p] = Idle /\ Own(p) = {}
  BY DEF MediaInv, RecoveryIsThorough, Own
<1> QED
  BY <1>1 DEF Aside

\* A file of temp/ that is removed was needed by no row; one that is put back
\* fills the place of its row.
LEMMA RecoverTempKeeps ==
    ASSUME MediaInv, NEW e \in todo, RecoverTemp(e)
    PROVE  MediaInv'
<1>1. /\ MediaTypeOK /\ OperationsAreOrdered /\ ReferencesPlay /\ RowsHave(Bytes)
      /\ faults < 2 => PlaceholdersAreHarmless
      /\ RecoveryIsThorough
  BY DEF MediaInv
<1>2. /\ phase = "temps" /\ phase' = "temps" /\ todo' = todo \ {e}
      /\ UNCHANGED <<row, ref, lock, task>>
      /\ e \in stale /\ e \in Artifact
  BY <1>1 DEF RecoverTemp, MediaTypeOK
<1>3. e.digest \in Digest /\ e.bytes \in Bytes /\ faults \in Nat
  BY <1>1, <1>2 DEF Artifact, MediaTypeOK
<1>4. /\ \A p \in Proc : task[p] = Idle /\ Own(p) = {} /\ task'[p] = Idle /\ Own(p)' = {}
      /\ \A d, X : Aside(d, X) <=>
            \E a \in stale : a.digest = d /\ a.kind = "cleanup" /\ a.bytes \in X
      /\ \A d, X : Aside(d, X)' <=>
            \E a \in stale' : a.digest = d /\ a.kind = "cleanup" /\ a.bytes \in X
  <2>1. \A p \in Proc : task'[p] = Idle /\ Own(p)' = {}
    BY <1>2, RecoveryAlone DEF Own
  <2> QED
    BY <1>2, <2>1, RecoveryAlone DEF Aside
<1>5. CASE /\ NoFault /\ stale' = stale \ {e} /\ UNCHANGED problem
           /\ file' = IF e.kind = "cleanup" /\ e.digest \in row /\ file[e.digest] = "none"
                      THEN [file EXCEPT ![e.digest] = e.bytes] ELSE file
  <2>1. /\ \A d \in Digest : file[d] # "none" => file'[d] = file[d]
        /\ \A d \in Digest : \/ file'[d] = file[d]
                             \/ d = e.digest /\ d \in row /\ file'[d] = e.bytes /\ e.kind = "cleanup"
        /\ e.kind = "cleanup" /\ e.digest \in row /\ file[e.digest] = "none"
              => file'[e.digest] = e.bytes
        /\ file' \in [Digest -> Contents]
    BY <1>1, <1>3, <1>5 DEF MediaTypeOK, Contents
  <2>2. MediaTypeOK'
    BY <1>1, <1>2, <1>5, <2>1 DEF MediaTypeOK, NoFault
  <2>3. ReferencesPlay'
    <3>1. \A r \in Ref : ref[r] # None => ref[r] \in Digest
      BY <1>1 DEF MediaTypeOK
    <3> QED
      BY <1>1, <1>2, <2>1, <3>1 DEF ReferencesPlay
  <2>4. ASSUME NEW X, RowsHave(X), e.kind = "cleanup" /\ e.digest \in row =>
                  IF file[e.digest] = "none" THEN e.bytes \in X ELSE file[e.digest] \in X,
               "none" \notin X
        PROVE  RowsHave(X)'
    <3>1. ASSUME NEW d \in row PROVE file'[d] \in X \/ Aside(d, X)'
      <4>1. d \in Digest
        BY <1>1 DEF MediaTypeOK
      <4>2. CASE file[d] \in X
        BY <2>1, <2>4, <4>1, <4>2
      <4>3. CASE Aside(d, X)
        <5>1. PICK a \in stale : a.digest = d /\ a.kind = "cleanup" /\ a.bytes \in X
          BY <1>4, <4>3
        <5>2. CASE a = e
          BY <2>1, <2>4, <4>1, <5>1, <5>2
        <5>3. CASE a # e
          BY <1>4, <1>5, <5>1, <5>3
        <5> QED
          BY <5>2, <5>3
      <4> QED
        BY <2>4, <4>2, <4>3 DEF RowsHave
    <3> QED
      BY <1>2, <3>1 DEF RowsHave
  <2>5. RowsHave(Bytes)'
    <3>1. \A d \in Digest : file[d] # "none" => file[d] \in Bytes
      BY <1>1 DEF MediaTypeOK, Contents
    <3>2. "none" \notin Bytes
      BY DEF Bytes
    <3> QED
      BY <1>1, <1>3, <2>4, <3>1, <3>2
  <2>6. ASSUME faults' < 2 PROVE PlaceholdersAreHarmless'
    <3>1. PlaceholdersAreHarmless
      BY <1>1, <1>5, <2>6 DEF NoFault
    <3>2. /\ \A d \in Digest : file[d] \in {"none", "audio"}
          /\ e.kind = "cleanup" /\ e.digest \in row /\ file[e.digest] = "none"
                => e.bytes = "audio"
      BY <1>2, <3>1 DEF PlaceholdersAreHarmless
    <3>3. \A d \in Digest : file'[d] \in {"none", "audio"}
      BY <2>1, <3>2
    <3>4. RowsHave({"audio"})'
      BY <1>3, <2>4, <3>1, <3>2 DEF PlaceholdersAreHarmless
    <3>5. \A a \in stale' : a.kind = "cleanup" /\ a.bytes # "audio" =>
             (a.digest \in row => file'[a.digest] = "audio")
      BY <1>1, <1>5, <2>1, <3>1 DEF PlaceholdersAreHarmless, MediaTypeOK
    <3> QED
      BY <1>2, <1>4, <3>3, <3>4, <3>5 DEF PlaceholdersAreHarmless
  <2>7. RecoveryIsThorough' /\ OperationsAreOrdered'
    BY <1>1, <1>2, <1>4, <1>5 DEF RecoveryIsThorough, OperationsAreOrdered
  <2> QED
    BY <2>2, <2>3, <2>5, <2>6, <2>7 DEF MediaInv
<1>6. CASE Fault(1) /\ problem' = TRUE /\ UNCHANGED <<file, stale>>
  <2>1. MediaTypeOK'
    BY <1>1, <1>2, <1>6 DEF MediaTypeOK, Fault
  <2>2. \A X : RowsHave(X)' <=> RowsHave(X)
    BY <1>2, <1>4, <1>6 DEF RowsHave
  <2>3. faults' < 2 => PlaceholdersAreHarmless'
    BY <1>1, <1>2, <1>3, <1>4, <1>6, <2>2 DEF PlaceholdersAreHarmless, Fault
  <2>4. ReferencesPlay' /\ RecoveryIsThorough' /\ OperationsAreOrdered'
    BY <1>1, <1>2, <1>4, <1>6 DEF ReferencesPlay, RecoveryIsThorough, OperationsAreOrdered
  <2> QED
    BY <1>1, <2>1, <2>2, <2>3, <2>4 DEF MediaInv
<1> QED
  BY <1>5, <1>6 DEF RecoverTemp

\* Steps of recovery that leave rows, references and temp/ alone, and no row
\* without its bytes.
LEMMA RecoveryFrame ==
    ASSUME MediaInv, phase # "serving",
           UNCHANGED <<row, ref, stale, lock, task>>,
           file' \in [Digest -> Contents],
           \A d \in Digest : file'[d] = file[d] \/ (d \notin row /\ file'[d] = "none"),
           faults' \in Nat, faults' >= faults,
           phase' = "serving" /\ faults' < 2 => stale = {},
           phase' \in {"serving", "blobs"}, phase' = "blobs" => todo' \subseteq Digest,
           RecoveryIsThorough'
    PROVE  MediaInv'
<1>1. /\ MediaTypeOK /\ ReferencesPlay /\ RowsHave(Bytes)
      /\ faults < 2 => PlaceholdersAreHarmless
      /\ \A p \in Proc : task[p] = Idle
  BY RecoveryAlone DEF MediaInv
<1>2. MediaTypeOK'
  BY <1>1 DEF MediaTypeOK
<1>3. OperationsAreOrdered'
  BY <1>1 DEF OperationsAreOrdered
<1>4. ReferencesPlay'
  <2>1. \A r \in Ref : ref[r] # None => ref[r] \in Digest
    BY <1>1 DEF MediaTypeOK
  <2> QED
    BY <1>1, <2>1 DEF ReferencesPlay
<1>5. \A p \in Proc : Own(p)' = Own(p)
  BY DEF Own
<1>6. ASSUME NEW X, RowsHave(X) PROVE RowsHave(X)'
  <2>1. \A d \in row : file'[d] = file[d]
    BY <1>1 DEF MediaTypeOK
  <2> QED
    BY <1>5, <1>6, <2>1 DEF RowsHave, Aside
<1>7. ASSUME faults' < 2 PROVE PlaceholdersAreHarmless'
  <2>1. PlaceholdersAreHarmless
    BY <1>1, <1>7 DEF MediaTypeOK
  <2>2. \A d \in Digest : file'[d] \in {"none", "audio"}
    BY <2>1 DEF PlaceholdersAreHarmless
  <2>3. \A e \in stale' : e.kind = "cleanup" /\ e.bytes # "audio" =>
           phase' # "serving" /\ (e.digest \in row' => file'[e.digest] = "audio")
    <3>1. ASSUME NEW e \in stale, e.kind = "cleanup", e.bytes # "audio", e.digest \in row
          PROVE  file'[e.digest] = "audio"
      <4>1. e.digest \in Digest /\ file[e.digest] = "audio"
        BY <1>1, <2>1, <3>1 DEF PlaceholdersAreHarmless, MediaTypeOK
      <4> QED
        BY <3>1, <4>1
    <3> QED
      BY <1>7, <3>1
  <2>4. RowsHave({"audio"})'
    BY <1>6, <2>1 DEF PlaceholdersAreHarmless
  <2> QED
    BY <1>1, <2>2, <2>3, <2>4 DEF PlaceholdersAreHarmless
<1> QED
  BY <1>1, <1>2, <1>3, <1>4, <1>6, <1>7 DEF MediaInv

\* temp/ is done: with every entry gone, or with a problem.
LEMMA ReadBlobsKeeps ==
    ASSUME MediaInv, ReadBlobs
    PROVE  MediaInv'
<1>1. /\ phase = "temps" /\ phase' = "blobs" /\ todo = {}
      /\ todo' = {d \in Digest : file[d] # "none"}
      /\ UNCHANGED <<row, ref, file, stale, lock, task, problem, faults>>
  BY DEF ReadBlobs, disk
<1>2. file' \in [Digest -> Contents] /\ faults' \in Nat /\ faults' >= faults
  BY <1>1 DEF MediaInv, MediaTypeOK
<1>3. RecoveryIsThorough'
  BY <1>1 DEF MediaInv, RecoveryIsThorough
<1> QED
  BY <1>1, <1>2, <1>3, RecoveryFrame

\* Only files without a row are removed.
LEMMA RecoverBlobKeeps ==
    ASSUME MediaInv, NEW d \in todo, RecoverBlob(d)
    PROVE  MediaInv'
<1>1. /\ phase = "blobs" /\ phase' = "blobs" /\ todo' = todo \ {d}
      /\ UNCHANGED <<row, ref, stale, lock, task>>
      /\ todo \subseteq Digest /\ file \in [Digest -> Contents] /\ faults \in Nat
      /\ RecoveryIsThorough
  BY DEF RecoverBlob, MediaInv, MediaTypeOK
<1>2. /\ \/ d \in row /\ file' = file /\ faults' = faults /\ problem' = problem
         \/ /\ d \notin row /\ file' = [file EXCEPT ![d] = "none"]
            /\ faults' = faults /\ problem' = problem
         \/ file' = file /\ faults' = faults + 1 /\ problem' = TRUE
  BY <1>1 DEF RecoverBlob, NoFault, Fault
<1>3. /\ file' \in [Digest -> Contents] /\ faults' \in Nat /\ faults' >= faults
      /\ \A e \in Digest : file'[e] = file[e] \/ (e \notin row /\ file'[e] = "none")
  BY <1>1, <1>2 DEF Contents
<1>4. RecoveryIsThorough'
  <2>1. CASE problem' = TRUE
    BY <1>1, <2>1 DEF RecoveryIsThorough
  <2>2. CASE problem' = problem /\ (d \in row \/ file'[d] = "none")
    BY <1>1, <1>3, <2>2 DEF RecoveryIsThorough
  <2> QED
    BY <1>1, <1>2, <2>1, <2>2
<1> QED
  BY <1>1, <1>3, <1>4, RecoveryFrame

\* A start without a problem serves what recovery left; any other starts again.
LEMMA ServeKeeps ==
    ASSUME MediaInv, Serve
    PROVE  MediaInv'
<1>1. CASE Stopped
  BY <1>1, StoppedKeeps
<1>2. CASE /\ ~problem /\ phase' = "serving"
           /\ UNCHANGED <<disk, lock, conn, task, todo, problem, faults>>
  <2>1. /\ phase = "blobs" /\ stale = {} /\ file' = file
        /\ UNCHANGED <<row, ref, stale, lock, task>>
    BY <1>2 DEF Serve, MediaInv, RecoveryIsThorough, disk
  <2>2. file' \in [Digest -> Contents] /\ faults' \in Nat /\ faults' >= faults
    BY <1>2, <2>1 DEF MediaInv, MediaTypeOK
  <2>3. RecoveryIsThorough'
    BY <1>2, <2>1 DEF RecoveryIsThorough
  <2> QED
    BY <1>2, <2>1, <2>2, <2>3, RecoveryFrame
<1> QED
  BY <1>1, <1>2 DEF Serve

-----------------------------------------------------------------------------
(* The store.                                                              *)

\* The store starts empty.
LEMMA MediaInitInv == Init => MediaInv
<1> SUFFICES ASSUME Init PROVE MediaInv
  OBVIOUS
<1>1. MediaTypeOK
  BY DEF Init, MediaTypeOK, Contents
<1>2. \A p \in Proc : task[p] = Idle
  BY DEF Init
<1>3. OperationsAreOrdered /\ ReferencesPlay /\ RowsHave(Bytes) /\ RecoveryIsThorough
  BY <1>2 DEF Init, OperationsAreOrdered, ReferencesPlay, RowsHave, RecoveryIsThorough
<1>4. PlaceholdersAreHarmless
  BY <1>2 DEF Init, PlaceholdersAreHarmless, RowsHave
<1> QED
  BY <1>1, <1>3, <1>4 DEF MediaInv

\* Every statement of every operation, every crash and every step of recovery
\* keeps the invariant.
LEMMA StepKeepsMediaInv == MediaInv /\ [Next]_mediaVars => MediaInv'
<1> SUFFICES ASSUME MediaInv, [Next]_mediaVars PROVE MediaInv'
  OBVIOUS
<1>1. ASSUME NEW p \in Proc, Operation(p) PROVE MediaInv'
  <2>1. CASE DiscardDuplicate(p)
    BY <2>1, DropKeeps DEF DiscardDuplicate
  <2>2. CASE RemoveAside(p)
    BY <2>2, DropKeeps DEF RemoveAside
  <2> QED
    BY <1>1, <2>1, <2>2, CommitPreparedKeeps, CommitTransactionKeeps,
       RestoreAfterCommitFailureKeeps, LockOrphanKeeps, CountReferencesKeeps,
       MoveAsideKeeps, DeleteRowKeeps, CommitCleanupKeeps, VerifyCleanupKeeps,
       RestoreAsideKeeps DEF Operation
<1>2. ASSUME NEW p \in Proc, Cancel(p) PROVE MediaInv'
  BY <1>2, QuietKeeps DEF Cancel, disk, recovery
<1>3. ASSUME NEW p \in Proc, NEW r \in Ref, ClearReference(p, r) PROVE MediaInv'
  BY <1>3, ClearReferenceKeeps
<1>4. ASSUME NEW p \in Proc, NEW r \in Ref, NEW d \in Digest, PrepareWrite(p, r, d)
      PROVE  MediaInv'
  BY <1>4, PrepareKeeps
<1>5. CASE Recover
  BY <1>5, ReadBlobsKeeps, ServeKeeps, RecoverTempKeeps, RecoverBlobKeeps DEF Recover
<1>6. CASE Crash
  BY <1>6, StoppedKeeps DEF Crash
<1>7. CASE UNCHANGED mediaVars
  BY <1>7, QuietKeeps DEF mediaVars, disk, recovery
<1> QED
  BY <1>1, <1>2, <1>3, <1>4, <1>5, <1>6, <1>7 DEF Next

\* Each statement of an upload or a cleanup finds the bytes, the row and the
\* references where the lock of the digest says they are, and recovery forgets
\* nothing (CommitPrepared, CleanupOrphan, Recover).
THEOREM MediaStoreCorrect == Spec => []MediaInv
<1>1. Init => MediaInv
  BY MediaInitInv
<1>2. MediaInv /\ [Next]_mediaVars => MediaInv'
  BY StepKeepsMediaInv
<1> QED
  BY <1>1, <1>2, PTL DEF Spec

\* What a render refers to can be played, whatever the disk refuses, and one
\* refused disk operation costs no row its bytes (CommitPrepared,
\* restoreAfterGenericCommitFailure, CleanupOrphan, Recover).
THEOREM AudioStaysKept == Spec => []AudioIsKept
<1>1. MediaInv => AudioIsKept
  <2> SUFFICES ASSUME MediaInv PROVE AudioIsKept
    OBVIOUS
  <2>1. ReferencesPlay
    BY DEF MediaInv
  <2>2. ASSUME faults < 2 PROVE RowsKeepTheirAudio
    <3>1. RowsHave({"audio"})
      BY <2>2 DEF MediaInv, PlaceholdersAreHarmless
    <3>2. ASSUME NEW d \in row, Aside(d, {"audio"})
          PROVE  \E e \in stale \cup UNION {Own(p) : p \in Proc} :
                    e.digest = d /\ e.kind = "cleanup" /\ e.bytes = "audio"
      BY <3>2 DEF Aside
    <3> QED
      BY <3>1, <3>2 DEF RowsHave, RowsKeepTheirAudio
  <2> QED
    BY <2>1, <2>2 DEF ReferencesPlay, AudioIsKept
<1> QED
  BY <1>1, MediaStoreCorrect, PTL

\* A start that serves leaves no file in temp/ and exactly the files of the
\* rows, whatever was interrupted or refused before it (Recover).
THEOREM RecoveryRestoresAgreement == Spec => RecoveryAgrees
<1> DEFINE Agrees == phase # "serving" /\ phase' = "serving" =>
                        stale' = {} /\ \A d \in Digest : file'[d] # "none" <=> d \in row'
<1>1. MediaInv /\ [Next]_mediaVars => [Agrees]_mediaVars
  <2> SUFFICES ASSUME MediaInv, Next, phase # "serving", phase' = "serving"
               PROVE  stale' = {} /\ \A d \in Digest : file'[d] # "none" <=> d \in row'
    BY DEF mediaVars, recovery
  <2>1. Serve /\ ~Stopped
    <3>1. ASSUME NEW p \in Proc PROVE ~Operation(p) /\ ~Cancel(p)
      BY DEF Operation, Serving, Cancel, recovery, CommitPrepared, CommitTransaction,
         RestoreAfterCommitFailure, DiscardDuplicate, LockOrphan, CountReferences,
         MoveAside, DeleteRow, CommitCleanup, VerifyCleanup, RemoveAside, RestoreAside
    <3>2. ASSUME NEW p \in Proc, NEW r \in Ref, NEW d \in Digest
          PROVE  ~PrepareWrite(p, r, d)
      BY DEF PrepareWrite, Serving
    <3>3. ASSUME NEW p \in Proc, NEW r \in Ref PROVE ~ClearReference(p, r)
      BY DEF ClearReference, Serving
    <3>4. ~Stopped
      BY DEF Stopped
    <3>5. ~Crash /\ ~ReadBlobs /\ \A e \in todo : ~RecoverTemp(e) /\ ~RecoverBlob(e)
      BY <3>4 DEF Crash, ReadBlobs, RecoverTemp, RecoverBlob
    <3> QED
      BY <3>1, <3>2, <3>3, <3>4, <3>5 DEF Next, Recover
  <2>2. /\ phase = "blobs" /\ todo = {} /\ ~problem
        /\ UNCHANGED <<row, file, stale>>
    BY <2>1 DEF Serve, disk
  <2>3. stale = {} /\ \A d \in Digest : file[d] # "none" => d \in row
    BY <2>2 DEF MediaInv, RecoveryIsThorough
  <2>4. \A d \in row : file[d] # "none"
    <3>1. \A d \in row : file[d] \in Bytes
      BY <2>2, <2>3, RecoveryAlone DEF MediaInv, RowsHave
    <3> QED
      BY <3>1 DEF Bytes
  <2> QED
    BY <2>2, <2>3, <2>4
<1> QED
  BY <1>1, MediaStoreCorrect, PTL DEF Spec, RecoveryAgrees
=============================================================================
