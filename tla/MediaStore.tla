----------------------------- MODULE MediaStore -----------------------------
(***************************************************************************)
(* Content-addressed audio files beside their rows in SQLite:              *)
(* internal/media/media.go, with its two users: a handler that accepts an  *)
(* upload (PrepareWrite, then CommitPrepared with a callback that inserts  *)
(* the reference) and a handler that clears a reference and then calls     *)
(* CleanupOrphan for the digest.  The database has one connection          *)
(* (internal/store/db.go), so an open transaction excludes every other.    *)
(*                                                                         *)
(* A crash keeps committed rows and files and loses everything else; the   *)
(* next start runs Recover before it serves, and exits when Recover        *)
(* reports a problem (cmd/doublangu-server/main.go).                       *)
(***************************************************************************)
EXTENDS Naturals, FiniteSets

CONSTANTS
    Digest,         \* content addresses
    Ref,            \* owners of a reference: renders
    Proc,           \* goroutines of handlers
    None,           \* no digest, no process
    MaxFaults,      \* bound: disk operations that fail
    MaxCrashes,     \* bound: crashes
    Disconnects     \* the context of a request may be canceled

ASSUME MediaAssumption ==
    /\ None \notin Digest \cup Proc
    /\ {MaxFaults, MaxCrashes} \subseteq Nat
    /\ Disconnects \in BOOLEAN

VARIABLES
    row,        \* digests with a row in blob
    ref,        \* blob_digest of each reference
    file,       \* contents of blobs/<digest>, "none" without such a file
    stale,      \* files in temp/ no running operation owns
    lock,       \* holder of the lock of each digest
    conn,       \* holder of the database connection
    task,       \* what each goroutine is doing
    phase,      \* "serving", or the directory Recover walks: "temps", "blobs"
    todo,       \* what Recover has not visited yet
    problem,    \* Recover could not repair something
    faults,     \* disk operations that failed so far
    crashes     \* crashes so far

disk == <<row, ref, file, stale>>
recovery == <<phase, todo, problem, crashes>>
mediaVars == <<disk, lock, conn, task, recovery, faults>>

-----------------------------------------------------------------------------

\* What a file holds: verified audio, other bytes, or nothing at all.
Bytes == {"audio", "damaged", "empty"}

\* A file in temp/.  Its name says its digest and whether an upload wrote it or
\* a cleanup put it there (tempArtifact); equal files count once.
Artifact == [digest : Digest, kind : {"write", "cleanup"}, bytes : Bytes]

Idle == [at |-> "idle"]

\* temp holds the bytes of the task's own file in temp/, or "none".
Task == [at : {"begin", "commit", "parity", "discard"}, kind : {"write"},
         digest : Digest, ref : Ref, temp : Bytes \cup {"none"}]
   \cup [at : {"lock", "count", "aside", "delete", "commitrow", "verifyrow",
               "remove", "restore"},
         kind : {"cleanup"}, digest : Digest, temp : Bytes \cup {"none"}]

Own(p) == IF task[p] = Idle \/ task[p].temp = "none" THEN {}
          ELSE {[digest |-> task[p].digest, kind |-> task[p].kind, bytes |-> task[p].temp]}

\* The wait for the connection is over; a canceled one ends early.
Available == conn = None \/ Disconnects

\* Task p holds the lock of d; task p is where it may have a transaction open.
Holds(p, d) == task[p] # Idle /\ task[p].digest = d /\ task[p].at # "lock"
InTransaction(p) == task[p].at \in {"commit", "aside", "delete", "commitrow", "restore"}

Serving(p, at) == phase = "serving" /\ task[p].at = at

\* n disk operations of a step fail.
Fault(n) == faults + n <= MaxFaults /\ faults' = faults + n
NoFault  == UNCHANGED faults

\* The operation goes on at another statement.
Goto(p, at, temp) == task' = [task EXCEPT ![p].at = at, ![p].temp = temp]

\* The operation returns: its lease is released, an open transaction rolled
\* back, and a file it did not remove stays behind.
End(p, left) ==
    /\ task'  = [task EXCEPT ![p] = Idle]
    /\ lock'  = [d \in Digest |-> IF lock[d] = p THEN None ELSE lock[d]]
    /\ conn'  = IF conn = p THEN None ELSE conn
    /\ stale' = stale \cup left

\* Remove the task's own file and return; removing it may fail.
Drop(p) == \/ NoFault /\ End(p, {})
           \/ Own(p) # {} /\ Fault(1) /\ End(p, Own(p))

-----------------------------------------------------------------------------
(* Upload.                                                                 *)

\* Write, sync and verify a temporary file under the digest's lock.  A failed
\* write or verification removes the file, or leaves it if that fails too.
PrepareWrite(p, r, d) ==
    /\ Serving(p, "idle") /\ lock[d] = None
    /\ \/ /\ NoFault
          /\ task' = [task EXCEPT ![p] = [at |-> "begin", kind |-> "write",
                                          digest |-> d, ref |-> r, temp |-> "audio"]]
          /\ lock' = [lock EXCEPT ![d] = p]
          /\ UNCHANGED stale
       \/ /\ \/ Fault(1) /\ UNCHANGED stale
             \/ /\ Fault(2)
                /\ stale' = stale \cup {[digest |-> d, kind |-> "write", bytes |-> "damaged"]}
          /\ UNCHANGED <<lock, task>>
    /\ UNCHANGED <<row, ref, file, conn, recovery>>

\* Begin the transaction, look for a winner, insert the row, let the callback
\* insert the reference, and publish the bytes unless they are there already.
\* An unusable winner, the callback or the rename may stop it.
CommitPrepared(p) ==
    LET d == task[p].digest
        r == task[p].ref
    IN  /\ Serving(p, "begin")
        /\ \/ Available /\ Drop(p) /\ UNCHANGED file
           \/ /\ conn = None /\ conn' = p /\ NoFault
              /\ ref[r] \in {None, d} /\ file[d] \in {"none", "audio"}
              /\ IF file[d] = "audio" THEN Goto(p, "commit", task[p].temp) /\ UNCHANGED file
                 ELSE Goto(p, "commit", "none") /\ file' = [file EXCEPT ![d] = task[p].temp]
              /\ UNCHANGED <<lock, stale>>
           \/ /\ conn = None /\ file[d] = "none" /\ UNCHANGED file
              /\ \/ Fault(1) /\ End(p, {})
                 \/ Fault(2) /\ End(p, Own(p))
        /\ UNCHANGED <<row, ref, recovery>>

\* The transaction takes effect.
Publish(p) == /\ row' = row \cup {task[p].digest}
              /\ ref' = [ref EXCEPT ![task[p].ref] = task[p].digest]

\* database/sql rolls the transaction of a canceled context back at once: the
\* connection is free while the operation does not know yet.
Cancel(p) ==
    /\ Disconnects
    /\ conn = p /\ conn' = None
    /\ UNCHANGED <<disk, lock, task, recovery, faults>>

\* The commit succeeds; fails; fails although it took effect; or finds the
\* context canceled, and then the query that would check it fails as well.
CommitTransaction(p) ==
    /\ Serving(p, "commit")
    /\ \/ /\ conn = p /\ NoFault /\ Publish(p) /\ conn' = None
          /\ Goto(p, "discard", task[p].temp) /\ UNCHANGED <<lock, stale>>
       \/ /\ conn = p /\ Fault(1) /\ conn' = None
          /\ Publish(p) \/ UNCHANGED <<row, ref>>
          /\ Goto(p, IF task[p].temp = "none" THEN "parity" ELSE "discard", task[p].temp)
          /\ UNCHANGED <<lock, stale>>
       \/ conn # p /\ Drop(p) /\ UNCHANGED <<row, ref>>
    /\ UNCHANGED <<file, recovery>>

\* Faulty: published bytes are taken back after every failed commit.
RestoreAlways(p) ==
    LET d == task[p].digest IN
    /\ Serving(p, "parity") /\ conn = None
    /\ file' = [file EXCEPT ![d] = "none"] /\ NoFault
    /\ End(p, {})
    /\ UNCHANGED <<row, ref, recovery>>

\* After a failed commit of published bytes: keep them if the row is there.
RestoreAfterCommitFailure(p) ==
    LET d == task[p].digest IN
    /\ Serving(p, "parity")
    /\ \/ /\ conn = None
          /\ \/ d \in row /\ NoFault /\ UNCHANGED file
             \/ d \notin row /\ NoFault /\ file' = [file EXCEPT ![d] = "none"]
             \/ d \notin row /\ Fault(1) /\ UNCHANGED file
       \/ Disconnects /\ NoFault /\ UNCHANGED file
    /\ End(p, {})
    /\ UNCHANGED <<row, ref, recovery>>

\* The winner's bytes are kept, the duplicate is discarded.
DiscardDuplicate(p) ==
    /\ Serving(p, "discard")
    /\ Drop(p)
    /\ UNCHANGED <<row, ref, file, recovery>>

-----------------------------------------------------------------------------
(* Clearing.                                                               *)

\* A transaction of its own deletes the reference and returns the digest.
ClearReference(p, r) ==
    /\ Serving(p, "idle") /\ conn = None
    /\ ref[r] # None
    /\ ref' = [ref EXCEPT ![r] = None]
    /\ task' = [task EXCEPT ![p] = [at |-> "lock", kind |-> "cleanup",
                                    digest |-> ref[r], temp |-> "none"]]
    /\ UNCHANGED <<row, file, stale, lock, conn, recovery, faults>>

\* Faulty: the transaction begins before the digest is locked.
LockOrphanInTransaction(p) ==
    LET d == task[p].digest IN
    /\ Serving(p, "lock")
    /\ \/ conn = None /\ conn' = p /\ UNCHANGED <<lock, task>>
       \/ /\ conn = p /\ lock[d] = None
          /\ lock' = [lock EXCEPT ![d] = p] /\ conn' = None
          /\ Goto(p, "count", "none")
    /\ UNCHANGED <<disk, recovery, faults>>

\* CleanupOrphan locks the digest first ...
LockOrphan(p) ==
    LET d == task[p].digest IN
    /\ Serving(p, "lock") /\ lock[d] = None
    /\ lock' = [lock EXCEPT ![d] = p]
    /\ Goto(p, "count", "none")
    /\ UNCHANGED <<disk, conn, recovery, faults>>

Referenced(d) == \E r \in Ref : ref[r] = d

\* ... then counts references in a transaction, and creates an empty file in
\* temp/ as the place to move the bytes to.
CountReferences(p) ==
    LET d == task[p].digest IN
    /\ Serving(p, "count")
    /\ \/ (Disconnects \/ (conn = None /\ Referenced(d))) /\ NoFault /\ End(p, {})
       \/ /\ conn = None /\ ~Referenced(d) /\ NoFault /\ conn' = p /\ UNCHANGED <<lock, stale>>
          /\ IF file[d] = "none" THEN Goto(p, "delete", "none")
             ELSE Goto(p, "aside", "empty")
       \/ conn = None /\ ~Referenced(d) /\ file[d] # "none" /\ Fault(1) /\ End(p, {})
    /\ UNCHANGED <<row, ref, file, recovery>>

MoveAside(p) ==
    LET d == task[p].digest IN
    /\ Serving(p, "aside")
    /\ \/ /\ NoFault /\ file' = [file EXCEPT ![d] = "none"]
          /\ Goto(p, "delete", file[d]) /\ UNCHANGED <<lock, conn, stale>>
       \/ Fault(1) /\ End(p, {}) /\ UNCHANGED file
       \/ Fault(2) /\ End(p, Own(p)) /\ UNCHANGED file
    /\ UNCHANGED <<row, ref, recovery>>

\* Deleting nothing, or failing to delete, puts the file back.  A reference
\* would make the deletion fail (ON DELETE RESTRICT).
DeleteRow(p) ==
    LET d == task[p].digest IN
    /\ Serving(p, "delete")
    /\ \/ /\ conn = p /\ d \in row /\ ~Referenced(d)
          /\ Goto(p, "commitrow", task[p].temp)
       \/ (conn # p \/ d \notin row \/ Referenced(d)) /\ Goto(p, "restore", task[p].temp)
    /\ UNCHANGED <<disk, lock, conn, recovery, faults>>

\* As CommitTransaction; a canceled context leaves the file where it is.
CommitCleanup(p) ==
    LET d == task[p].digest IN
    /\ Serving(p, "commitrow")
    /\ \/ /\ conn = p /\ NoFault /\ row' = row \ {d} /\ conn' = None
          /\ Goto(p, "remove", task[p].temp) /\ UNCHANGED <<lock, stale>>
       \/ /\ conn = p /\ Fault(1) /\ row' \in {row, row \ {d}} /\ conn' = None
          /\ Goto(p, "verifyrow", task[p].temp) /\ UNCHANGED <<lock, stale>>
       \/ conn # p /\ NoFault /\ End(p, Own(p)) /\ UNCHANGED row
    /\ UNCHANGED <<ref, file, recovery>>

\* After a failed commit: the row decides.
VerifyCleanup(p) ==
    LET d == task[p].digest IN
    /\ Serving(p, "verifyrow")
    /\ \/ /\ conn = None
          /\ Goto(p, IF d \in row THEN "restore" ELSE "remove", task[p].temp)
          /\ UNCHANGED <<lock, conn, stale>>
       \/ Disconnects /\ End(p, Own(p))
    /\ UNCHANGED <<row, ref, file, recovery, faults>>

RemoveAside(p) ==
    /\ Serving(p, "remove")
    /\ Drop(p)
    /\ UNCHANGED <<row, ref, file, recovery>>

RestoreAside(p) ==
    LET d == task[p].digest IN
    /\ Serving(p, "restore")
    /\ \/ task[p].temp = "none" /\ NoFault /\ End(p, {}) /\ UNCHANGED file
       \/ /\ task[p].temp # "none" /\ NoFault /\ End(p, {})
          /\ file' = [file EXCEPT ![d] = task[p].temp]
       \/ task[p].temp # "none" /\ Fault(1) /\ End(p, Own(p)) /\ UNCHANGED file
    /\ UNCHANGED <<row, ref, recovery>>

-----------------------------------------------------------------------------
(* Crash and recovery.                                                     *)

\* Goroutines, leases and the open transaction are gone; the files are not.
Stopped ==
    /\ task' = [p \in Proc |-> Idle]
    /\ lock' = [d \in Digest |-> None]
    /\ conn' = None
    /\ stale' = stale \cup UNION {Own(p) : p \in Proc}
    /\ phase' = "temps" /\ todo' = stale' /\ problem' = FALSE
    /\ UNCHANGED <<row, ref, file, faults>>

Crash == crashes < MaxCrashes /\ crashes' = crashes + 1 /\ Stopped

\* One entry of temp/.  A cleanup artifact of a row without a file goes back,
\* every other file is removed; a failure is noted and recovery goes on.
RecoverTemp(e) ==
    /\ phase = "temps" /\ e \in todo
    /\ todo' = todo \ {e}
    /\ \/ /\ NoFault /\ stale' = stale \ {e} /\ UNCHANGED problem
          /\ file' = IF e.kind = "cleanup" /\ e.digest \in row /\ file[e.digest] = "none"
                     THEN [file EXCEPT ![e.digest] = e.bytes] ELSE file
       \/ Fault(1) /\ problem' = TRUE /\ UNCHANGED <<file, stale>>
    /\ UNCHANGED <<row, ref, lock, conn, task, phase, crashes>>

ReadBlobs ==
    /\ phase = "temps" /\ todo = {}
    /\ phase' = "blobs"
    /\ todo' = {d \in Digest : file[d] # "none"}
    /\ UNCHANGED <<disk, lock, conn, task, problem, crashes, faults>>

\* One entry of blobs/: a file without a row was never committed.
RecoverBlob(d) ==
    /\ phase = "blobs" /\ d \in todo
    /\ todo' = todo \ {d}
    /\ \/ d \in row /\ NoFault /\ UNCHANGED <<file, problem>>
       \/ d \notin row /\ NoFault /\ file' = [file EXCEPT ![d] = "none"] /\ UNCHANGED problem
       \/ d \notin row /\ Fault(1) /\ problem' = TRUE /\ UNCHANGED file
    /\ UNCHANGED <<row, ref, stale, lock, conn, task, phase, crashes>>

\* Faulty: the server starts whatever Recover says.
ServeAnyway ==
    /\ phase = "blobs" /\ todo = {}
    /\ phase' = "serving" /\ problem' = FALSE
    /\ UNCHANGED <<disk, lock, conn, task, todo, crashes, faults>>

\* The server starts, or exits and is started again.
Serve ==
    /\ phase = "blobs" /\ todo = {}
    /\ \/ /\ ~problem /\ phase' = "serving"
          /\ UNCHANGED <<disk, lock, conn, task, todo, problem, faults>>
       \/ problem /\ Stopped
    /\ UNCHANGED crashes

-----------------------------------------------------------------------------

Init ==
    /\ row = {}
    /\ ref = [r \in Ref |-> None]
    /\ file = [d \in Digest |-> "none"]
    /\ stale = {}
    /\ lock = [d \in Digest |-> None]
    /\ conn = None
    /\ task = [p \in Proc |-> Idle]
    /\ phase = "serving" /\ todo = {} /\ problem = FALSE
    /\ faults = 0 /\ crashes = 0

\* What an operation does once it began.
Operation(p) ==
    \/ CommitPrepared(p) \/ CommitTransaction(p)
    \/ RestoreAfterCommitFailure(p) \/ DiscardDuplicate(p)
    \/ LockOrphan(p) \/ CountReferences(p) \/ MoveAside(p) \/ DeleteRow(p)
    \/ CommitCleanup(p) \/ VerifyCleanup(p) \/ RemoveAside(p) \/ RestoreAside(p)

Recover == ReadBlobs \/ Serve \/ \E e \in todo : RecoverTemp(e) \/ RecoverBlob(e)

Next ==
    \/ \E p \in Proc : \/ Operation(p) \/ Cancel(p)
                       \/ \E r \in Ref : \/ ClearReference(p, r)
                                         \/ \E d \in Digest : PrepareWrite(p, r, d)
    \/ Recover \/ Crash

Spec == Init /\ [][Next]_mediaVars

\* Goroutines are scheduled, sync.Mutex and database/sql serve their waiters in
\* turn, and a started server runs Recover to its end.
Fairness == (\A p \in Proc : SF_mediaVars(Operation(p))) /\ WF_mediaVars(Recover)

FairSpec == Spec /\ Fairness

-----------------------------------------------------------------------------
(* Correctness.                                                            *)

\* The bytes of every row exist, in place or in a file Recover puts back
\* (CleanupOrphan: "deletes that artifact only after the metadata transaction
\* commits").
RowsKeepTheirAudio ==
    \A d \in row :
        \/ file[d] = "audio"
        \/ \E e \in stale \cup UNION {Own(p) : p \in Proc} :
              e.digest = d /\ e.kind = "cleanup" /\ e.bytes = "audio"

\* What a render refers to can be played: its blob has a row and its file holds
\* verified bytes, while uploads of the same bytes fail and roll back, while a
\* cleanup of the same digest is under way, and after crashes, whatever the disk
\* refused; and one refused operation costs no row its bytes (CommitPrepared,
\* restoreAfterGenericCommitFailure, CleanupOrphan, Recover).
AudioIsKept ==
    /\ \A r \in Ref : ref[r] # None => ref[r] \in row /\ file[ref[r]] = "audio"
    /\ faults < 2 => RowsKeepTheirAudio

\* When the server starts to serve, the temporary directory is empty and the
\* files are exactly those of the rows, whatever was interrupted or refused
\* (Recover).
RecoveryAgrees ==
    [][phase # "serving" /\ phase' = "serving" =>
          stale' = {} /\ \A d \in Digest : file'[d] # "none" <=> d \in row']_mediaVars

\* Uploads, clears and cleanups of the same digests wait for each other, for
\* digest locks and for the one connection, but never for ever, and an
\* interrupted store comes back (lockDigest before BeginTx, everywhere).
EveryOperationEnds ==
    /\ \A p \in Proc : task[p] # Idle ~> task[p] = Idle
    /\ phase # "serving" ~> phase = "serving"
=============================================================================
