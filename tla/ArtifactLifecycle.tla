------------------------- MODULE ArtifactLifecycle -------------------------
(***************************************************************************)
(* The durable life of one compressed result: the history row, the         *)
(* stored_artifacts row and the private file behind it, from the request   *)
(* that stores them (app.py _persist_history_artifact, api_archive_create) *)
(* to the requests that read, delete, expire or reconcile them.            *)
(*                                                                         *)
(* Every process is one request handler.  A step is one statement that     *)
(* touches the database or the file system, so that requests interleave    *)
(* wherever the code lets them, and the service may crash between any two. *)
(*                                                                         *)
(* Abstractions.  artifact_store.write draws a fresh uuid for each call,   *)
(* and a history row is persisted at most once, so a file is named by the  *)
(* id of the row it was written for.  Its contents are one of four states. *)
(* The age of an artifact is left open: retention may expire any row.      *)
(***************************************************************************)
EXTENDS Integers, FiniteSets

CONSTANTS
  Users,      \* account ids
  Rows,       \* history ids (AUTOINCREMENT: never used twice)
  Procs,      \* request handlers running at once
  Sizes,      \* container lengths, in bytes
  Limit,      \* config.MAX_STORED_BYTES_PER_USER
  MaxMembers, \* most files in one archive (bound)
  Backend,    \* config.DB_BACKEND
  StatFails,  \* os.path.isfile may answer no for a file that is there
  None

ASSUME RowsFinite    == IsFiniteSet(Rows)
ASSUME SizesNatural  == Sizes \subseteq Nat
ASSUME LimitNatural  == Limit \in Nat /\ MaxMembers \in Nat
ASSUME BackendKnown  == Backend \in {"sqlite", "postgres"}
ASSUME StatKnown     == StatFails \in BOOLEAN
ASSUME NoneIsFresh   == None \notin Users \cup Rows \cup Procs \cup
                                   {"verified", "missing", "corrupt"}
ASSUME NoneIsNoEntry == None \notin [owner : Users, size : Nat]

VARIABLES
  users,   \* accounts that exist
  rows,    \* committed compression_history rows
  owner,   \* their user_id (kept after the row is gone)
  parent,  \* their parent_history_id
  bytes,   \* length of the container the row was written for
  art,     \* stored_artifacts.integrity_status, None where there is no row
  file,    \* what the result store holds for the row
  lock,    \* holders of the writer / advisory locks
  pc, job, \* where each request is, and its local variables
  up,      \* the service is running
  fate,    \* history: told stored or refused to the client, or up for deletion
  clean    \* history: no clean-up step failed, no crash hit a request

db   == <<users, rows, owner, parent, bytes, art>>
vars == <<db, file, lock, pc, job, up, fate, clean>>

(***************************************************************************)
(* Types                                                                   *)
(***************************************************************************)
Statuses == {"verified", "missing", "corrupt"}
Files    == {"absent", "partial", "intact", "damaged"}
Fates    == {"open", "acked", "refused", "condemned"}
Complete(h) == file[h] \in {"intact", "damaged"}

Locks     == IF Backend = "sqlite" THEN {"db"} ELSE Users
LockOf(u) == IF Backend = "sqlite" THEN "db" ELSE u

\* Handlers inside storage_reservation, that is, holding the lock.
Reserved == {"write", "publish", "commit"}

Pcs == Reserved \cup
       {"idle", "admitted", "reserve", "undo_file", "undo", "undo_quota",
        "member", "archive_undo_file", "archive_undo_row",
        "delete_file", "delete_row", "read", "mark",
        "prune", "prune_row", "close"}

NoJob == [user |-> None, row |-> None, size |-> 0, left |-> 0,
          seen |-> None, todo |-> {}, doomed |-> {}]

Job == [user : Users \cup {None}, row : Rows \cup {None}, size : Nat,
        left : Nat, seen : Statuses \cup {None},
        todo : SUBSET Rows, doomed : SUBSET Rows]

TypeOK ==
  /\ users \in SUBSET Users
  /\ rows \in SUBSET Rows
  /\ owner \in [Rows -> Users \cup {None}]
  /\ parent \in [Rows -> Rows \cup {None}]
  /\ bytes \in [Rows -> Nat]
  /\ art \in [Rows -> Statuses \cup {None}]
  /\ file \in [Rows -> Files]
  /\ lock \in [Locks -> Procs \cup {None}]
  /\ pc \in [Procs -> Pcs]
  /\ job \in [Procs -> Job]
  /\ up \in BOOLEAN
  /\ fate \in [Rows -> Fates]
  /\ clean \in BOOLEAN

Init ==
  /\ users = Users
  /\ rows = {}
  /\ owner = [h \in Rows |-> None]
  /\ parent = [h \in Rows |-> None]
  /\ bytes = [h \in Rows |-> 0]
  /\ art = [h \in Rows |-> None]
  /\ file = [h \in Rows |-> "absent"]
  /\ lock = [l \in Locks |-> None]
  /\ pc = [p \in Procs |-> "idle"]
  /\ job = [p \in Procs |-> NoJob]
  /\ up = TRUE
  /\ fate = [h \in Rows |-> "open"]
  /\ clean = TRUE

(***************************************************************************)
(* Database and file helpers                                               *)
(***************************************************************************)
Stored(u) == {h \in Rows : art[h] # None /\ owner[h] = u}

\* The bytes of the rows in S, one pair for each: b gives their lengths.
BytesOf(S, b) == UNION {{h} \X (1 .. b[h]) : h \in S}

\* SELECT SUM(byte_size) FROM stored_artifacts WHERE user_id = u.
UsedBy(u) == Cardinality(BytesOf(Stored(u), bytes))

\* SQLite has one writer at a time, so a statement waits while another
\* connection's transaction holds the lock.  PostgreSQL writers do not wait.
CanWrite(p) == Backend = "sqlite" => lock["db"] \in {None, p}

Free(u) == lock[LockOf(u)] = None

\* Mutation: the transaction opens without BEGIN IMMEDIATE or advisory lock.
Acquire_Nothing(p, u) == UNCHANGED lock
Acquire(p, u) == lock' = [lock EXCEPT ![LockOf(u)] = p]

\* Mutation: the connection is neither committed, rolled back nor closed.
Release_Nothing(p) == UNCHANGED lock
Release(p) == lock' = [l \in Locks |-> IF lock[l] = p THEN None ELSE lock[l]]

\* INSERT INTO compression_history: the foreign keys hold or it raises.
InsertRow(h, u, above, n) ==
  /\ owner[h] = None
  /\ rows' = rows \cup {h}
  /\ owner' = [owner EXCEPT ![h] = u]
  /\ parent' = [parent EXCEPT ![h] = above]
  /\ bytes' = [bytes EXCEPT ![h] = n]
  /\ UNCHANGED <<users, art>>

\* Rows and, through ON DELETE CASCADE, the members of their archives.
Group(S) == S \cup {c \in Rows : parent[c] \in S}

\* DELETE FROM compression_history; the artifact rows cascade.
DeleteGroup(S) ==
  /\ rows' = rows \ Group(S)
  /\ art' = [h \in Rows |-> IF h \in Group(S) THEN None ELSE art[h]]
  /\ UNCHANGED <<users, owner, parent, bytes>>

\* artifact_store.delete: removing a file that is not there is no error.
Unlink(h) == file' = [file EXCEPT ![h] = "absent"]

Acked(h)     == [fate EXCEPT ![h] = IF @ = "open" THEN "acked" ELSE @]
Refused(h)   == [fate EXCEPT ![h] = IF @ = "open" THEN "refused" ELSE @]
Condemned(S) == [h \in Rows |-> IF h \in S THEN "condemned" ELSE fate[h]]

Goto(p, where) == pc' = [pc EXCEPT ![p] = where]
Finish(p)      == Goto(p, "idle") /\ job' = [job EXCEPT ![p] = NoJob]

(***************************************************************************)
(* Storing a result: _process_one, api_compress, api_archive_create        *)
(***************************************************************************)

\* The result is ready and _ensure_storage_capacity, which takes no lock,
\* lets it pass.  m > 0 members make it an archive.
BeginStore(p, u, n, m) ==
  /\ up /\ pc[p] = "idle"
  /\ u \in users
  /\ n <= Limit - UsedBy(u)
  /\ Goto(p, "admitted")
  /\ job' = [job EXCEPT ![p] = [NoJob EXCEPT !.user = u, !.size = n,
                                             !.left = m]]
  /\ UNCHANGED <<db, file, lock, up, fate, clean>>

AddHistory(p, h) ==
  /\ pc[p] = "admitted"
  /\ CanWrite(p)
  /\ job[p].user \in users
  /\ InsertRow(h, job[p].user, None, job[p].size)
  /\ Goto(p, "reserve")
  /\ job' = [job EXCEPT ![p].row = h]
  /\ UNCHANGED <<file, lock, up, fate, clean>>

\* The account is gone, or the database failed: nothing was written.
AddHistoryFails(p) ==
  /\ pc[p] = "admitted"
  /\ Finish(p)
  /\ UNCHANGED <<db, file, lock, up, fate, clean>>

\* storage_reservation: lock, then sum; over the limit, roll back at once.
Reserve(p) ==
  LET j == job[p] IN
  /\ pc[p] = "reserve"
  /\ Free(j.user)
  /\ IF bytes[j.row] <= Limit - UsedBy(j.user)
       THEN Acquire(p, j.user) /\ Goto(p, "write")
       ELSE Goto(p, "undo_quota") /\ UNCHANGED lock
  /\ UNCHANGED <<db, file, job, up, fate, clean>>

\* BEGIN IMMEDIATE gives up after the busy timeout, or the connection drops.
ReserveFails(p) ==
  /\ pc[p] = "reserve"
  /\ Goto(p, "undo")
  /\ UNCHANGED <<db, file, lock, job, up, fate, clean>>

\* artifact_store.write: a temporary file, synced, then renamed.
WriteTemporary(p) ==
  /\ pc[p] = "write"
  /\ file' = [file EXCEPT ![job[p].row] = "partial"]
  /\ Goto(p, "publish")
  /\ UNCHANGED <<db, lock, job, up, fate, clean>>

Publish(p) ==
  /\ pc[p] = "publish"
  /\ file' = [file EXCEPT ![job[p].row] = "intact"]
  /\ Goto(p, "commit")
  /\ UNCHANGED <<db, lock, job, up, fate, clean>>

\* Mutation: a failed write is tried again for as long as it fails.
WriteFails_Retry(p) ==
  /\ pc[p] \in {"write", "publish"}
  /\ Unlink(job[p].row)
  /\ Goto(p, "write")
  /\ UNCHANGED <<db, lock, job, up, fate, clean>>

\* The write raises: its finally clause removes the temporary file if it can,
\* the reservation rolls back, and the caller never learnt a key to delete.
WriteFails(p) ==
  /\ pc[p] \in {"write", "publish"}
  /\ \/ Unlink(job[p].row) /\ UNCHANGED clean
     \/ pc[p] = "publish" /\ UNCHANGED file /\ clean' = FALSE
  /\ Release(p)
  /\ Goto(p, "undo")
  /\ UNCHANGED <<db, job, up, fate>>

\* Mutation: the metadata is committed before the file is renamed.
Commit_Early(p) ==
  LET h == job[p].row IN
  /\ pc[p] \in {"publish", "commit"}
  /\ h \in rows
  /\ art' = [art EXCEPT ![h] = "verified"]
  /\ Release(p)
  /\ IF job[p].left = 0
       THEN Finish(p) /\ fate' = Acked(h)
       ELSE Goto(p, "member") /\ UNCHANGED <<job, fate>>
  /\ UNCHANGED <<users, rows, owner, parent, bytes, file, up, clean>>

\* add_stored_artifact and the reservation's commit.
Commit(p) ==
  LET h == job[p].row IN
  /\ pc[p] = "commit"
  /\ h \in rows
  /\ art' = [art EXCEPT ![h] = "verified"]
  /\ Release(p)
  /\ IF job[p].left = 0
       THEN Finish(p) /\ fate' = Acked(h)
       ELSE Goto(p, "member") /\ UNCHANGED <<job, fate>>
  /\ UNCHANGED <<users, rows, owner, parent, bytes, file, up, clean>>

\* Mutation: a refused insert is handled like a write that never happened.
InsertRefused_Forgets(p) ==
  /\ pc[p] = "commit"
  /\ job[p].row \notin rows
  /\ Release(p)
  /\ Goto(p, "undo")
  /\ UNCHANGED <<db, file, job, up, fate, clean>>

\* The history row was deleted meanwhile, so the foreign key fails ...
InsertRefused(p) ==
  /\ pc[p] = "commit"
  /\ job[p].row \notin rows
  /\ Release(p)
  /\ Goto(p, "undo_file")
  /\ UNCHANGED <<db, file, job, up, fate, clean>>

\* ... or the database fails; a lost connection may hide a commit that the
\* PostgreSQL server did make.
CommitFails(p) ==
  LET h == job[p].row IN
  /\ pc[p] = "commit"
  /\ \/ UNCHANGED art
     \/ /\ Backend = "postgres" /\ h \in rows
        /\ art' = [art EXCEPT ![h] = "verified"]
  /\ Release(p)
  /\ Goto(p, "undo_file")
  /\ UNCHANGED <<users, rows, owner, parent, bytes, file, job, up, fate,
                 clean>>

\* Mutation: the rows are rolled back and the file is forgotten.
UndoFile_Skips(p) ==
  /\ pc[p] = "undo_file"
  /\ Goto(p, "undo")
  /\ UNCHANGED <<db, file, lock, job, up, fate, clean>>

\* The except clause removes the file; a failure to do so is only logged.
UndoFile(p) ==
  /\ pc[p] = "undo_file"
  /\ \/ Unlink(job[p].row) /\ UNCHANGED clean
     \/ UNCHANGED file /\ clean' = FALSE
  /\ Goto(p, "undo")
  /\ UNCHANGED <<db, lock, job, up, fate>>

\* A generic exception leaves _persist_history_artifact into the handler of
\* api_archive_create, which cleans up once more; a compression just ends.
AfterUndo(p) == IF job[p].left > 0
                  THEN Goto(p, "archive_undo_file") /\ UNCHANGED job
                  ELSE Finish(p)

\* delete_history_group in either except clause.
Undo(p) ==
  /\ pc[p] \in {"undo", "undo_quota"}
  /\ CanWrite(p)
  /\ DeleteGroup({job[p].row})
  /\ IF pc[p] = "undo" THEN AfterUndo(p) ELSE Finish(p)
  /\ UNCHANGED <<file, lock, up, fate, clean>>

\* db_pg never rolls the request's connection back, so after a failed
\* statement PostgreSQL refuses every later one and the archive handler's
\* first query raises.
UndoFails(p) ==
  /\ pc[p] \in {"undo", "undo_quota"}
  /\ IF Backend = "postgres" THEN Finish(p) ELSE AfterUndo(p)
  /\ clean' = FALSE
  /\ UNCHANGED <<db, file, lock, up, fate>>

\* One child row per archive member, each committed on its own.
AddMember(p, c) ==
  LET j == job[p] IN
  /\ pc[p] = "member"
  /\ CanWrite(p)
  /\ j.row \in rows
  /\ InsertRow(c, j.user, j.row, 0)
  /\ IF j.left = 1
       THEN Finish(p) /\ fate' = Acked(j.row)
       ELSE job' = [job EXCEPT ![p].left = @ - 1] /\ UNCHANGED <<pc, fate>>
  /\ UNCHANGED <<file, lock, up, clean>>

\* On PostgreSQL the aborted connection ends the request here (see UndoFails).
\* On SQLite a refused foreign key leaves the implicit transaction open, and
\* with it the writer lock, until the handler commits or the request ends.
AddMemberFails(p) ==
  /\ pc[p] = "member"
  /\ fate' = Refused(job[p].row)
  /\ IF Backend = "postgres"
       THEN Finish(p)
       ELSE Goto(p, "archive_undo_file") /\ UNCHANGED job
  /\ \/ UNCHANGED lock
     \/ /\ Backend = "sqlite" /\ CanWrite(p)
        /\ job[p].row \notin rows
        /\ lock' = [lock EXCEPT !["db"] = p]
  /\ UNCHANGED <<db, file, up, clean>>

\* The archive handler swallows a failed delete and drops the rows anyway.
ArchiveUndoFile(p) ==
  LET h == job[p].row IN
  /\ pc[p] = "archive_undo_file"
  /\ IF art[h] = None
       THEN UNCHANGED <<file, clean>>
       ELSE \/ Unlink(h) /\ UNCHANGED clean
            \/ UNCHANGED file /\ clean' = FALSE
  /\ Goto(p, "archive_undo_row")
  /\ UNCHANGED <<db, lock, job, up, fate>>

\* Mutation: the failed archive is answered without dropping its rows.
ArchiveUndoRow_Keeps(p) ==
  /\ pc[p] = "archive_undo_row"
  /\ Finish(p)
  /\ Release(p)
  /\ UNCHANGED <<db, file, up, fate, clean>>

ArchiveUndoRow(p) ==
  /\ pc[p] = "archive_undo_row"
  /\ CanWrite(p)
  /\ DeleteGroup({job[p].row})
  /\ Finish(p)
  /\ Release(p)
  /\ UNCHANGED <<file, up, fate, clean>>

ArchiveUndoFails(p) ==
  /\ pc[p] \in {"archive_undo_file", "archive_undo_row"}
  /\ Finish(p)
  /\ Release(p)
  /\ clean' = FALSE
  /\ UNCHANGED <<db, file, up, fate>>

(***************************************************************************)
(* Reading and deleting a stored result: download_stored, delete_stored    *)
(***************************************************************************)

\* _authorized_artifact: the owner names a row that has an artifact.
Authorized(p, h) == /\ up /\ pc[p] = "idle"
                    /\ art[h] # None /\ owner[h] \in users

BeginDownload(p, h) ==
  /\ Authorized(p, h)
  /\ Goto(p, "read")
  /\ job' = [job EXCEPT ![p] = [NoJob EXCEPT !.user = owner[h], !.row = h]]
  /\ UNCHANGED <<db, file, lock, up, fate, clean>>

\* Mutation: every refused read is put down to a missing file.
ReadVerified_AllMissing(p) ==
  /\ pc[p] = "read"
  /\ job' = [job EXCEPT ![p].seen = IF file[job[p].row] = "intact"
                                     THEN "verified" ELSE "missing"]
  /\ Goto(p, "mark")
  /\ UNCHANGED <<db, file, lock, up, fate, clean>>

\* What read_verified, and artifact_store.exists when it refuses, can find: an
\* intact file that cannot be opened or read counts as corrupt, and any file as
\* missing when isfile cannot look at it.
Verdicts(h) ==
  (IF file[h] = "intact" THEN {"verified"} ELSE {}) \cup
  (IF Complete(h) THEN {"corrupt"} ELSE {"missing"}) \cup
  (IF StatFails THEN {"missing"} ELSE {})

ReadVerified(p) ==
  /\ pc[p] = "read"
  /\ \E verdict \in Verdicts(job[p].row) :
       job' = [job EXCEPT ![p].seen = verdict]
  /\ Goto(p, "mark")
  /\ UNCHANGED <<db, file, lock, up, fate, clean>>

\* set_artifact_integrity: updates whatever row is still there.
SetIntegrity(p) ==
  LET h == job[p].row IN
  /\ pc[p] = "mark"
  /\ CanWrite(p)
  /\ art' = [art EXCEPT ![h] = IF @ = None THEN None ELSE job[p].seen]
  /\ Finish(p)
  /\ UNCHANGED <<users, rows, owner, parent, bytes, file, lock, up, fate,
                 clean>>

SetIntegrityFails(p) ==
  /\ pc[p] = "mark"
  /\ Finish(p)
  /\ UNCHANGED <<db, file, lock, up, fate, clean>>

BeginDelete(p, h) ==
  /\ Authorized(p, h)
  /\ Goto(p, "delete_file")
  /\ job' = [job EXCEPT ![p] = [NoJob EXCEPT !.user = owner[h], !.row = h]]
  /\ fate' = Condemned({h})
  /\ UNCHANGED <<db, file, lock, up, clean>>

DeleteFile(p) ==
  /\ pc[p] = "delete_file"
  /\ Unlink(job[p].row)
  /\ Goto(p, "delete_row")
  /\ UNCHANGED <<db, lock, job, up, fate, clean>>

\* OSError: the row is kept and the owner is told.
DeleteFileFails(p) ==
  /\ pc[p] = "delete_file"
  /\ Finish(p)
  /\ UNCHANGED <<db, file, lock, up, fate, clean>>

DeleteRow(p) ==
  /\ pc[p] = "delete_row"
  /\ CanWrite(p)
  /\ DeleteGroup({h \in {job[p].row} : owner[h] = job[p].user})
  /\ Finish(p)
  /\ UNCHANGED <<file, lock, up, fate, clean>>

DeleteRowFails(p) ==
  /\ pc[p] = "delete_row"
  /\ Finish(p)
  /\ clean' = FALSE
  /\ UNCHANGED <<db, file, lock, up, fate>>

(***************************************************************************)
(* Retention: _prune_expired_artifacts, run before any request             *)
(***************************************************************************)
BeginPrune(p, expired) ==
  /\ up /\ pc[p] = "idle"
  /\ \A h \in expired : art[h] # None
  /\ Goto(p, "prune")
  /\ job' = [job EXCEPT ![p] = [NoJob EXCEPT !.todo = expired]]
  /\ fate' = Condemned(expired)
  /\ UNCHANGED <<db, file, lock, up, clean>>

PruneFile(p, h) ==
  /\ pc[p] = "prune"
  /\ h \in job[p].todo
  /\ Unlink(h)
  /\ Goto(p, "prune_row")
  /\ job' = [job EXCEPT ![p].todo = @ \ {h}, ![p].row = h]
  /\ UNCHANGED <<db, lock, up, fate, clean>>

\* A file that cannot be removed keeps its row for the next pass.
PruneSkip(p, h) ==
  /\ pc[p] = "prune"
  /\ h \in job[p].todo
  /\ job' = [job EXCEPT ![p].todo = @ \ {h}]
  /\ UNCHANGED <<db, file, lock, pc, up, fate, clean>>

\* The first DELETE opens the transaction, and takes SQLite's writer lock;
\* no deletion shows before the commit.
PruneRow(p) ==
  /\ pc[p] = "prune_row"
  /\ IF Backend = "sqlite"
       THEN lock["db"] \in {None, p} /\ lock' = [lock EXCEPT !["db"] = p]
       ELSE UNCHANGED lock
  /\ Goto(p, "prune")
  /\ job' = [job EXCEPT ![p].doomed = @ \cup {job[p].row}, ![p].row = None]
  /\ UNCHANGED <<db, file, up, fate, clean>>

PruneCommit(p) ==
  /\ pc[p] = "prune"
  /\ job[p].todo = {}
  /\ DeleteGroup(job[p].doomed)
  /\ Release(p)
  /\ Finish(p)
  /\ UNCHANGED <<file, up, fate, clean>>

\* Lock timeout or lost connection: closing the connection rolls back every
\* deletion of this pass, whose files are gone.
PruneFails(p) ==
  /\ pc[p] = "prune_row" \/ (pc[p] = "prune" /\ job[p].todo = {})
  /\ Release(p)
  /\ Finish(p)
  /\ clean' = FALSE
  /\ UNCHANGED <<db, file, up, fate>>

(***************************************************************************)
(* Account deletion: admin.delete_user under db.user_deletion_lock         *)
(***************************************************************************)
BeginDeleteUser(p, u) ==
  LET mine == Stored(u) IN
  /\ up /\ pc[p] = "idle"
  /\ u \in users
  /\ Free(u)
  /\ Acquire(p, u)
  /\ Goto(p, "close")
  /\ job' = [job EXCEPT ![p] = [NoJob EXCEPT !.user = u, !.todo = mine]]
  /\ fate' = Condemned({h \in Rows : owner[h] = u})
  /\ UNCHANGED <<db, file, up, clean>>

DeleteUserFile(p, h) ==
  /\ pc[p] = "close"
  /\ h \in job[p].todo
  /\ Unlink(h)
  /\ job' = [job EXCEPT ![p].todo = @ \ {h}]
  /\ UNCHANGED <<db, lock, pc, up, fate, clean>>

\* OSError on one file: the transaction rolls back and the account stays,
\* with rows whose files are already removed.
DeleteUserFails(p) ==
  /\ pc[p] = "close"
  /\ Release(p)
  /\ Finish(p)
  /\ clean' = FALSE
  /\ UNCHANGED <<db, file, up, fate>>

\* Mutation: stored_artifacts.user_id without ON DELETE CASCADE.
DeleteUser_NoCascade(p) ==
  LET u == job[p].user IN
  /\ pc[p] = "close"
  /\ job[p].todo = {}
  /\ users' = users \ {u}
  /\ rows' = rows \ {h \in Rows : owner[h] = u}
  /\ Release(p)
  /\ Finish(p)
  /\ UNCHANGED <<owner, parent, bytes, art, file, up, fate, clean>>

\* db.delete_user and the commit; every row of the account cascades.
DeleteUser(p) ==
  LET u == job[p].user
      mine == {h \in Rows : owner[h] = u} IN
  /\ pc[p] = "close"
  /\ job[p].todo = {}
  /\ users' = users \ {u}
  /\ rows' = rows \ mine
  /\ art' = [h \in Rows |-> IF h \in mine THEN None ELSE art[h]]
  /\ Release(p)
  /\ Finish(p)
  /\ UNCHANGED <<owner, parent, bytes, file, up, fate, clean>>

(***************************************************************************)
(* The environment: process death, the next start, a decaying disk         *)
(***************************************************************************)
Crash ==
  /\ up /\ up' = FALSE
  /\ lock' = [l \in Locks |-> None]
  /\ pc' = [p \in Procs |-> "idle"]
  /\ job' = [p \in Procs |-> NoJob]
  /\ clean' = (clean /\ \A p \in Procs : pc[p] = "idle")
  /\ UNCHANGED <<db, file, fate>>

\* create_app runs _reconcile_artifact_store before it serves: temporary
\* files older than an hour go, and rows are marked whose file isfile does not
\* see.
Boot ==
  /\ ~up /\ up' = TRUE
  /\ \E stale \in SUBSET {h \in Rows : file[h] = "partial"} :
       file' = [h \in Rows |-> IF h \in stale THEN "absent" ELSE file[h]]
  /\ \E unseen \in SUBSET {h \in Rows : StatFails \/ ~Complete(h)} :
       /\ \A h \in Rows : ~Complete(h) => h \in unseen
       /\ art' = [h \in Rows |-> IF art[h] # None /\ h \in unseen
                                   THEN "missing" ELSE art[h]]
  /\ UNCHANGED <<users, rows, owner, parent, bytes, lock, pc, job, fate,
                 clean>>

Rot(h) ==
  /\ file[h] = "intact"
  /\ file' = [file EXCEPT ![h] = "damaged"]
  /\ UNCHANGED <<db, lock, pc, job, up, fate, clean>>

(***************************************************************************)
(* The specification                                                       *)
(***************************************************************************)
Store(p) ==
  \/ \E h \in Rows : AddHistory(p, h) \/ AddMember(p, h)
  \/ AddHistoryFails(p) \/ Reserve(p) \/ ReserveFails(p)
  \/ WriteTemporary(p) \/ Publish(p) \/ WriteFails(p)
  \/ Commit(p) \/ InsertRefused(p) \/ CommitFails(p)
  \/ UndoFile(p) \/ Undo(p) \/ UndoFails(p)
  \/ AddMemberFails(p)
  \/ ArchiveUndoFile(p) \/ ArchiveUndoRow(p) \/ ArchiveUndoFails(p)

Download(p) == ReadVerified(p) \/ SetIntegrity(p) \/ SetIntegrityFails(p)

Delete(p) == \/ DeleteFile(p) \/ DeleteFileFails(p)
             \/ DeleteRow(p) \/ DeleteRowFails(p)

Prune(p) == \/ \E h \in Rows : PruneFile(p, h) \/ PruneSkip(p, h)
            \/ PruneRow(p) \/ PruneCommit(p) \/ PruneFails(p)

CloseAccount(p) == \/ \E h \in Rows : DeleteUserFile(p, h)
                   \/ DeleteUserFails(p) \/ DeleteUser(p)

\* What a request that has started does next.
Step(p) == Store(p) \/ Download(p) \/ Delete(p) \/ Prune(p) \/ CloseAccount(p)

Begin(p) ==
  \/ \E u \in Users, n \in Sizes, m \in 0 .. MaxMembers : BeginStore(p, u, n, m)
  \/ \E h \in Rows : BeginDownload(p, h) \/ BeginDelete(p, h)
  \/ \E expired \in SUBSET Rows \ {{}} : BeginPrune(p, expired)
  \/ \E u \in Users : BeginDeleteUser(p, u)

Environment == Crash \/ Boot \/ \E h \in Rows : Rot(h)

Next == (\E p \in Procs : Begin(p) \/ Step(p)) \/ Environment

Spec == Init /\ [][Next]_vars

(***************************************************************************)
(* Safety                                                                  *)
(***************************************************************************)
Quiet == \A p \in Procs : pc[p] = "idle"

\* However requests interleave, nobody's committed artifacts exceed the
\* per-user limit: storage_reservation sums and commits under one lock, and
\* the unlocked check before it decides nothing.
QuotaHeld == \A u \in Users : UsedBy(u) <= Limit

\* A result the client was told is stored keeps its rows and its whole file,
\* through failures of other requests and crashes, until a deletion,
\* retention or the closing of the account names it.
ResultsKept ==
  \A h \in Rows : fate[h] = "acked" =>
    h \in rows /\ art[h] # None /\ Complete(h)

\* Unless a clean-up step itself failed or a crash hit a request, an idle
\* service holds a file exactly for the rows that own one, no history row of
\* a store that failed, and no member without its archive.
NoResidue ==
  clean /\ Quiet => \A h \in Rows :
    /\ file[h] # "absent" <=> art[h] # None
    /\ h \in rows => IF parent[h] = None THEN art[h] # None
                                         ELSE parent[h] \in rows

\* What _persist_history_artifact and storage_reservation owe their owners on
\* either backend, as one property: the quota, the results and the clean-up.
StorageSound == QuotaHeld /\ ResultsKept /\ NoResidue

\* An archive reported as failed is gone, with its members, once the service
\* is idle, unless a clean-up step itself failed or a crash hit the request.
FailedArchiveGone ==
  clean /\ Quiet => \A h \in Rows : fate[h] = "refused" => h \notin rows

\* "missing" is only ever said of an artifact whose file is really not
\* there: as long as isfile can look, neither a download nor start-up
\* reconciliation condemns a live one.
MissingIsTrue ==
  ~StatFails => \A h \in Rows : art[h] = "missing" => ~Complete(h)

\* A closed account leaves no file behind, except in the hands of a request
\* that started before and will roll it back (the comment in admin.py).
ClosedAccount ==
  clean => \A h \in Rows :
    owner[h] \notin users \cup {None} /\ file[h] # "absent" =>
      \E p \in Procs : job[p].row = h /\ pc[p] \in Reserved \cup {"undo_file"}

\* db.delete_user drops an account only in a step where every artifact it
\* still owns has lost its file, even if other requests stored meanwhile.
FilesGoFirst ==
  [][\A u \in users \ users' : \A h \in Stored(u) : file[h] = "absent"]_vars

(***************************************************************************)
(* The promise to owners: committed artifact rows are a StorageLedger      *)
(***************************************************************************)
Ledger == INSTANCE StorageLedger WITH
  accounts <- users,
  ledger   <- [h \in Rows |-> IF art[h] = None THEN None
                              ELSE [owner |-> owner[h], size |-> bytes[h]]]

\* Every commit deposits within the quota of an existing account, and rows
\* leave by whole groups or with their account, in one step each.
KeepsLedger == Ledger!Spec

(***************************************************************************)
(* Liveness.  A handler runs until it ends: every statement returns or     *)
(* raises (SQLite's busy timeout bounds each wait for the writer lock), so *)
(* a started request always takes a next step.  Nothing else is fair.      *)
(***************************************************************************)
FairSpec == Spec /\ \A p \in Procs : WF_vars(Step(p))

\* Every request ends, whatever the others hold and however often they fail.
RequestsEnd == \A p \in Procs : []<>(pc[p] = "idle")

\* Every lock is let go again, on each of the paths that can leave the
\* transaction that took it.
LocksReleased == \A l \in Locks : []<>(lock[l] = None)

\* A store overtaken by the closing of its account removes its own file,
\* unless its clean-up fails or the service dies first: what a closed account
\* has left does not stay (closed accounts and their rows do not come back).
OvertakenStoreUndone == \A h \in Rows :
  []<>(clean => owner[h] \in users \cup {None} \/ file[h] = "absent")

=============================================================================
