---------------------------- MODULE RemoteStore ----------------------------
(***************************************************************************)
(* The remote result store, storage_supabase.py, under the requests of     *)
(* app.py that use it.  A result is one object under its key, or, when it  *)
(* is longer than _CHUNK_BYTES, a manifest under its key and its parts     *)
(* under names derived from it.  The bucket has no transactions: every     *)
(* call is one HTTP request that may fail, may fail after it took effect,  *)
(* or, when it removes several objects, may take effect in part.           *)
(*                                                                         *)
(* Abstractions.  Keys are fresh uuids, so each is put once.  Objects are  *)
(* never overwritten, so an object is present or absent, and a download    *)
(* that succeeds has the right digest.                                     *)
(***************************************************************************)
EXTENDS Integers, FiniteSets

CONSTANTS
  Keys,      \* storage keys
  Procs,     \* requests running at once
  MaxParts,  \* most parts of a result (bound)
  None

ASSUME PartsNatural   == MaxParts \in Nat
ASSUME NoneIsFresh    == None \notin Keys \cup {"verified", "missing", "corrupt"}
ASSUME NoneIsNoLength == None \notin 0 .. MaxParts

VARIABLES
  objects,  \* the bucket: <<key, 0>> the logical object, <<key, i>> part i
  length,   \* parts of the result a key was drawn for; None before that
  row,      \* integrity_status of the key's metadata row, None without one
  going,    \* history: keys some deletion was started for
  pc, job,  \* where each request is, and its local variables
  clean     \* history: no failed call had an effect, or hid one

vars == <<objects, length, row, going, pc, job, clean>>

Statuses == {"verified", "missing", "corrupt"}
Names    == Keys \X (0 .. MaxParts)

\* names: the objects a put has uploaded, or a delete is to remove.
\* next: the part a put or a get turns to.  seen: what a get found.
Job == [key : Keys \cup {None}, next : Nat, names : SUBSET Names,
        seen : Statuses \cup {None}]

NoJob == [key |-> None, next |-> 1, names |-> {}, seen |-> None]

Pcs == {"idle", "upload", "publish", "rollback", "commit", "undo_head",
        "undo_remove", "head", "remove", "drop", "get_head", "get_part",
        "exists", "mark"}

TypeOK ==
  /\ objects \in SUBSET Names
  /\ length \in [Keys -> (0 .. MaxParts) \cup {None}]
  /\ row \in [Keys -> Statuses \cup {None}]
  /\ going \in SUBSET Keys
  /\ pc \in [Procs -> Pcs]
  /\ job \in [Procs -> Job]
  /\ clean \in BOOLEAN

Init ==
  /\ objects = {}
  /\ length = [k \in Keys |-> None]
  /\ row = [k \in Keys |-> None]
  /\ going = {}
  /\ pc = [p \in Procs |-> "idle"]
  /\ job = [p \in Procs |-> NoJob]
  /\ clean = TRUE

(***************************************************************************)
(* Helpers                                                                 *)
(***************************************************************************)
Head(k)  == <<k, 0>>
Parts(k) == {k} \X (1 .. length[k])
Whole(k) == {Head(k)} \cup Parts(k)

Goto(p, where) == pc' = [pc EXCEPT ![p] = where]
Finish(p)      == Goto(p, "idle") /\ job' = [job EXCEPT ![p] = NoJob]

\* bucket.upload of one object: made, refused, or made but not confirmed.
Uploaded(n)     == objects' = objects \cup {n} /\ UNCHANGED clean
UploadFailed(n) == \/ UNCHANGED <<objects, clean>>
                   \/ objects' = objects \cup {n} /\ clean' = FALSE

\* bucket.remove of several: all of them, or an error after some of them.
Removed(names)      == objects' = objects \ names /\ UNCHANGED clean
RemoveFailed(names) == /\ \E some \in SUBSET names : objects' = objects \ some
                       /\ clean' = FALSE

(***************************************************************************)
(* put, called by artifact_store.write, and the commit that follows it     *)
(***************************************************************************)

\* One object for a short result, at least two parts for a long one.
BeginPut(p, k, n) ==
  /\ pc[p] = "idle"
  /\ length[k] = None
  /\ length' = [length EXCEPT ![k] = n]
  /\ job' = [job EXCEPT ![p] = [NoJob EXCEPT !.key = k]]
  /\ Goto(p, IF n = 0 THEN "publish" ELSE "upload")
  /\ UNCHANGED <<objects, row, going, clean>>

\* Mutation: the manifest goes first.
UploadPart_HeadFirst(p) ==
  LET k == job[p].key  i == job[p].next IN
  /\ pc[p] = "upload"
  /\ objects' = objects \cup {<<k, i>>, Head(k)} /\ UNCHANGED clean
  /\ job' = [job EXCEPT ![p].next = i + 1, ![p].names = @ \cup {<<k, i>>}]
  /\ IF i = length[k] THEN Goto(p, "publish") ELSE UNCHANGED pc
  /\ UNCHANGED <<length, row, going>>

UploadPart(p) ==
  LET k == job[p].key  i == job[p].next IN
  /\ pc[p] = "upload"
  /\ Uploaded(<<k, i>>)
  /\ job' = [job EXCEPT ![p].next = i + 1, ![p].names = @ \cup {<<k, i>>}]
  /\ IF i = length[k] THEN Goto(p, "publish") ELSE UNCHANGED pc
  /\ UNCHANGED <<length, row, going>>

\* The logical object goes last.
Publish(p) ==
  /\ pc[p] = "publish"
  /\ Uploaded(Head(job[p].key))
  /\ Goto(p, "commit")
  /\ UNCHANGED <<length, row, going, job>>

\* Mutation: the error is swallowed and the metadata is committed.
PutFails_Swallowed(p) ==
  /\ \/ pc[p] = "upload" /\ UploadFailed(<<job[p].key, job[p].next>>)
     \/ pc[p] = "publish" /\ UploadFailed(Head(job[p].key))
  /\ Goto(p, "commit")
  /\ UNCHANGED <<length, row, going, job>>

\* The upload raises, and put removes the parts it knows it has uploaded.
PutFails(p) ==
  /\ \/ pc[p] = "upload" /\ UploadFailed(<<job[p].key, job[p].next>>)
     \/ pc[p] = "publish" /\ UploadFailed(Head(job[p].key))
  /\ IF job[p].names = {} THEN Finish(p) ELSE Goto(p, "rollback") /\ UNCHANGED job
  /\ UNCHANGED <<length, row, going>>

\* A failure to roll back is only logged.
Rollback(p) ==
  /\ pc[p] = "rollback"
  /\ Removed(job[p].names) \/ RemoveFailed(job[p].names)
  /\ Finish(p)
  /\ UNCHANGED <<length, row, going>>

Commit(p) ==
  /\ pc[p] = "commit"
  /\ row' = [row EXCEPT ![job[p].key] = "verified"]
  /\ Finish(p)
  /\ UNCHANGED <<objects, length, going, clean>>

\* The insert fails: _persist_history_artifact deletes the result again.
CommitFails(p) ==
  /\ pc[p] = "commit"
  /\ Goto(p, "undo_head")
  /\ UNCHANGED <<objects, length, row, going, job, clean>>

(***************************************************************************)
(* delete, and the handlers that drop the metadata row after it            *)
(***************************************************************************)

\* delete_stored, retention and admin.delete_user all delete, then drop.
BeginDelete(p, k) ==
  /\ pc[p] = "idle"
  /\ row[k] # None
  /\ going' = going \cup {k}
  /\ job' = [job EXCEPT ![p] = [NoJob EXCEPT !.key = k]]
  /\ Goto(p, "head")
  /\ UNCHANGED <<objects, length, row, clean>>

\* What follows a delete, whatever it returned: its callers ignore that.
AfterDelete(p) == IF pc[p] \in {"undo_head", "undo_remove"}
                    THEN Finish(p)
                    ELSE Goto(p, "drop") /\ UNCHANGED job

\* Mutation: the parts are forgotten.
DeleteHead_KeyOnly(p) ==
  LET k == job[p].key IN
  /\ pc[p] \in {"head", "undo_head"}
  /\ Head(k) \in objects
  /\ job' = [job EXCEPT ![p].names = {Head(k)}]
  /\ Goto(p, IF pc[p] = "head" THEN "remove" ELSE "undo_remove")
  /\ UNCHANGED <<objects, length, row, going, clean>>

\* The logical object is read to learn how many parts there are.
DeleteHead(p) ==
  LET k == job[p].key IN
  /\ pc[p] \in {"head", "undo_head"}
  /\ Head(k) \in objects
  /\ job' = [job EXCEPT ![p].names = Whole(k)]
  /\ Goto(p, IF pc[p] = "head" THEN "remove" ELSE "undo_remove")
  /\ UNCHANGED <<objects, length, row, going, clean>>

\* return False: the object is gone, or any error at all while reading it.
DeleteHeadFails(p) ==
  /\ pc[p] \in {"head", "undo_head"}
  /\ clean' = (clean /\ Head(job[p].key) \notin objects)
  /\ AfterDelete(p)
  /\ UNCHANGED <<objects, length, row, going>>

DeleteRemove(p) ==
  /\ pc[p] \in {"remove", "undo_remove"}
  /\ Removed(job[p].names) \/ RemoveFailed(job[p].names)
  /\ AfterDelete(p)
  /\ UNCHANGED <<length, row, going>>

DropRow(p) ==
  /\ pc[p] = "drop"
  /\ row' = [row EXCEPT ![job[p].key] = None]
  /\ Finish(p)
  /\ UNCHANGED <<objects, length, going, clean>>

(***************************************************************************)
(* get, called by artifact_store.read_verified, and the recorded status    *)
(***************************************************************************)
BeginGet(p, k) ==
  /\ pc[p] = "idle"
  /\ row[k] # None
  /\ job' = [job EXCEPT ![p] = [NoJob EXCEPT !.key = k]]
  /\ Goto(p, "get_head")
  /\ UNCHANGED <<objects, length, row, going, clean>>

GetHead(p) ==
  LET k == job[p].key IN
  /\ pc[p] = "get_head"
  /\ Head(k) \in objects
  /\ IF length[k] = 0
       THEN job' = [job EXCEPT ![p].seen = "verified"] /\ Goto(p, "mark")
       ELSE UNCHANGED job /\ Goto(p, "get_part")
  /\ UNCHANGED <<objects, length, row, going, clean>>

GetPart(p) ==
  LET k == job[p].key  i == job[p].next IN
  /\ pc[p] = "get_part"
  /\ <<k, i>> \in objects
  /\ IF i = length[k]
       THEN job' = [job EXCEPT ![p].seen = "verified"] /\ Goto(p, "mark")
       ELSE job' = [job EXCEPT ![p].next = i + 1] /\ UNCHANGED pc
  /\ UNCHANGED <<objects, length, row, going, clean>>

\* A download fails: the object is gone, or cannot be reached.
GetFails(p) ==
  /\ pc[p] \in {"get_head", "get_part"}
  /\ Goto(p, "exists")
  /\ UNCHANGED <<objects, length, row, going, job, clean>>

\* Mutation: a failed download means the object is missing.
Exists_Assumed(p) ==
  /\ pc[p] = "exists"
  /\ job' = [job EXCEPT ![p].seen = "missing"]
  /\ Goto(p, "mark")
  /\ UNCHANGED <<objects, length, row, going, clean>>

\* exists() says False when the bucket cannot be asked.
Exists(p) ==
  LET there == Head(job[p].key) \in objects IN
  /\ pc[p] = "exists"
  /\ \/ /\ job' = [job EXCEPT ![p].seen = IF there THEN "corrupt" ELSE "missing"]
        /\ UNCHANGED clean
     \/ /\ there
        /\ job' = [job EXCEPT ![p].seen = "missing"]
        /\ clean' = FALSE
  /\ Goto(p, "mark")
  /\ UNCHANGED <<objects, length, row, going>>

SetIntegrity(p) ==
  LET k == job[p].key IN
  /\ pc[p] = "mark"
  /\ row' = [row EXCEPT ![k] = IF @ = None THEN None ELSE job[p].seen]
  /\ Finish(p)
  /\ UNCHANGED <<objects, length, going, clean>>

(***************************************************************************)
(* The environment                                                         *)
(***************************************************************************)

\* A process dies in the middle of a request.
Die(p) ==
  /\ pc[p] # "idle"
  /\ Finish(p)
  /\ clean' = FALSE
  /\ UNCHANGED <<objects, length, row, going>>

Put(p)    == \/ UploadPart(p) \/ Publish(p) \/ PutFails(p) \/ Rollback(p)
             \/ Commit(p) \/ CommitFails(p)
Delete(p) == DeleteHead(p) \/ DeleteHeadFails(p) \/ DeleteRemove(p) \/ DropRow(p)
Get(p)    == GetHead(p) \/ GetPart(p) \/ GetFails(p) \/ Exists(p) \/ SetIntegrity(p)

Next == \E p \in Procs :
  \/ \E k \in Keys : \/ \E n \in {0} \cup 2 .. MaxParts : BeginPut(p, k, n)
                     \/ BeginDelete(p, k) \/ BeginGet(p, k)
  \/ Put(p) \/ Delete(p) \/ Get(p) \/ Die(p)

Spec == Init /\ [][Next]_vars

(***************************************************************************)
(* Safety                                                                  *)
(***************************************************************************)
Quiet == \A p \in Procs : pc[p] = "idle"

\* A result with a metadata row has all its objects, through every failure
\* of other requests, until somebody starts to delete it.
SavedWhole ==
  \A k \in Keys : row[k] # None /\ k \notin going => Whole(k) \subseteq objects

\* As long as no failed call had an effect after all and no clean-up call
\* failed, the logical key shows only when all its parts are there ("Publish
\* the logical key last"), for list_keys, exists and downloads alike.
PublishedWhole ==
  clean => \A k \in Keys : Head(k) \in objects => Parts(k) \subseteq objects

\* No reader ever meets half a result: not under a row, and not under a
\* logical key that has no row yet.
StoredWhole == SavedWhole /\ PublishedWhole

\* ... and an idle store holds no object without a metadata row: a failed
\* put is rolled back, and a delete takes the parts along.
NoStrays ==
  clean /\ Quiet => \A n \in objects : row[n[1]] # None

\* A failed download alone never makes a result "missing": its logical object
\* really is gone, unless the question whether it exists failed as well.
MissingIsAbsent ==
  clean => \A k \in Keys : row[k] = "missing" => Head(k) \notin objects

\* "Deleting an account removes its stored blobs before the database row is
\* removed": once its row is gone, nothing of a stored result remains.
RowGoesLast ==
  [][\A k \in Keys : row[k] # None /\ row'[k] = None => objects \cap Whole(k) = {}]_vars

=============================================================================
