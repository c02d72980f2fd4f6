---------------------- MODULE ArtifactLifecycle_proofs ----------------------
(***************************************************************************)
(* Proofs about ArtifactLifecycle, for every number of accounts, requests, *)
(* sizes and members, for every quota and for both database backends: the  *)
(* quota; then that stored results are kept, that files go before rows,    *)
(* that clean-up leaves nothing behind, and that the whole implements      *)
(* StorageLedger.                                                          *)
(***************************************************************************)
EXTENDS ArtifactLifecycle, FiniteSetTheorems, TLAPS

(***************************************************************************)
(* Type correctness                                                        *)
(***************************************************************************)
LEMMA InitTypeOK == Init => TypeOK
  BY LimitNatural DEF Init, TypeOK, NoJob, Job, Pcs, Reserved, Files, Fates

\* TypeOK in three parts, so that a step is argued part by part.
DbOK  == /\ users \in SUBSET Users
         /\ rows \in SUBSET Rows
         /\ owner \in [Rows -> Users \cup {None}]
         /\ parent \in [Rows -> Rows \cup {None}]
         /\ bytes \in [Rows -> Nat]
         /\ art \in [Rows -> Statuses \cup {None}]
ReqOK == pc \in [Procs -> Pcs] /\ job \in [Procs -> Job]
EnvOK == /\ file \in [Rows -> Files]
         /\ lock \in [Locks -> Procs \cup {None}]
         /\ up \in BOOLEAN
         /\ fate \in [Rows -> Fates]
         /\ clean \in BOOLEAN

LEMMA Parts == TypeOK <=> DbOK /\ ReqOK /\ EnvOK
  BY DEF TypeOK, DbOK, ReqOK, EnvOK

LEMMA PartsPrime == DbOK' /\ ReqOK' /\ EnvOK' => TypeOK'
  BY DEF TypeOK, DbOK, ReqOK, EnvOK

\* What the database helpers preserve.
LEMMA InsertRowType ==
  ASSUME DbOK, NEW h \in Rows, NEW u \in Users, NEW a \in Rows \cup {None},
         NEW n \in Nat, InsertRow(h, u, a, n)
  PROVE  DbOK'
  BY DEF DbOK, InsertRow

LEMMA DeleteGroupType ==
  ASSUME DbOK, NEW S, DeleteGroup(S)
  PROVE  DbOK'
  BY DEF DbOK, DeleteGroup

LEMMA SameDb == ASSUME DbOK, UNCHANGED db PROVE DbOK'
  BY DEF DbOK, db

\* What moving a request does to its control state and its variables.
LEMMA NoJobType == NoJob \in Job
  BY DEF NoJob, Job

LEMMA FinishType ==
  ASSUME ReqOK, NEW p \in Procs, Finish(p)
  PROVE  ReqOK'
  BY NoJobType DEF ReqOK, Finish, Goto, Pcs

LEMMA StoreTypeOK ==
  ASSUME TypeOK, NEW p \in Procs, Store(p),
         pc[p] = "member" => job[p].left > 0
  PROVE  TypeOK'
<1>0. DbOK /\ ReqOK /\ EnvOK
  BY Parts
<1> USE DEF Pcs, Reserved
<1>1. ASSUME NEW h \in Rows, AddHistory(p, h) PROVE TypeOK'
  <2>1. job[p].user \in Users /\ job[p].size \in Nat
    BY <1>0, <1>1 DEF AddHistory, ReqOK, Job, DbOK
  <2>2. DbOK' BY <1>0, <1>1, <2>1, InsertRowType DEF AddHistory
  <2>3. job' \in [Procs -> Job] BY <1>0, <1>1 DEF AddHistory, ReqOK, Job
  <2>4. ReqOK' BY <1>0, <1>1, <2>3 DEF AddHistory, ReqOK, Goto
  <2>5. EnvOK' BY <1>0, <1>1 DEF AddHistory, EnvOK
  <2>6. QED BY <2>2, <2>4, <2>5, PartsPrime
<1>2. ASSUME NEW c \in Rows, AddMember(p, c) PROVE TypeOK'
  <2>1. /\ job[p] \in Job /\ job[p].user \in Users \cup {None}
        /\ job[p].row \in Rows \cup {None} /\ job[p].left \in Nat \ {0}
    BY <1>0, <1>2 DEF AddMember, ReqOK, Job
  <2>2. DbOK' BY <1>0, <1>2, <2>1 DEF AddMember, DbOK, InsertRow
  <2>3. CASE job[p].left = 1
    <3>1. Finish(p) /\ fate' = Acked(job[p].row)
      BY <1>2, <2>3 DEF AddMember
    <3>2. ReqOK' BY <1>0, <3>1, FinishType
    <3>3. EnvOK' BY <1>0, <1>2, <3>1 DEF AddMember, EnvOK, Acked, Fates
    <3>4. QED BY <2>2, <3>2, <3>3, PartsPrime
  <2>4. CASE job[p].left # 1
    <3>1. job' = [job EXCEPT ![p].left = @ - 1] /\ UNCHANGED <<pc, fate>>
      BY <1>2, <2>4 DEF AddMember
    <3>2. job[p].left - 1 \in Nat BY <2>1
    <3>3. job' \in [Procs -> Job] BY <1>0, <2>1, <3>1, <3>2 DEF ReqOK, Job
    <3>4. ReqOK' BY <1>0, <3>1, <3>3 DEF ReqOK
    <3>5. EnvOK' BY <1>0, <1>2, <3>1 DEF AddMember, EnvOK
    <3>6. QED BY <2>2, <3>4, <3>5, PartsPrime
  <2>5. QED BY <2>3, <2>4
<1>3. CASE AddHistoryFails(p)
  BY <1>0, <1>3, SameDb, FinishType, PartsPrime DEF AddHistoryFails, EnvOK
<1>4. CASE Reserve(p)
  BY <1>4, LimitNatural DEF Reserve, Acquire, Locks, LockOf, Goto, TypeOK, db
<1>5. CASE ReserveFails(p)
  BY <1>5 DEF ReserveFails, TypeOK, Goto, db
<1>6. CASE WriteTemporary(p)
  BY <1>6 DEF WriteTemporary, TypeOK, Goto, Files, db
<1>7. CASE Publish(p)
  BY <1>7 DEF Publish, TypeOK, Goto, Files, db
<1>8. CASE WriteFails(p)
  BY <1>8 DEF WriteFails, Release, Unlink, TypeOK, Goto, Files, db
<1>9. CASE Commit(p)
  <2>1. DbOK' BY <1>0, <1>9 DEF Commit, DbOK, Statuses
  <2>2. ReqOK'
    <3>1. CASE job[p].left = 0
      BY <1>0, <1>9, <3>1, FinishType DEF Commit
    <3>2. CASE job[p].left # 0
      BY <1>0, <1>9, <3>2 DEF Commit, ReqOK, Goto
    <3>3. QED BY <3>1, <3>2
  <2>3. EnvOK' BY <1>0, <1>9 DEF Commit, EnvOK, Release, Acked, Fates
  <2>4. QED BY <2>1, <2>2, <2>3, PartsPrime
<1>10. CASE InsertRefused(p)
  BY <1>10 DEF InsertRefused, Release, TypeOK, Goto, db
<1>11. CASE CommitFails(p)
  <2>1. DbOK' BY <1>0, <1>11 DEF CommitFails, DbOK, Statuses
  <2>2. ReqOK' BY <1>0, <1>11 DEF CommitFails, ReqOK, Goto
  <2>3. EnvOK' BY <1>0, <1>11 DEF CommitFails, EnvOK, Release
  <2>4. QED BY <2>1, <2>2, <2>3, PartsPrime
<1>12. CASE UndoFile(p)
  BY <1>12 DEF UndoFile, Unlink, TypeOK, Goto, Files, db
<1>13. CASE Undo(p)
  <2>1. DbOK' BY <1>0, <1>13, DeleteGroupType DEF Undo
  <2>2. ReqOK' BY <1>0, <1>13, FinishType DEF Undo, AfterUndo, ReqOK, Goto
  <2>3. EnvOK' BY <1>0, <1>13 DEF Undo, EnvOK
  <2>4. QED BY <2>1, <2>2, <2>3, PartsPrime
<1>14. CASE UndoFails(p)
  <2>1. DbOK' BY <1>0, <1>14, SameDb DEF UndoFails
  <2>2. ReqOK' BY <1>0, <1>14, FinishType DEF UndoFails, AfterUndo, ReqOK, Goto
  <2>3. EnvOK' BY <1>0, <1>14 DEF UndoFails, EnvOK
  <2>4. QED BY <2>1, <2>2, <2>3, PartsPrime
<1>15. CASE AddMemberFails(p)
  <2>1. DbOK' BY <1>0, <1>15, SameDb DEF AddMemberFails
  <2>2. ReqOK' BY <1>0, <1>15, FinishType DEF AddMemberFails, ReqOK, Goto
  <2>3. EnvOK' BY <1>0, <1>15 DEF AddMemberFails, EnvOK, Refused, Fates
  <2>4. QED BY <2>1, <2>2, <2>3, PartsPrime
<1>16. CASE ArchiveUndoFile(p)
  BY <1>16 DEF ArchiveUndoFile, Unlink, TypeOK, Goto, Files, db
<1>17. CASE ArchiveUndoRow(p)
  BY <1>0, <1>17, DeleteGroupType, FinishType, PartsPrime
     DEF ArchiveUndoRow, Release, EnvOK
<1>18. CASE ArchiveUndoFails(p)
  BY <1>0, <1>18, SameDb, FinishType, PartsPrime
     DEF ArchiveUndoFails, Release, EnvOK
<1>19. QED
  BY <1>1, <1>2, <1>3, <1>4, <1>5, <1>6, <1>7, <1>8, <1>9, <1>10, <1>11,
     <1>12, <1>13, <1>14, <1>15, <1>16, <1>17, <1>18 DEF Store

\* A step of request p leaves the other requests and their locks alone, and
\* never relabels a row.
Frame(p) ==
  /\ \A q \in Procs \ {p} :
       /\ pc'[q] = pc[q]
       /\ job'[q] = job[q]
       /\ \A l \in Locks : lock[l] = q => lock'[l] = q
  /\ \A h \in Rows : owner[h] # None => owner'[h] = owner[h] /\ bytes'[h] = bytes[h]

LEMMA StoreFrame ==
  ASSUME TypeOK, NEW p \in Procs, Store(p)
  PROVE  Frame(p)
<1> USE DEF TypeOK, Frame, Goto, Finish, db
<1>1. ASSUME NEW h \in Rows, AddHistory(p, h) PROVE Frame(p)
  BY <1>1 DEF AddHistory, InsertRow
<1>2. ASSUME NEW c \in Rows, AddMember(p, c) PROVE Frame(p)
  BY <1>2 DEF AddMember, InsertRow
<1>3. CASE AddHistoryFails(p) BY <1>3 DEF AddHistoryFails
<1>4. CASE Reserve(p) BY <1>4, NoneIsFresh DEF Reserve, Acquire, Free, Locks, LockOf
<1>5. CASE ReserveFails(p) BY <1>5 DEF ReserveFails
<1>6. CASE WriteTemporary(p) BY <1>6 DEF WriteTemporary
<1>7. CASE Publish(p) BY <1>7 DEF Publish
<1>8. CASE WriteFails(p) BY <1>8 DEF WriteFails, Release
<1>9. CASE Commit(p) BY <1>9 DEF Commit, Release
<1>10. CASE InsertRefused(p) BY <1>10 DEF InsertRefused, Release
<1>11. CASE CommitFails(p) BY <1>11 DEF CommitFails, Release
<1>12. CASE UndoFile(p) BY <1>12 DEF UndoFile
<1>13. CASE Undo(p) BY <1>13 DEF Undo, DeleteGroup, AfterUndo
<1>14. CASE UndoFails(p) BY <1>14 DEF UndoFails, AfterUndo
<1>15. CASE AddMemberFails(p)
  BY <1>15, NoneIsFresh DEF AddMemberFails, CanWrite, Locks
<1>16. CASE ArchiveUndoFile(p) BY <1>16 DEF ArchiveUndoFile
<1>17. CASE ArchiveUndoRow(p) BY <1>17 DEF ArchiveUndoRow, DeleteGroup, Release
<1>18. CASE ArchiveUndoFails(p) BY <1>18 DEF ArchiveUndoFails, Release
<1>19. QED
  BY <1>1, <1>2, <1>3, <1>4, <1>5, <1>6, <1>7, <1>8, <1>9, <1>10, <1>11,
     <1>12, <1>13, <1>14, <1>15, <1>16, <1>17, <1>18 DEF Store

LEMMA DownloadTypeOK ==
  ASSUME TypeOK, NEW p \in Procs, Download(p)
  PROVE  TypeOK' /\ Frame(p)
<1>0. DbOK /\ ReqOK /\ EnvOK
  BY Parts
<1>1. CASE ReadVerified(p)
  <2>1. job' \in [Procs -> Job]
    <3>1. \E s \in Statuses : job' = [job EXCEPT ![p].seen = s]
      BY <1>1 DEF ReadVerified, Verdicts, Statuses
    <3>2. QED BY <1>0, <3>1 DEF ReqOK, Job
  <2>2. ReqOK' BY <1>0, <1>1, <2>1 DEF ReadVerified, ReqOK, Goto, Pcs
  <2>3. DbOK' /\ EnvOK' BY <1>0, <1>1, SameDb DEF ReadVerified, EnvOK
  <2>4. Frame(p) BY <1>0, <1>1 DEF ReadVerified, Frame, Goto, ReqOK, db
  <2>5. QED BY <2>2, <2>3, <2>4, PartsPrime
<1>2. CASE SetIntegrity(p)
  <2>1. job[p].seen \in Statuses \cup {None}
    BY <1>0 DEF ReqOK, Job
  <2>2. DbOK' BY <1>0, <1>2, <2>1 DEF SetIntegrity, DbOK
  <2>3. ReqOK' /\ EnvOK' BY <1>0, <1>2, FinishType DEF SetIntegrity, EnvOK
  <2>4. Frame(p) BY <1>0, <1>2 DEF SetIntegrity, Frame, Finish, Goto, ReqOK
  <2>5. QED BY <2>2, <2>3, <2>4, PartsPrime
<1>3. CASE SetIntegrityFails(p)
  <2>1. DbOK' /\ ReqOK' /\ EnvOK'
    BY <1>0, <1>3, SameDb, FinishType DEF SetIntegrityFails, EnvOK
  <2>2. Frame(p)
    BY <1>0, <1>3 DEF SetIntegrityFails, Frame, Finish, Goto, ReqOK, db
  <2>3. QED BY <2>1, <2>2, PartsPrime
<1>4. QED BY <1>1, <1>2, <1>3 DEF Download

LEMMA DeleteTypeOK ==
  ASSUME TypeOK, NEW p \in Procs, Delete(p)
  PROVE  TypeOK' /\ Frame(p)
<1>0. DbOK /\ ReqOK /\ EnvOK
  BY Parts
<1>1. CASE DeleteFile(p)
  <2>1. DbOK' BY <1>0, <1>1, SameDb DEF DeleteFile
  <2>2. ReqOK' BY <1>0, <1>1 DEF DeleteFile, ReqOK, Goto, Pcs
  <2>3. EnvOK' BY <1>0, <1>1 DEF DeleteFile, EnvOK, Unlink, Files
  <2>4. Frame(p) BY <1>0, <1>1 DEF DeleteFile, Frame, Goto, ReqOK, db
  <2>5. QED BY <2>1, <2>2, <2>3, <2>4, PartsPrime
<1>2. CASE DeleteFileFails(p) \/ DeleteRowFails(p)
  <2>1. DbOK' /\ ReqOK' /\ EnvOK'
    BY <1>0, <1>2, SameDb, FinishType DEF DeleteFileFails, DeleteRowFails, EnvOK
  <2>2. Frame(p)
    BY <1>0, <1>2
       DEF DeleteFileFails, DeleteRowFails, Frame, Finish, Goto, ReqOK, db
  <2>3. QED BY <2>1, <2>2, PartsPrime
<1>3. CASE DeleteRow(p)
  <2>1. DbOK' BY <1>0, <1>3, DeleteGroupType DEF DeleteRow
  <2>2. ReqOK' /\ EnvOK' BY <1>0, <1>3, FinishType DEF DeleteRow, EnvOK
  <2>3. Frame(p)
    BY <1>0, <1>3 DEF DeleteRow, DeleteGroup, Frame, Finish, Goto, ReqOK
  <2>4. QED BY <2>1, <2>2, <2>3, PartsPrime
<1>4. QED BY <1>1, <1>2, <1>3 DEF Delete

LEMMA PruneTypeOK ==
  ASSUME TypeOK, NEW p \in Procs, Prune(p),
         pc[p] = "prune_row" => job[p].row \in Rows
  PROVE  TypeOK' /\ Frame(p)
<1>0. DbOK /\ ReqOK /\ EnvOK
  BY Parts
<1>1. ASSUME NEW h \in Rows, PruneFile(p, h) PROVE TypeOK' /\ Frame(p)
  <2>1. job' \in [Procs -> Job]
    <3> DEFINE j == [job[p] EXCEPT !.todo = job[p].todo \ {h}, !.row = h]
    <3>1. job[p] \in Job /\ job \in [Procs -> Job]
      BY <1>0 DEF ReqOK
    <3>2. j \in Job BY <3>1 DEF Job
    <3>3. job' = [job EXCEPT ![p] = j] BY <1>1, <3>1 DEF PruneFile
    <3> HIDE DEF j
    <3>4. QED BY <3>1, <3>2, <3>3
  <2>2. ReqOK' BY <1>0, <1>1, <2>1 DEF PruneFile, ReqOK, Goto, Pcs
  <2>3. DbOK' BY <1>0, <1>1, SameDb DEF PruneFile
  <2>4. EnvOK' BY <1>0, <1>1 DEF PruneFile, EnvOK, Unlink, Files
  <2>5. Frame(p) BY <1>0, <1>1 DEF PruneFile, Frame, Goto, ReqOK, db
  <2>6. QED BY <2>2, <2>3, <2>4, <2>5, PartsPrime
<1>2. ASSUME NEW h \in Rows, PruneSkip(p, h) PROVE TypeOK' /\ Frame(p)
  <2>1. ReqOK' BY <1>0, <1>2 DEF PruneSkip, ReqOK, Job
  <2>2. DbOK' BY <1>0, <1>2, SameDb DEF PruneSkip
  <2>3. EnvOK' BY <1>0, <1>2 DEF PruneSkip, EnvOK
  <2>4. Frame(p) BY <1>0, <1>2 DEF PruneSkip, Frame, ReqOK, db
  <2>5. QED BY <2>1, <2>2, <2>3, <2>4, PartsPrime
<1>3. CASE PruneRow(p)
  <2>1. job' \in [Procs -> Job]
    <3>1. job[p] \in Job /\ job[p].row \in Rows
      BY <1>0, <1>3 DEF PruneRow, ReqOK
    <3>2. QED BY <1>0, <1>3, <3>1 DEF PruneRow, ReqOK, Job
  <2>2. ReqOK' BY <1>0, <1>3, <2>1 DEF PruneRow, ReqOK, Goto, Pcs
  <2>3. DbOK' BY <1>0, <1>3, SameDb DEF PruneRow
  <2>4. EnvOK' BY <1>0, <1>3 DEF PruneRow, EnvOK, Locks
  <2>5. Frame(p)
    BY <1>0, <1>3, NoneIsFresh DEF PruneRow, Frame, Goto, ReqOK, EnvOK, Locks, db
  <2>6. QED BY <2>2, <2>3, <2>4, <2>5, PartsPrime
<1>4. CASE PruneCommit(p)
  <2>1. DbOK' BY <1>0, <1>4, DeleteGroupType DEF PruneCommit
  <2>2. ReqOK' /\ EnvOK'
    BY <1>0, <1>4, FinishType DEF PruneCommit, EnvOK, Release
  <2>3. Frame(p)
    BY <1>0, <1>4
       DEF PruneCommit, DeleteGroup, Frame, Finish, Goto, Release, ReqOK
  <2>4. QED BY <2>1, <2>2, <2>3, PartsPrime
<1>5. CASE PruneFails(p)
  <2>1. DbOK' /\ ReqOK' /\ EnvOK'
    BY <1>0, <1>5, SameDb, FinishType DEF PruneFails, EnvOK, Release
  <2>2. Frame(p)
    BY <1>0, <1>5 DEF PruneFails, Frame, Finish, Goto, Release, ReqOK, db
  <2>3. QED BY <2>1, <2>2, PartsPrime
<1>6. QED BY <1>1, <1>2, <1>3, <1>4, <1>5 DEF Prune

LEMMA CloseTypeOK ==
  ASSUME TypeOK, NEW p \in Procs, CloseAccount(p)
  PROVE  TypeOK' /\ Frame(p)
<1>0. DbOK /\ ReqOK /\ EnvOK
  BY Parts
<1>1. ASSUME NEW h \in Rows, DeleteUserFile(p, h) PROVE TypeOK' /\ Frame(p)
  <2>1. ReqOK' BY <1>0, <1>1 DEF DeleteUserFile, ReqOK, Job
  <2>2. DbOK' BY <1>0, <1>1, SameDb DEF DeleteUserFile
  <2>3. EnvOK' BY <1>0, <1>1 DEF DeleteUserFile, EnvOK, Unlink, Files
  <2>4. Frame(p) BY <1>0, <1>1 DEF DeleteUserFile, Frame, ReqOK, db
  <2>5. QED BY <2>1, <2>2, <2>3, <2>4, PartsPrime
<1>2. CASE DeleteUserFails(p)
  <2>1. DbOK' /\ ReqOK' /\ EnvOK'
    BY <1>0, <1>2, SameDb, FinishType DEF DeleteUserFails, EnvOK, Release
  <2>2. Frame(p)
    BY <1>0, <1>2 DEF DeleteUserFails, Frame, Finish, Goto, Release, ReqOK, db
  <2>3. QED BY <2>1, <2>2, PartsPrime
<1>3. CASE DeleteUser(p)
  <2>1. DbOK' BY <1>0, <1>3 DEF DeleteUser, DbOK
  <2>2. ReqOK' /\ EnvOK'
    BY <1>0, <1>3, FinishType DEF DeleteUser, EnvOK, Release
  <2>3. Frame(p)
    BY <1>0, <1>3 DEF DeleteUser, Frame, Finish, Goto, Release, ReqOK
  <2>4. QED BY <2>1, <2>2, <2>3, PartsPrime
<1>4. QED BY <1>1, <1>2, <1>3 DEF CloseAccount

LEMMA BeginTypeOK ==
  ASSUME TypeOK, NEW p \in Procs, Begin(p)
  PROVE  TypeOK' /\ Frame(p)
<1>0. DbOK /\ ReqOK /\ EnvOK
  BY Parts
<1>1. ASSUME NEW u \in Users, NEW n \in Sizes, NEW m \in 0 .. MaxMembers,
             BeginStore(p, u, n, m)
      PROVE  TypeOK' /\ Frame(p)
  <2>1. n \in Nat /\ m \in Nat BY SizesNatural, LimitNatural
  <2>2. job' \in [Procs -> Job]
    BY <1>0, <1>1, <2>1 DEF BeginStore, ReqOK, Job, NoJob
  <2>3. ReqOK' BY <1>0, <1>1, <2>2 DEF BeginStore, ReqOK, Goto, Pcs
  <2>4. DbOK' /\ EnvOK' BY <1>0, <1>1, SameDb DEF BeginStore, EnvOK
  <2>5. Frame(p) BY <1>0, <1>1 DEF BeginStore, Frame, Goto, ReqOK, db
  <2>6. QED BY <2>3, <2>4, <2>5, PartsPrime
<1>2. ASSUME NEW h \in Rows, BeginDownload(p, h) PROVE TypeOK' /\ Frame(p)
  <2>1. owner[h] \in Users BY <1>0, <1>2 DEF BeginDownload, Authorized, DbOK
  <2>2. job' \in [Procs -> Job]
    BY <1>0, <1>2, <2>1 DEF BeginDownload, ReqOK, Job, NoJob
  <2>3. ReqOK' BY <1>0, <1>2, <2>2 DEF BeginDownload, ReqOK, Goto, Pcs
  <2>4. DbOK' /\ EnvOK' BY <1>0, <1>2, SameDb DEF BeginDownload, EnvOK
  <2>5. Frame(p) BY <1>0, <1>2 DEF BeginDownload, Frame, Goto, ReqOK, db
  <2>6. QED BY <2>3, <2>4, <2>5, PartsPrime
<1>3. ASSUME NEW h \in Rows, BeginDelete(p, h) PROVE TypeOK' /\ Frame(p)
  <2>1. owner[h] \in Users BY <1>0, <1>3 DEF BeginDelete, Authorized, DbOK
  <2>2. job' \in [Procs -> Job]
    BY <1>0, <1>3, <2>1 DEF BeginDelete, ReqOK, Job, NoJob
  <2>3. ReqOK' BY <1>0, <1>3, <2>2 DEF BeginDelete, ReqOK, Goto, Pcs
  <2>4. DbOK' BY <1>0, <1>3, SameDb DEF BeginDelete
  <2>5. EnvOK' BY <1>0, <1>3 DEF BeginDelete, EnvOK, Condemned, Fates
  <2>6. Frame(p) BY <1>0, <1>3 DEF BeginDelete, Frame, Goto, ReqOK, db
  <2>7. QED BY <2>3, <2>4, <2>5, <2>6, PartsPrime
<1>4. ASSUME NEW S \in SUBSET Rows, BeginPrune(p, S) PROVE TypeOK' /\ Frame(p)
  <2>1. job' \in [Procs -> Job]
    BY <1>0, <1>4 DEF BeginPrune, ReqOK, Job, NoJob
  <2>2. ReqOK' BY <1>0, <1>4, <2>1 DEF BeginPrune, ReqOK, Goto, Pcs
  <2>3. DbOK' BY <1>0, <1>4, SameDb DEF BeginPrune
  <2>4. EnvOK' BY <1>0, <1>4 DEF BeginPrune, EnvOK, Condemned, Fates
  <2>5. Frame(p) BY <1>0, <1>4 DEF BeginPrune, Frame, Goto, ReqOK, db
  <2>6. QED BY <2>2, <2>3, <2>4, <2>5, PartsPrime
<1>5. ASSUME NEW u \in Users, BeginDeleteUser(p, u) PROVE TypeOK' /\ Frame(p)
  <2>1. Stored(u) \in SUBSET Rows BY DEF Stored
  <2>2. job' \in [Procs -> Job]
    BY <1>0, <1>5, <2>1 DEF BeginDeleteUser, ReqOK, Job, NoJob
  <2>3. ReqOK' BY <1>0, <1>5, <2>2 DEF BeginDeleteUser, ReqOK, Goto, Pcs
  <2>4. DbOK' BY <1>0, <1>5, SameDb DEF BeginDeleteUser
  <2>5. EnvOK'
    BY <1>0, <1>5 DEF BeginDeleteUser, EnvOK, Acquire, Condemned, Fates
  <2>6. Frame(p)
    BY <1>0, <1>5, NoneIsFresh
       DEF BeginDeleteUser, Frame, Goto, Acquire, Free, ReqOK, EnvOK, db
  <2>7. QED BY <2>3, <2>4, <2>5, <2>6, PartsPrime
<1>6. QED BY <1>1, <1>2, <1>3, <1>4, <1>5 DEF Begin

LEMMA EnvironmentTypeOK ==
  ASSUME TypeOK, Environment
  PROVE  TypeOK'
<1>0. DbOK /\ ReqOK /\ EnvOK
  BY Parts
<1>1. CASE Crash
  <2>1. DbOK' BY <1>0, <1>1, SameDb DEF Crash
  <2>2. ReqOK' BY <1>1, NoJobType DEF Crash, ReqOK, Pcs
  <2>3. EnvOK' BY <1>0, <1>1 DEF Crash, EnvOK
  <2>4. QED BY <2>1, <2>2, <2>3, PartsPrime
<1>2. CASE Boot
  <2>1. DbOK' BY <1>0, <1>2 DEF Boot, DbOK, Statuses
  <2>2. ReqOK' BY <1>0, <1>2 DEF Boot, ReqOK
  <2>3. EnvOK' BY <1>0, <1>2 DEF Boot, EnvOK, Files
  <2>4. QED BY <2>1, <2>2, <2>3, PartsPrime
<1>3. ASSUME NEW h \in Rows, Rot(h) PROVE TypeOK'
  BY <1>3 DEF Rot, TypeOK, Files, db
<1>4. QED BY <1>1, <1>2, <1>3 DEF Environment

(***************************************************************************)
(* Counting stored bytes                                                   *)
(***************************************************************************)

\* Finitely many rows of finite length hold finitely many bytes.
LEMMA BytesFinite ==
  ASSUME NEW S \in SUBSET Rows, NEW b \in [Rows -> Nat]
  PROVE  IsFiniteSet(BytesOf(S, b))
<1> DEFINE piece(h) == {h} \X (1 .. b[h])
           pieces   == {piece(h) : h \in S}
           f        == [h \in S |-> piece(h)]
<1>1. IsFiniteSet(S)
  BY RowsFinite, FS_Subset
<1>2. f \in Surjection(S, pieces)
  BY DEF Surjection
<1>3. IsFiniteSet(pieces)
  BY <1>1, <1>2, FS_Surjection
<1>4. \A T \in pieces : IsFiniteSet(T)
  <2> SUFFICES ASSUME NEW h \in S PROVE IsFiniteSet(piece(h))
    OBVIOUS
  <2>1. b[h] \in Int /\ 1 \in Int
    OBVIOUS
  <2>2. IsFiniteSet(1 .. b[h])
    BY <2>1, FS_Interval
  <2>3. IsFiniteSet({h})
    BY FS_Singleton
  <2>4. QED BY <2>2, <2>3, FS_Product
<1>5. QED BY <1>3, <1>4, FS_UNION DEF BytesOf

\* One row holds as many bytes as its length says.
LEMMA BytesOfOne ==
  ASSUME NEW h \in Rows, NEW b \in [Rows -> Nat]
  PROVE  Cardinality(BytesOf({h}, b)) = b[h]
<1>1. BytesOf({h}, b) = {h} \X (1 .. b[h])
  BY DEF BytesOf
<1>2. b[h] \in Nat /\ b[h] \in Int /\ 1 \in Int
  OBVIOUS
<1>3. IsFiniteSet(1 .. b[h]) /\ Cardinality(1 .. b[h]) = b[h]
  BY <1>2, FS_Interval
<1>4. IsFiniteSet({h}) /\ Cardinality({h}) = 1
  BY FS_Singleton
<1>5. Cardinality({h} \X (1 .. b[h])) = 1 * b[h]
  BY <1>3, <1>4, FS_Product
<1>6. 1 * b[h] = b[h]
  BY <1>2
<1>7. QED BY <1>1, <1>5, <1>6

\* Dropping rows, or relabelling rows that are not counted, adds no bytes.
LEMMA BytesShrink ==
  ASSUME NEW S \in SUBSET Rows, NEW T \in SUBSET S,
         NEW b \in [Rows -> Nat], NEW c \in [Rows -> Nat],
         \A h \in T : c[h] = b[h]
  PROVE  /\ Cardinality(BytesOf(S, b)) \in Nat
         /\ Cardinality(BytesOf(T, c)) \in Nat
         /\ Cardinality(BytesOf(T, c)) <= Cardinality(BytesOf(S, b))
<1>1. IsFiniteSet(BytesOf(S, b))
  BY BytesFinite
<1>2. BytesOf(T, c) \subseteq BytesOf(S, b)
  BY DEF BytesOf
<1>3. IsFiniteSet(BytesOf(T, c))
      /\ Cardinality(BytesOf(T, c)) <= Cardinality(BytesOf(S, b))
  BY <1>1, <1>2, FS_Subset
<1>4. QED BY <1>1, <1>3, FS_CardinalityType

\* One more row adds at most its length.
LEMMA BytesGrow ==
  ASSUME NEW S \in SUBSET Rows, NEW h \in Rows, NEW T \in SUBSET (S \cup {h}),
         NEW b \in [Rows -> Nat]
  PROVE  Cardinality(BytesOf(T, b)) <= Cardinality(BytesOf(S, b)) + b[h]
<1>1. IsFiniteSet(BytesOf(S, b)) /\ IsFiniteSet(BytesOf({h}, b))
  BY BytesFinite
<1>2. BytesOf(S \cup {h}, b) = BytesOf(S, b) \cup BytesOf({h}, b)
  BY DEF BytesOf
<1>3. Cardinality(BytesOf(S \cup {h}, b)) <= Cardinality(BytesOf(S, b)) + b[h]
  <2> DEFINE A == BytesOf(S, b)
             B == BytesOf({h}, b)
  <2>1. Cardinality(A \cup B)
          = Cardinality(A) + Cardinality(B) - Cardinality(A \cap B)
    BY <1>1, FS_Union
  <2>2. IsFiniteSet(A \cap B)
    BY <1>1, FS_Intersection
  <2>3. Cardinality(A \cap B) \in Nat /\ Cardinality(A) \in Nat
        /\ Cardinality(B) \in Nat
    BY <1>1, <2>2, FS_CardinalityType
  <2>4. Cardinality(B) = b[h]
    BY BytesOfOne
  <2>5. b[h] \in Nat
    OBVIOUS
  <2> HIDE DEF A, B
  <2>6. Cardinality(A \cup B) <= Cardinality(A) + b[h]
    BY <2>1, <2>3, <2>4, <2>5
  <2>7. BytesOf(S \cup {h}, b) = A \cup B
    BY <1>2 DEF A, B
  <2>8. QED BY <2>6, <2>7 DEF A
<1>4. Cardinality(BytesOf(T, b)) <= Cardinality(BytesOf(S \cup {h}, b))
  BY BytesShrink
<1>5. /\ Cardinality(BytesOf(T, b)) \in Nat
      /\ Cardinality(BytesOf(S \cup {h}, b)) \in Nat
      /\ Cardinality(BytesOf(S, b)) \in Nat
  BY BytesShrink
<1>6. b[h] \in Nat
  OBVIOUS
<1>7. QED BY <1>3, <1>4, <1>5, <1>6

(***************************************************************************)
(* The quota.  QuotaHeld is not inductive: a commit keeps it only because  *)
(* room for the row was found under a lock that is still held, and because *)
(* nobody else commits for that account meanwhile.  IInv says so.          *)
(***************************************************************************)

\* Only rows that were inserted for somebody have an artifact.
StoredOwned == \A h \in Rows : art[h] # None => owner[h] # None

\* From its history insert to its commit, a store works on a row of its user.
Named(p) == pc[p] \in Reserved \cup {"reserve"} =>
  job[p].row \in Rows /\ job[p].user \in Users /\ owner[job[p].row] = job[p].user

\* Inside storage_reservation the user's lock is held and the row fits.
Roomy(p) == pc[p] \in Reserved =>
  /\ lock[LockOf(job[p].user)] = p
  /\ bytes[job[p].row] <= Limit - UsedBy(job[p].user)

\* What type correctness needs of the local variables.
Counted(p) == /\ pc[p] = "member" => job[p].left > 0
              /\ pc[p] = "prune_row" => job[p].row \in Rows

IInv == /\ TypeOK
        /\ StoredOwned
        /\ \A p \in Procs : Named(p) /\ Roomy(p) /\ Counted(p)
        /\ QuotaHeld

LEMMA LockExists == \A u \in Users : LockOf(u) \in Locks
  BY DEF LockOf, Locks

\* No artifact row appears, and no row changes hands or length.
NoGrowth ==
  /\ \A h \in Rows : art'[h] # None => art[h] # None
  /\ \A h \in Rows : owner[h] # None => owner'[h] = owner[h] /\ bytes'[h] = bytes[h]

LEMMA UsedIsNat ==
  ASSUME TypeOK, NEW u \in Users
  PROVE  UsedBy(u) \in Nat
<1>1. Stored(u) \in SUBSET Rows /\ Stored(u) \in SUBSET Stored(u)
  BY DEF Stored
<1>2. bytes \in [Rows -> Nat]
  BY DEF TypeOK
<1>3. QED BY <1>1, <1>2, BytesShrink DEF UsedBy

LEMMA UsedShrinks ==
  ASSUME TypeOK, TypeOK', StoredOwned, NoGrowth, NEW u \in Users
  PROVE  UsedBy(u) \in Nat /\ UsedBy(u)' \in Nat /\ UsedBy(u)' <= UsedBy(u)
<1>1. Stored(u) \in SUBSET Rows /\ Stored(u)' \in SUBSET Stored(u)
  BY DEF Stored, StoredOwned, NoGrowth
<1>2. \A h \in Stored(u)' : bytes'[h] = bytes[h]
  BY <1>1 DEF Stored, StoredOwned, NoGrowth
<1>3. bytes \in [Rows -> Nat] /\ bytes' \in [Rows -> Nat]
  BY DEF TypeOK
<1>4. /\ Cardinality(BytesOf(Stored(u), bytes)) \in Nat
      /\ Cardinality(BytesOf(Stored(u)', bytes')) \in Nat
      /\ Cardinality(BytesOf(Stored(u)', bytes')) <= Cardinality(BytesOf(Stored(u), bytes))
  BY <1>1, <1>2, <1>3, BytesShrink
<1>5. QED BY <1>4 DEF UsedBy, BytesOf

\* A step of p that adds no artifact keeps IInv, if p itself stays in shape.
LEMMA Shrinking ==
  ASSUME IInv, TypeOK', NEW p \in Procs, Frame(p), NoGrowth,
         Named(p)', Roomy(p)', Counted(p)'
  PROVE  IInv'
<1>1. TypeOK /\ StoredOwned /\ QuotaHeld
  BY DEF IInv
<1>2. StoredOwned'
  BY <1>1 DEF StoredOwned, NoGrowth
<1>3. \A u \in Users : UsedBy(u) \in Nat /\ UsedBy(u)' \in Nat /\ UsedBy(u)' <= UsedBy(u)
  BY <1>1, UsedShrinks
<1>4. QuotaHeld'
  BY <1>1, <1>3, LimitNatural DEF QuotaHeld
<1>5. ASSUME NEW q \in Procs \ {p} PROVE Named(q)' /\ Roomy(q)' /\ Counted(q)'
  <2>1. Named(q) /\ Roomy(q) /\ Counted(q)
    BY DEF IInv
  <2>2. pc'[q] = pc[q] /\ job'[q] = job[q] /\ \A l \in Locks : lock[l] = q => lock'[l] = q
    BY DEF Frame
  <2>3. Counted(q)'
    BY <2>1, <2>2 DEF Counted
  <2>4. Named(q)'
    BY <2>1, <2>2, NoneIsFresh DEF Named, Frame
  <2>5. Roomy(q)'
    <3>1. SUFFICES ASSUME pc[q] \in Reserved PROVE Roomy(q)'
      BY <2>2 DEF Roomy
    <3>2. PICK u \in Users : u = job[q].user
      BY <2>1, <3>1 DEF Named
    <3>3. PICK h \in Rows : h = job[q].row
      BY <2>1, <3>1 DEF Named
    <3>4. owner[h] = u /\ lock[LockOf(u)] = q /\ bytes[h] <= Limit - UsedBy(u)
      BY <2>1, <3>1, <3>2, <3>3 DEF Named, Roomy
    <3>5. bytes'[h] = bytes[h] /\ bytes[h] \in Nat
      BY <1>1, <3>4, NoneIsFresh DEF Frame, TypeOK
    <3>6. lock'[LockOf(u)] = q
      BY <2>2, <3>4, LockExists
    <3>7. bytes'[h] <= Limit - UsedBy(u)'
      BY <1>3, <3>4, <3>5, LimitNatural
    <3>8. job'[q].user = u /\ job'[q].row = h
      BY <2>2, <3>2, <3>3
    <3>9. QED BY <3>6, <3>7, <3>8 DEF Roomy, UsedBy, Stored
  <2>6. QED BY <2>3, <2>4, <2>5
<1>6. QED BY <1>2, <1>4, <1>5 DEF IInv

\* The common case: p goes where nothing is claimed of it.
LEMMA Leaving ==
  ASSUME IInv, TypeOK', NEW p \in Procs, Frame(p), NoGrowth,
         pc'[p] \notin Reserved \cup {"reserve", "member", "prune_row"}
  PROVE  IInv'
<1>1. Named(p)' /\ Roomy(p)' /\ Counted(p)'
  BY DEF Named, Roomy, Counted
<1>2. QED BY <1>1, Shrinking

LEMMA SameDbNoGrowth == UNCHANGED db => NoGrowth
  BY DEF db, NoGrowth

LEMMA DeleteGroupNoGrowth ==
  ASSUME NEW S, DeleteGroup(S)
  PROVE  NoGrowth
  BY DEF DeleteGroup, NoGrowth

LEMMA BeginIInv ==
  ASSUME IInv, NEW p \in Procs, Begin(p)
  PROVE  IInv'
<1>1. TypeOK /\ TypeOK' /\ Frame(p)
  BY BeginTypeOK DEF IInv
<1>2. UNCHANGED db
  BY DEF Begin, BeginStore, BeginDownload, BeginDelete, BeginPrune, BeginDeleteUser
<1>3. pc'[p] \in {"admitted", "read", "delete_file", "prune", "close"}
  BY <1>1 DEF Begin, BeginStore, BeginDownload, BeginDelete, BeginPrune,
              BeginDeleteUser, Goto, TypeOK
<1>4. QED BY <1>1, <1>2, <1>3, SameDbNoGrowth, Leaving DEF Reserved

LEMMA DownloadIInv ==
  ASSUME IInv, NEW p \in Procs, Download(p)
  PROVE  IInv'
<1>1. TypeOK /\ TypeOK' /\ Frame(p)
  BY DownloadTypeOK DEF IInv
<1>2. NoGrowth
  <2>1. CASE SetIntegrity(p)
    BY <1>1, <2>1 DEF SetIntegrity, NoGrowth, TypeOK
  <2>2. CASE ~SetIntegrity(p)
    BY <2>2, SameDbNoGrowth DEF Download, ReadVerified, SetIntegrityFails
  <2>3. QED BY <2>1, <2>2
<1>3. pc'[p] \in {"mark", "idle"}
  BY <1>1 DEF Download, ReadVerified, SetIntegrity, SetIntegrityFails, Goto,
              Finish, TypeOK
<1>4. QED BY <1>1, <1>2, <1>3, Leaving DEF Reserved

LEMMA DeleteIInv ==
  ASSUME IInv, NEW p \in Procs, Delete(p)
  PROVE  IInv'
<1>1. TypeOK /\ TypeOK' /\ Frame(p)
  BY DeleteTypeOK DEF IInv
<1>2. NoGrowth
  BY SameDbNoGrowth, DeleteGroupNoGrowth
     DEF Delete, DeleteFile, DeleteFileFails, DeleteRow, DeleteRowFails
<1>3. pc'[p] \in {"delete_row", "idle"}
  BY <1>1 DEF Delete, DeleteFile, DeleteFileFails, DeleteRow, DeleteRowFails,
              Goto, Finish, TypeOK
<1>4. QED BY <1>1, <1>2, <1>3, Leaving DEF Reserved

LEMMA PruneIInv ==
  ASSUME IInv, NEW p \in Procs, Prune(p)
  PROVE  IInv'
<1>1. TypeOK /\ TypeOK' /\ Frame(p)
  BY PruneTypeOK DEF IInv, Counted
<1>2. NoGrowth
  BY SameDbNoGrowth, DeleteGroupNoGrowth
     DEF Prune, PruneFile, PruneSkip, PruneRow, PruneCommit, PruneFails
<1>3. pc'[p] \in {"prune_row", "prune", "idle"}
  BY <1>1 DEF Prune, PruneFile, PruneSkip, PruneRow, PruneCommit, PruneFails,
              Goto, Finish, TypeOK
<1>4. Named(p)' /\ Roomy(p)'
  BY <1>3 DEF Named, Roomy, Reserved
<1>5. Counted(p)'
  <2>1. CASE \E h \in Rows : PruneFile(p, h)
    BY <1>1, <2>1 DEF PruneFile, Counted, Goto, TypeOK
  <2>2. CASE ~ \E h \in Rows : PruneFile(p, h)
    <3>1. pc'[p] \in {"prune", "idle"}
      BY <1>1, <2>2 DEF Prune, PruneSkip, PruneRow, PruneCommit, PruneFails,
                        Goto, Finish, TypeOK
    <3>2. QED BY <3>1 DEF Counted
  <2>3. QED BY <2>1, <2>2
<1>6. QED BY <1>1, <1>2, <1>4, <1>5, Shrinking

LEMMA CloseIInv ==
  ASSUME IInv, NEW p \in Procs, CloseAccount(p)
  PROVE  IInv'
<1>1. TypeOK /\ TypeOK' /\ Frame(p)
  BY CloseTypeOK DEF IInv
<1>2. NoGrowth
  BY SameDbNoGrowth
     DEF CloseAccount, DeleteUserFile, DeleteUserFails, DeleteUser, NoGrowth
<1>3. pc'[p] \in {"close", "idle"}
  BY <1>1 DEF CloseAccount, DeleteUserFile, DeleteUserFails, DeleteUser,
              Goto, Finish, TypeOK
<1>4. QED BY <1>1, <1>2, <1>3, Leaving DEF Reserved

LEMMA EnvironmentIInv ==
  ASSUME IInv, Environment
  PROVE  IInv'
<1>1. TypeOK /\ TypeOK' /\ StoredOwned /\ QuotaHeld
  BY EnvironmentTypeOK DEF IInv
<1>2. NoGrowth /\ UNCHANGED <<owner, bytes>>
  BY DEF Environment, Crash, Boot, Rot, NoGrowth, db
<1>3. StoredOwned'
  BY <1>1, <1>2 DEF StoredOwned, NoGrowth
<1>4. \A u \in Users : UsedBy(u) \in Nat /\ UsedBy(u)' \in Nat /\ UsedBy(u)' <= UsedBy(u)
  BY <1>1, <1>2, UsedShrinks
<1>5. QuotaHeld'
  BY <1>1, <1>4, LimitNatural DEF QuotaHeld
<1>6. ASSUME NEW q \in Procs PROVE Named(q)' /\ Roomy(q)' /\ Counted(q)'
  <2>1. CASE Crash
    BY <2>1 DEF Crash, Named, Roomy, Counted, Reserved
  <2>2. CASE UNCHANGED <<pc, job, lock>>
    <3>1. Named(q) /\ Roomy(q) /\ Counted(q)
      BY DEF IInv
    <3>2. Named(q)' /\ Counted(q)'
      BY <1>2, <2>2, <3>1 DEF Named, Counted
    <3>3. ASSUME pc[q] \in Reserved PROVE Roomy(q)'
      <4>1. PICK u \in Users : u = job[q].user
        BY <3>1, <3>3 DEF Named
      <4>2. PICK h \in Rows : h = job[q].row
        BY <3>1, <3>3 DEF Named
      <4>3. lock[LockOf(u)] = q /\ bytes[h] <= Limit - UsedBy(u) /\ bytes[h] \in Nat
        BY <1>1, <3>1, <3>3, <4>1, <4>2 DEF Roomy, TypeOK
      <4>4. bytes'[h] <= Limit - UsedBy(u)'
        BY <1>2, <1>4, <4>3, LimitNatural
      <4>5. job'[q].user = u /\ job'[q].row = h /\ lock'[LockOf(u)] = q
        BY <2>2, <4>1, <4>2, <4>3
      <4>6. QED BY <4>4, <4>5 DEF Roomy, UsedBy, Stored
    <3>4. ASSUME pc[q] \notin Reserved PROVE Roomy(q)'
      BY <2>2, <3>4 DEF Roomy
    <3>5. QED BY <3>2, <3>3, <3>4
  <2>3. QED BY <2>1, <2>2 DEF Environment, Boot, Rot
<1>7. QED BY <1>1, <1>3, <1>5, <1>6 DEF IInv

\* The one step that adds an artifact: the row was seen to fit, under a lock
\* that no other request of this account can hold.
CommitStep(p) ==
  /\ pc[p] = "commit"
  /\ pc'[p] \in {"idle", "member", "undo_file"}
  /\ \A h \in Rows \ {job[p].row} : art'[h] # None => art[h] # None
  /\ UNCHANGED <<owner, bytes>>

LEMMA CommitIInv ==
  ASSUME IInv, TypeOK', NEW p \in Procs, Frame(p), CommitStep(p), Counted(p)'
  PROVE  IInv'
<1>1. TypeOK /\ StoredOwned /\ QuotaHeld /\ Named(p) /\ Roomy(p)
  BY DEF IInv
<1>2. PICK u \in Users : u = job[p].user
  BY <1>1 DEF CommitStep, Named, Reserved
<1>3. PICK h \in Rows : h = job[p].row
  BY <1>1 DEF CommitStep, Named, Reserved
<1>4. owner[h] = u /\ lock[LockOf(u)] = p /\ bytes[h] <= Limit - UsedBy(u)
  BY <1>1, <1>2, <1>3 DEF CommitStep, Named, Roomy, Reserved
<1>5. StoredOwned'
  BY <1>1, <1>3, <1>4, NoneIsFresh DEF StoredOwned, CommitStep
<1>6. bytes \in [Rows -> Nat] /\ bytes[h] \in Nat /\ UsedBy(u) \in Nat
  BY <1>1, UsedIsNat DEF TypeOK
<1>7. UsedBy(u)' <= Limit
  <2>1. Stored(u) \in SUBSET Rows /\ Stored(u)' \in SUBSET (Stored(u) \cup {h})
    BY <1>3 DEF Stored, CommitStep
  <2>2. Cardinality(BytesOf(Stored(u)', bytes))
          <= Cardinality(BytesOf(Stored(u), bytes)) + bytes[h]
    BY <1>6, <2>1, BytesGrow
  <2>3. UsedBy(u)' <= UsedBy(u) + bytes[h]
    BY <2>2 DEF UsedBy, BytesOf, CommitStep
  <2>4. UsedBy(u)' \in Nat
    <3>1. Stored(u)' \in SUBSET Rows /\ Stored(u)' \in SUBSET Stored(u)'
      BY <2>1
    <3>2. Cardinality(BytesOf(Stored(u)', bytes)) \in Nat
      BY <1>6, <2>1, <3>1, BytesShrink
    <3>3. QED BY <3>2 DEF UsedBy, BytesOf, CommitStep
  <2>5. QED BY <1>4, <1>6, <2>3, <2>4, LimitNatural
<1>8. ASSUME NEW v \in Users \ {u}
      PROVE  UsedBy(v)' \in Nat /\ UsedBy(v) \in Nat /\ UsedBy(v)' <= UsedBy(v)
  <2>1. Stored(v) \in SUBSET Rows
    BY DEF Stored
  <2>2. Stored(v)' \in SUBSET Stored(v)
    <3>1. ASSUME NEW k \in Rows, art'[k] # None, owner'[k] = v PROVE k \in Stored(v)
      BY <1>3, <1>4, <3>1 DEF CommitStep, Stored
    <3>2. QED BY <3>1 DEF Stored
  <2>3. /\ Cardinality(BytesOf(Stored(v), bytes)) \in Nat
        /\ Cardinality(BytesOf(Stored(v)', bytes)) \in Nat
        /\ Cardinality(BytesOf(Stored(v)', bytes)) <= Cardinality(BytesOf(Stored(v), bytes))
    BY <1>6, <2>1, <2>2, BytesShrink
  <2>4. QED BY <2>3 DEF UsedBy, BytesOf, CommitStep
<1>9. QuotaHeld'
  BY <1>1, <1>7, <1>8, LimitNatural DEF QuotaHeld
<1>10. Named(p)' /\ Roomy(p)'
  BY DEF CommitStep, Named, Roomy, Reserved
<1>11. ASSUME NEW q \in Procs \ {p} PROVE Named(q)' /\ Roomy(q)' /\ Counted(q)'
  <2>1. Named(q) /\ Roomy(q) /\ Counted(q)
    BY DEF IInv
  <2>2. pc'[q] = pc[q] /\ job'[q] = job[q] /\ \A l \in Locks : lock[l] = q => lock'[l] = q
    BY DEF Frame
  <2>3. Counted(q)' /\ Named(q)'
    BY <2>1, <2>2 DEF Counted, Named, CommitStep
  <2>4. Roomy(q)'
    <3>1. SUFFICES ASSUME pc[q] \in Reserved PROVE Roomy(q)'
      BY <2>2 DEF Roomy
    <3>2. PICK w \in Users : w = job[q].user
      BY <2>1, <3>1 DEF Named
    <3>3. PICK k \in Rows : k = job[q].row
      BY <2>1, <3>1 DEF Named
    <3>4. lock[LockOf(w)] = q /\ bytes[k] <= Limit - UsedBy(w) /\ bytes[k] \in Nat
      BY <1>6, <2>1, <3>1, <3>2, <3>3 DEF Roomy
    <3>5. w \in Users \ {u}
      BY <1>4, <3>4
    <3>6. bytes'[k] <= Limit - UsedBy(w)'
      BY <1>8, <3>4, <3>5, LimitNatural DEF CommitStep
    <3>7. lock'[LockOf(w)] = q /\ job'[q].user = w /\ job'[q].row = k
      BY <2>2, <3>2, <3>3, <3>4, LockExists
    <3>8. QED BY <3>6, <3>7 DEF Roomy, UsedBy, Stored
  <2>5. QED BY <2>3, <2>4
<1>12. QED BY <1>5, <1>9, <1>10, <1>11 DEF IInv

\* Every other step of a store.
LEMMA StoreIInv ==
  ASSUME IInv, NEW p \in Procs, Store(p)
  PROVE  IInv'
<1>1. TypeOK /\ TypeOK' /\ Frame(p) /\ StoredOwned /\ Named(p) /\ Roomy(p) /\ Counted(p)
  BY StoreTypeOK, StoreFrame DEF IInv, Counted
<1>2. ASSUME NEW h \in Rows, AddHistory(p, h) PROVE IInv'
  <2>1. NoGrowth
    BY <1>1, <1>2 DEF AddHistory, InsertRow, NoGrowth, TypeOK
  <2>2. pc'[p] = "reserve" /\ job'[p].row = h /\ job'[p].user = job[p].user
        /\ job[p].user \in Users /\ owner'[h] = job[p].user
    BY <1>1, <1>2 DEF AddHistory, InsertRow, Goto, TypeOK, Job
  <2>3. Named(p)' /\ Roomy(p)' /\ Counted(p)'
    BY <2>2 DEF Named, Roomy, Counted, Reserved
  <2>4. QED BY <1>1, <2>1, <2>3, Shrinking
<1>3. ASSUME NEW c \in Rows, AddMember(p, c) PROVE IInv'
  <2>1. NoGrowth
    BY <1>1, <1>3 DEF AddMember, InsertRow, NoGrowth, TypeOK
  <2>2. CASE job[p].left = 1
    <3>1. pc'[p] = "idle"
      BY <1>1, <1>3, <2>2 DEF AddMember, Finish, Goto, TypeOK
    <3>2. QED BY <1>1, <2>1, <3>1, Leaving DEF Reserved
  <2>3. CASE job[p].left # 1
    <3>1. pc'[p] = "member" /\ job'[p].left = job[p].left - 1
      BY <1>1, <1>3, <2>3 DEF AddMember, TypeOK, Job
    <3>2. job[p].left \in Nat /\ job[p].left > 0
      BY <1>1, <1>3 DEF AddMember, Counted, TypeOK, Job
    <3>3. Named(p)' /\ Roomy(p)' /\ Counted(p)'
      BY <2>3, <3>1, <3>2 DEF Named, Roomy, Counted, Reserved
    <3>4. QED BY <1>1, <2>1, <3>3, Shrinking
  <2>4. QED BY <2>2, <2>3
<1>4. CASE Reserve(p)
  <2>1. NoGrowth
    BY <1>4, SameDbNoGrowth DEF Reserve
  <2>2. CASE ~ bytes[job[p].row] <= Limit - UsedBy(job[p].user)
    <3>1. pc'[p] = "undo_quota"
      BY <1>1, <1>4, <2>2 DEF Reserve, Goto, TypeOK
    <3>2. QED BY <1>1, <2>1, <3>1, Leaving DEF Reserved
  <2>3. CASE bytes[job[p].row] <= Limit - UsedBy(job[p].user)
    <3>1. pc'[p] = "write" /\ UNCHANGED <<db, job>> /\ Acquire(p, job[p].user)
      BY <1>1, <1>4, <2>3 DEF Reserve, Goto, TypeOK
    <3>2. Named(p)' /\ Counted(p)'
      BY <1>1, <1>4, <3>1 DEF Named, Counted, Reserve, Reserved, db
    <3>3. job[p].user \in Users
      BY <1>1, <1>4 DEF Named, Reserve
    <3>4. lock'[LockOf(job[p].user)] = p
      BY <1>1, <3>1, <3>3, LockExists DEF Acquire, TypeOK
    <3>5. Roomy(p)'
      BY <2>3, <3>1, <3>4 DEF Roomy, UsedBy, Stored, db
    <3>6. QED BY <1>1, <2>1, <3>2, <3>5, Shrinking
  <2>4. QED BY <2>2, <2>3
<1>5. CASE WriteTemporary(p) \/ Publish(p)
  <2>1. /\ pc[p] \in {"write", "publish"} /\ pc'[p] \in {"publish", "commit"}
        /\ UNCHANGED <<db, lock, job>>
    BY <1>1, <1>5 DEF WriteTemporary, Publish, Goto, TypeOK
  <2>2. Named(p)' /\ Counted(p)'
    BY <1>1, <2>1 DEF Named, Counted, Reserved, db
  <2>3. Roomy(p)'
    BY <1>1, <2>1 DEF Roomy, Reserved, UsedBy, Stored, db
  <2>4. NoGrowth
    BY <2>1, SameDbNoGrowth
  <2>5. QED BY <1>1, <2>2, <2>3, <2>4, Shrinking
<1>6. CASE Commit(p) \/ CommitFails(p)
  <2>1. CommitStep(p)
    <3>1. pc[p] = "commit" /\ UNCHANGED <<owner, bytes>>
      BY <1>6 DEF Commit, CommitFails
    <3>2. pc'[p] \in {"idle", "member", "undo_file"}
      BY <1>1, <1>6 DEF Commit, CommitFails, Finish, Goto, TypeOK
    <3>3. \A h \in Rows \ {job[p].row} : art'[h] # None => art[h] # None
      BY <1>1, <1>6 DEF Commit, CommitFails, TypeOK
    <3>4. QED BY <3>1, <3>2, <3>3 DEF CommitStep
  <2>2. Counted(p)'
    <3>1. CASE pc'[p] = "member"
      <4>1. job[p].left # 0 /\ job[p].left \in Nat /\ job' = job
        BY <1>1, <1>6, <3>1 DEF Commit, CommitFails, Finish, Goto, TypeOK, Job
      <4>2. QED BY <3>1, <4>1 DEF Counted
    <3>2. QED BY <2>1, <3>1 DEF Counted, CommitStep
  <2>3. QED BY <1>1, <2>1, <2>2, CommitIInv
<1>7. CASE \/ AddHistoryFails(p) \/ ReserveFails(p) \/ WriteFails(p)
           \/ InsertRefused(p) \/ UndoFile(p) \/ UndoFails(p)
           \/ AddMemberFails(p) \/ ArchiveUndoFile(p) \/ ArchiveUndoFails(p)
  <2>1. UNCHANGED db
    BY <1>7 DEF AddHistoryFails, ReserveFails, WriteFails, InsertRefused,
                UndoFile, UndoFails, AddMemberFails, ArchiveUndoFile,
                ArchiveUndoFails
  <2>2. pc'[p] \in {"idle", "undo", "undo_file", "archive_undo_file", "archive_undo_row"}
    BY <1>1, <1>7 DEF AddHistoryFails, ReserveFails, WriteFails, InsertRefused,
                UndoFile, UndoFails, AddMemberFails, ArchiveUndoFile,
                ArchiveUndoFails, AfterUndo, Finish, Goto, TypeOK
  <2>3. QED BY <1>1, <2>1, <2>2, SameDbNoGrowth, Leaving DEF Reserved
<1>8. CASE Undo(p) \/ ArchiveUndoRow(p)
  <2>1. NoGrowth
    BY <1>8, DeleteGroupNoGrowth DEF Undo, ArchiveUndoRow
  <2>2. pc'[p] \in {"idle", "archive_undo_file"}
    BY <1>1, <1>8 DEF Undo, ArchiveUndoRow, AfterUndo, Finish, Goto, TypeOK
  <2>3. QED BY <1>1, <2>1, <2>2, Leaving DEF Reserved
<1>9. QED
  BY <1>2, <1>3, <1>4, <1>5, <1>6, <1>7, <1>8 DEF Store

LEMMA InitIInv == Init => IInv
<1> SUFFICES ASSUME Init PROVE IInv
  OBVIOUS
<1>1. TypeOK /\ StoredOwned
  BY InitTypeOK DEF Init, StoredOwned
<1>2. ASSUME NEW p \in Procs PROVE Named(p) /\ Roomy(p) /\ Counted(p)
  BY DEF Init, Named, Roomy, Counted, Reserved
<1>3. ASSUME NEW u \in Users PROVE UsedBy(u) <= Limit
  <2>1. Stored(u) = {} /\ BytesOf(Stored(u), bytes) = {}
    BY DEF Init, Stored, BytesOf
  <2>2. UsedBy(u) = 0
    BY <2>1, FS_EmptySet DEF UsedBy
  <2>3. QED BY <2>2, LimitNatural
<1>4. QED BY <1>1, <1>2, <1>3 DEF IInv, QuotaHeld

LEMMA StepIInv == IInv /\ [Next]_vars => IInv'
<1> SUFFICES ASSUME IInv, [Next]_vars PROVE IInv'
  OBVIOUS
<1>1. ASSUME NEW p \in Procs, Step(p) PROVE IInv'
  BY <1>1, StoreIInv, DownloadIInv, DeleteIInv, PruneIInv, CloseIInv DEF Step
<1>2. ASSUME NEW p \in Procs, Begin(p) PROVE IInv'
  BY <1>2, BeginIInv
<1>3. CASE UNCHANGED vars
  BY <1>3 DEF vars, db, IInv, TypeOK, StoredOwned, Named, Roomy, Counted,
              QuotaHeld, UsedBy, Stored
<1>4. QED BY <1>1, <1>2, <1>3, EnvironmentIInv DEF Next

LEMMA Invariance == Spec => []IInv
  BY InitIInv, StepIInv, PTL DEF Spec

\* Every reachable state is well typed: in particular each control state a
\* handler can reach has the local variables the code needs there.
THEOREM TypeCorrect == Spec => []TypeOK
<1>1. IInv => TypeOK
  BY DEF IInv
<1>2. QED BY <1>1, Invariance, PTL

\* storage_reservation keeps every account within MAX_STORED_BYTES_PER_USER,
\* whatever the number of requests, the lengths stored and the backend.
THEOREM QuotaSafe == Spec => []QuotaHeld
<1>1. IInv => QuotaHeld
  BY DEF IInv
<1>2. QED BY <1>1, Invariance, PTL

(***************************************************************************)
(* The inductive invariant.  It says of each row what the request working  *)
(* on it, if any, may count on; of each request, which rows it works on    *)
(* and how far it is with them; and that no two requests work on a row one *)
(* of them has not committed yet.                                          *)
(***************************************************************************)

\* Until its commit, a store owns a row that has no artifact yet.
Pre     == Reserved \cup {"reserve"}
\* From its history insert to its answer.
Storing == Pre \cup {"undo_file", "undo", "undo_quota", "member",
                     "archive_undo_file", "archive_undo_row"}

\* The rows whose file or rows q is removing.
Removing(q) ==
  job[q].todo \cup job[q].doomed \cup
  (IF pc[q] \in {"delete_file", "delete_row", "prune_row"} THEN {job[q].row} ELSE {})

\* The rows q works on because it saw their artifact.
Touched(q) ==
  Removing(q) \cup (IF pc[q] \in {"read", "mark"} THEN {job[q].row} ELSE {})

\* Rows.
Unborn(h)  == owner[h] = None =>
  /\ fate[h] = "open" /\ file[h] = "absent"
  /\ h \notin rows /\ art[h] = None
Listed(h)  == /\ art[h] # None => h \in rows /\ file[h] # "partial"
              /\ h \in rows => owner[h] \in users
              /\ art[h] = "missing" /\ ~StatFails => ~Complete(h)
Member(h)  == parent[h] # None =>
  /\ owner[h] # None /\ parent[parent[h]] = None /\ owner[parent[h]] = owner[h]
  /\ fate[h] # "acked" /\ art[h] = None /\ file[h] = "absent"
  /\ h \in rows => parent[h] \in rows
Kept(h) == fate[h] = "acked" => h \in rows /\ art[h] # None /\ Complete(h)

RowsSound == \A h \in Rows : Unborn(h) /\ Listed(h) /\ Member(h) /\ Kept(h)

\* Requests.
Owning(p) == pc[p] \in Storing =>
  /\ job[p].row \in Rows /\ job[p].user \in Users
  /\ owner[job[p].row] = job[p].user /\ parent[job[p].row] = None
  /\ fate[job[p].row] # "acked"
Staged(p) ==
  /\ pc[p] \in Pre => art[job[p].row] = None /\ bytes[job[p].row] \in Sizes
  /\ pc[p] \in {"reserve", "write"} => file[job[p].row] = "absent"
  /\ pc[p] = "commit" => Complete(job[p].row)
  /\ pc[p] = "admitted" => job[p].size \in Sizes
Promised(p) == pc[p] = "member" /\ fate[job[p].row] = "open" =>
  job[p].row \in rows /\ art[job[p].row] # None /\ Complete(job[p].row)
Judged(p) == pc[p] = "mark" =>
  /\ job[p].seen \in Statuses
  /\ job[p].seen = "missing" /\ ~StatFails => ~Complete(job[p].row)
Clearing(p) ==
  /\ \A h \in Removing(p) : fate[h] = "condemned"
  /\ \A h \in Touched(p) : h \in Rows /\ owner[h] # None
  /\ pc[p] \notin {"prune", "prune_row"} => job[p].doomed = {}
  /\ pc[p] \notin {"prune", "prune_row", "close"} => job[p].todo = {}
  /\ \A h \in job[p].doomed : file[h] = "absent"
  /\ pc[p] \in {"delete_row", "prune_row"} => file[job[p].row] = "absent"
  /\ pc[p] \in {"delete_file", "delete_row"} => owner[job[p].row] = job[p].user
Closing(p) == pc[p] = "close" =>
  /\ job[p].user \in Users
  /\ lock[LockOf(job[p].user)] = p
  /\ \A h \in Rows : owner[h] = job[p].user /\ art[h] # None =>
       fate[h] = "condemned" /\ (file[h] = "absent" \/ h \in job[p].todo)
  /\ \A h \in job[p].todo : owner[h] = job[p].user

Sound(p) == /\ Owning(p) /\ Staged(p) /\ Promised(p)
            /\ Judged(p) /\ Clearing(p) /\ Closing(p)

RequestsSound == \A p \in Procs : Sound(p)

\* Requests do not meet.
Apart == \A p, q \in Procs :
  /\ p # q /\ pc[p] \in Storing /\ pc[q] \in Storing => job[p].row # job[q].row
  /\ pc[p] \in Pre => job[p].row \notin Touched(q)

\* Clean-up: who still has to see to a row.
StrayOf(p, h)   == job[p].row = h /\ pc[p] \in {"publish", "commit", "undo_file"}
EmptiedOf(p, h) ==
  \/ job[p].row = h /\ pc[p] \in {"undo", "delete_row", "prune_row", "archive_undo_row"}
  \/ h \in job[p].doomed
  \/ pc[p] = "close" /\ job[p].user = owner[h]
AwaitedOf(p, h) == job[p].row = h /\ pc[p] \in Pre \cup {"undo_file", "undo", "undo_quota"}
FailedOf(p, h)  == job[p].row = h /\ pc[p] \in {"archive_undo_file", "archive_undo_row"}

IsStray(h)   == file[h] # "absent" /\ art[h] = None
IsEmptied(h) == file[h] = "absent" /\ art[h] # None
IsAwaited(h) == h \in rows /\ parent[h] = None /\ art[h] = None
IsFailed(h)  == Backend = "sqlite" /\ h \in rows /\ fate[h] = "refused"

SeenTo(h) == /\ IsStray(h)   => \E p \in Procs : StrayOf(p, h)
             /\ IsEmptied(h) => \E p \in Procs : EmptiedOf(p, h)
             /\ IsAwaited(h) => \E p \in Procs : AwaitedOf(p, h)
             /\ IsFailed(h)  => \E p \in Procs : FailedOf(p, h)
Undone(p) == pc[p] \in {"undo", "undo_quota", "archive_undo_row"} =>
  file[job[p].row] = "absent"

CleanSound == clean => (\A h \in Rows : SeenTo(h)) /\ (\A p \in Procs : Undone(p))

Stopped == ~up => Quiet

KInv == RowsSound /\ RequestsSound /\ Apart /\ CleanSound /\ Stopped

(***************************************************************************)
(* What a step of request p may do to anybody else.                        *)
(***************************************************************************)
Mine(p, h) == pc[p] \in Storing /\ h = job[p].row

Mild(p) ==
  /\ Frame(p)
  /\ \A h \in Rows : owner[h] # None => parent'[h] = parent[h]
  /\ \A h \in Rows : fate[h] = "condemned" => fate'[h] = "condemned"
  /\ \A h \in Rows : fate'[h] = "open" => fate[h] = "open"
  /\ \A h \in Rows : fate'[h] = "acked" => fate[h] = "acked" \/ Mine(p, h)
  /\ \A h \in Rows : art[h] = None /\ art'[h] # None =>
                       pc[p] = "commit" /\ h = job[p].row
  /\ \A h \in Rows : file'[h] # file[h] =>
       \/ pc[p] \in {"write", "publish"} /\ h = job[p].row
       \/ file'[h] = "absent" /\ (h \in Removing(p) \/ Mine(p, h))
  /\ \A h \in Rows : fate[h] # "condemned" /\ h \in rows /\ art[h] # None =>
       Mine(p, h) \/ (h \in rows' /\ art'[h] # None)

\* The requests that do not move keep what they count on.
LEMMA Others ==
  ASSUME IInv, KInv, NEW p \in Procs, Mild(p), NEW q \in Procs \ {p}
  PROVE  Sound(q)'
<1>1. pc'[q] = pc[q] /\ job'[q] = job[q] /\ \A l \in Locks : lock[l] = q => lock'[l] = q
  BY DEF Mild, Frame
<1>2. /\ Owning(q) /\ Staged(q) /\ Promised(q) /\ Judged(q) /\ Clearing(q) /\ Closing(q)
      /\ RowsSound /\ Apart /\ Clearing(p) /\ Owning(p)
  BY DEF KInv, RequestsSound, Sound
<1>3. Touched(q)' = Touched(q) /\ Removing(q)' = Removing(q)
  BY <1>1 DEF Touched, Removing
<1>4. \A h \in Rows : pc[q] \in Storing /\ h = job[q].row => owner[h] # None /\ ~ Mine(p, h)
  BY <1>2, NoneIsFresh DEF Apart, Mine, Owning
<1>5. Owning(q)'
  BY <1>1, <1>2, <1>4 DEF Owning, Mild, Frame
<1>6. Staged(q)'
  <2>1. CASE pc[q] \in Pre
    <3>1. PICK h \in Rows : h = job[q].row
      BY <1>2, <2>1 DEF Owning, Storing
    <3>2. owner[h] # None /\ ~ Mine(p, h) /\ h \notin Touched(p)
      BY <1>2, <1>4, <2>1, <3>1 DEF Storing, Apart
    <3>3. art'[h] = None /\ bytes'[h] = bytes[h] /\ file'[h] = file[h]
      BY <1>2, <2>1, <3>1, <3>2 DEF Mild, Frame, Mine, Touched, Staged, Storing, Pre, Reserved
    <3>4. QED BY <1>1, <1>2, <2>1, <3>1, <3>3 DEF Staged, Pre, Reserved, Complete
  <2>2. CASE pc[q] \notin Pre
    BY <1>1, <1>2, <2>2 DEF Staged, Pre, Reserved
  <2>3. QED BY <2>1, <2>2
<1>7. Promised(q)'
  <2>1. SUFFICES ASSUME pc[q] = "member", fate'[job[q].row] = "open" PROVE Promised(q)'
    BY <1>1 DEF Promised
  <2>2. PICK h \in Rows : h = job[q].row
    BY <1>2, <2>1 DEF Owning, Storing
  <2>3. fate[h] = "open" /\ h \in rows /\ art[h] # None /\ Complete(h) /\ ~ Mine(p, h)
    BY <1>2, <1>4, <2>1, <2>2 DEF Mild, Promised, Storing
  <2>4. h \notin Removing(p)
    BY <1>2, <2>3 DEF Clearing
  <2>5. ~ (pc[p] \in {"write", "publish"} /\ h = job[p].row)
    BY <2>3 DEF Mine, Storing, Pre, Reserved
  <2>6. file'[h] = file[h] /\ h \in rows' /\ art'[h] # None
    BY <2>3, <2>4, <2>5 DEF Mild
  <2>7. QED BY <1>1, <2>2, <2>3, <2>6 DEF Promised, Complete
\* A row q has seen an artifact of is not being written by p.
<1>8. \A h \in Touched(q) : /\ h \in Rows /\ owner[h] # None
                            /\ file'[h] = file[h] \/ file'[h] = "absent"
  BY <1>2 DEF Clearing, Mild, Apart, Pre, Reserved
<1>9. Judged(q)'
  <2>1. pc[q] = "mark" => job[q].row \in Touched(q)
    BY DEF Touched
  <2>2. QED BY <1>1, <1>2, <1>8, <2>1 DEF Judged, Complete
<1>10. Clearing(q)'
  <2>1. \A h \in Removing(q) : h \in Touched(q)
    BY DEF Touched
  <2>2. \A h \in job[q].doomed : h \in Removing(q)
    BY DEF Removing
  <2>3. pc[q] \in {"delete_file", "delete_row", "prune_row"} => job[q].row \in Removing(q)
    BY DEF Removing
  <2>4. \A h \in Removing(q) : fate'[h] = "condemned" /\ (file[h] = "absent" => file'[h] = "absent")
                               /\ owner'[h] = owner[h]
    BY <1>2, <1>8, <2>1 DEF Clearing, Mild, Frame
  <2>5. \A h \in Touched(q) : h \in Rows /\ owner'[h] # None
    BY <1>8 DEF Mild, Frame
  <2>6. \A h \in job'[q].doomed : file'[h] = "absent"
    BY <1>1, <1>2, <2>2, <2>4 DEF Clearing
  <2>7. QED BY <1>1, <1>2, <1>3, <2>3, <2>4, <2>5, <2>6 DEF Clearing
<1>11. Closing(q)'
  <2>1. SUFFICES ASSUME pc[q] = "close" PROVE Closing(q)'
    BY <1>1 DEF Closing
  <2>2. PICK u \in Users : u = job[q].user
    BY <1>2, <2>1 DEF Closing
  <2>3. lock'[LockOf(u)] = q /\ lock[LockOf(u)] = q
    BY <1>1, <1>2, <2>1, <2>2, LockExists DEF Closing
  <2>4. ASSUME NEW h \in Rows, owner'[h] = u, art'[h] # None
        PROVE  fate'[h] = "condemned" /\ (file'[h] = "absent" \/ h \in job[q].todo)
    <3>1. ~ (pc[p] = "commit" /\ h = job[p].row)
      <4>1. SUFFICES ASSUME pc[p] = "commit", h = job[p].row PROVE FALSE
        OBVIOUS
      <4>2. Roomy(p) /\ Named(p)
        BY DEF IInv
      <4>3. owner[h] = job[p].user /\ lock[LockOf(job[p].user)] = p
        BY <4>1, <4>2 DEF Roomy, Named, Reserved
      <4>4. job[p].user = u
        BY <2>4, <4>1, <4>2, <4>3, NoneIsFresh DEF Mild, Frame, Named, Reserved
      <4>5. QED BY <2>3, <4>3, <4>4
    <3>2. art[h] # None
      BY <2>4, <3>1 DEF Mild
    <3>3. owner[h] = u
      BY <2>4, <3>2 DEF IInv, StoredOwned, Mild, Frame
    <3>4. fate[h] = "condemned" /\ (file[h] = "absent" \/ h \in job[q].todo)
      BY <1>2, <2>1, <2>2, <3>2, <3>3 DEF Closing
    <3>5. ~ (pc[p] \in {"write", "publish"} /\ h = job[p].row)
      BY <1>2, <3>2 DEF KInv, RequestsSound, Sound, Staged, Pre, Reserved
    <3>6. QED BY <3>4, <3>5 DEF Mild
  <2>5. \A h \in job[q].todo : owner'[h] = u
    <3>1. \A h \in job[q].todo : h \in Touched(q) /\ owner[h] = u
      BY <1>2, <2>1, <2>2 DEF Touched, Removing, Closing
    <3>2. QED BY <1>8, <3>1 DEF Mild, Frame
  <2>6. QED BY <1>1, <2>2, <2>3, <2>4, <2>5 DEF Closing
<1>12. QED BY <1>5, <1>6, <1>7, <1>9, <1>10, <1>11 DEF Sound
\* A request takes up a row when it inserts it, or sees its artifact.
Distinct(p) ==
  /\ pc'[p] \in Storing => \/ pc[p] \in Storing /\ job'[p].row = job[p].row
                           \/ owner[job'[p].row] = None
  /\ pc'[p] \in Pre => \/ pc[p] \in Pre /\ job'[p].row = job[p].row
                       \/ owner[job'[p].row] = None
  /\ \A h \in Touched(p)' : h \in Touched(p) \/ art[h] # None

LEMMA StillApart ==
  ASSUME IInv, KInv, NEW p \in Procs, Mild(p), Sound(p)', Distinct(p)
  PROVE  Apart'
<1>1. ASSUME NEW q \in Procs \ {p}, pc'[q] \in Storing
      PROVE  /\ pc[q] \in Storing /\ owner[job[q].row] # None /\ job'[q].row = job[q].row
             /\ pc[p] \in Storing => job[q].row # job[p].row
  BY <1>1, NoneIsFresh
     DEF KInv, RequestsSound, Sound, Owning, Mild, Frame, Apart
<1>2. ASSUME NEW q \in Procs \ {p}, pc'[q] \in Storing, pc'[p] \in Storing
      PROVE  job'[q].row # job'[p].row
  BY <1>1, <1>2 DEF Distinct
<1>3. ASSUME NEW q \in Procs \ {p}
      PROVE  Touched(q)' = Touched(q) /\ \A h \in Touched(q) : owner[h] # None
  <2>1. Clearing(q)
    BY DEF KInv, RequestsSound, Sound
  <2>2. pc'[q] = pc[q] /\ job'[q] = job[q]
    BY DEF Mild, Frame
  <2>3. QED BY <2>1, <2>2 DEF Touched, Removing, Clearing
<1>4. ASSUME NEW q \in Procs \ {p}, pc'[q] \in Pre
      PROVE  job'[q].row \notin Touched(p)'
  <2>1. pc[q] \in Pre /\ job'[q].row = job[q].row
    BY <1>4 DEF Mild, Frame
  <2>2. job[q].row \notin Touched(p) /\ art[job[q].row] = None
    BY <2>1 DEF KInv, RequestsSound, Sound, Apart, Staged
  <2>3. QED BY <2>1, <2>2 DEF Distinct
<1>5. ASSUME NEW q \in Procs \ {p}, pc'[p] \in Pre
      PROVE  job'[p].row \notin Touched(q)'
  BY <1>3, <1>5 DEF Distinct, KInv, Apart
<1>6. pc'[p] \in Pre => Touched(p)' = {}
  BY DEF Sound, Clearing, Touched, Removing, Pre, Reserved
<1>7. ASSUME NEW q \in Procs \ {p}, NEW r \in Procs \ {p}
      PROVE  /\ q # r /\ pc'[q] \in Storing /\ pc'[r] \in Storing =>
                  job'[q].row # job'[r].row
             /\ pc'[q] \in Pre => job'[q].row \notin Touched(r)'
  <2>1. pc'[q] = pc[q] /\ job'[q] = job[q] /\ pc'[r] = pc[r] /\ job'[r] = job[r]
    BY DEF Mild, Frame
  <2>2. QED BY <1>3, <2>1 DEF KInv, Apart
<1>8. QED BY <1>2, <1>4, <1>5, <1>6, <1>7 DEF Apart

\* What a step of request p does to the rows.
RowStep(p) ==
  /\ \A h \in Rows : owner[h] = None => fate'[h] = fate[h]
  /\ \A h \in rows' \ rows : /\ owner[h] = None /\ owner'[h] \in users'
                             /\ \/ parent'[h] = None
                                \/ /\ parent'[h] \in rows \cap rows'
                                   /\ parent[parent'[h]] = None
                                   /\ owner[parent'[h]] = owner'[h]
  /\ \A h \in rows \cap rows' : /\ owner[h] \in users'
                                /\ parent[h] # None => parent[h] \in rows'
  /\ \A h \in Rows : owner[h] = None /\ h \notin rows' =>
                       owner'[h] = None /\ parent'[h] = parent[h]
  /\ \A h \in Rows : art'[h] # None => h \in rows'
  /\ \A h \in Rows : art'[h] = "missing" /\ ~StatFails =>
       art[h] = "missing" \/ ~Complete(h)'
  /\ \A h \in Rows : fate'[h] = "acked" /\ Mine(p, h) =>
       h \in rows' /\ art'[h] # None /\ Complete(h)'

LEMMA RowsKept ==
  ASSUME IInv, KInv, TypeOK', NEW p \in Procs, Mild(p), RowStep(p)
  PROVE  RowsSound'
<1> SUFFICES ASSUME NEW h \in Rows
             PROVE  Unborn(h)' /\ Listed(h)' /\ Member(h)' /\ Kept(h)'
  BY DEF RowsSound
<1>1. /\ Unborn(h) /\ Listed(h) /\ Member(h) /\ Kept(h)
      /\ Owning(p) /\ Staged(p) /\ Clearing(p)
      /\ TypeOK /\ StoredOwned
  BY DEF KInv, RowsSound, RequestsSound, Sound, IInv
<1>2. /\ Mine(p, h) => owner[h] # None /\ parent[h] = None /\ fate[h] # "acked"
      /\ h \in Removing(p) => owner[h] # None /\ fate[h] = "condemned"
  BY <1>1, NoneIsFresh DEF Mine, Owning, Clearing, Touched
<1>3. pc[p] \in {"write", "publish", "commit"} /\ h = job[p].row =>
        Mine(p, h) /\ art[h] = None
  BY <1>1 DEF Mine, Staged, Storing, Pre, Reserved
<1>4. Unborn(h)'
  <2>1. SUFFICES ASSUME owner'[h] = None PROVE Unborn(h)'
    BY DEF Unborn
  <2>2. owner[h] = None
    BY <2>1 DEF Mild, Frame
  <2>3. file'[h] = "absent" /\ art'[h] = None /\ fate'[h] = "open"
    BY <1>1, <1>2, <1>3, <2>2 DEF Unborn, Mild, RowStep
  <2>4. h \notin rows'
    <3>1. h \notin rows /\ None \notin users'
      BY <1>1, <2>2, NoneIsFresh DEF Unborn, TypeOK
    <3>2. QED BY <2>1, <3>1 DEF RowStep
  <2>5. QED BY <2>3, <2>4 DEF Unborn
<1>5. Listed(h)'
  <2>1. art'[h] # None => file'[h] # "partial"
    <3>1. SUFFICES ASSUME art'[h] # None PROVE file'[h] # "partial"
      OBVIOUS
    <3>2. CASE art[h] = None
      <4>1. pc[p] = "commit" /\ h = job[p].row
        BY <3>1, <3>2 DEF Mild
      <4>2. Complete(h)
        BY <1>1, <4>1 DEF Staged
      <4>3. QED BY <4>1, <4>2 DEF Mild, Complete
    <3>3. CASE art[h] # None
      BY <1>1, <1>3, <3>3 DEF Mild, Listed
    <3>4. QED BY <3>2, <3>3
  <2>2. h \in rows' => owner'[h] \in users'
    <3>1. h \in rows => owner[h] # None
      BY <1>1, NoneIsFresh DEF Unborn
    <3>2. QED BY <3>1 DEF RowStep, Mild, Frame
  <2>3. art'[h] = "missing" /\ ~StatFails => ~Complete(h)'
    BY <1>1, <1>3, NoneIsFresh DEF RowStep, Listed, Mild, Complete
  <2>4. QED BY <2>1, <2>2, <2>3 DEF Listed, RowStep
<1>6. Member(h)'
  <2>1. SUFFICES ASSUME parent'[h] # None PROVE Member(h)'
    BY DEF Member
  <2>2. CASE owner[h] # None
    <3>1. PICK a \in Rows : a = parent[h] /\ a = parent'[h]
      BY <1>1, <2>1, <2>2 DEF Mild, TypeOK
    <3>2. /\ owner[a] = owner[h] /\ parent[a] = None /\ fate[h] # "acked"
          /\ art[h] = None /\ file[h] = "absent" /\ ~ Mine(p, h)
          /\ owner'[h] = owner[h] /\ owner'[a] = owner[a] /\ parent'[a] = None
      BY <1>1, <1>2, <2>1, <2>2, <3>1 DEF Member, Mild, Frame
    <3>3. fate'[h] # "acked" /\ art'[h] = None /\ file'[h] = "absent"
      BY <1>3, <3>2 DEF Mild
    <3>4. h \in rows' => a \in rows'
      BY <2>1, <2>2, <3>1 DEF RowStep
    <3>5. QED BY <2>2, <3>1, <3>2, <3>3, <3>4 DEF Member
  <2>3. CASE owner[h] = None
    <3>1. /\ fate'[h] = "open" /\ file'[h] = "absent" /\ art'[h] = None
      BY <1>1, <1>2, <1>3, <2>3 DEF Unborn, Mild, RowStep
    <3>2. CASE h \in rows'
      <4>1. h \in rows' \ rows
        BY <1>1, <2>3, <3>2 DEF Unborn
      <4>2. PICK a \in Rows : a = parent'[h] /\ a \in rows' /\ a \in rows
                              /\ parent[a] = None /\ owner[a] = owner'[h]
        BY <1>1, <2>1, <4>1 DEF RowStep, TypeOK
      <4>3. owner[a] # None /\ owner'[h] # None
        BY <4>1, <4>2, NoneIsFresh DEF RowStep, TypeOK
      <4>4. owner'[a] = owner[a] /\ parent'[a] = parent[a]
        BY <4>3 DEF Mild, Frame
      <4>5. QED BY <3>1, <4>2, <4>3, <4>4 DEF Member
    <3>3. CASE h \notin rows'
      <4>1. parent[h] # None
        BY <2>1, <2>3, <3>3 DEF RowStep
      <4>2. QED BY <1>1, <2>3, <4>1 DEF Member
    <3>4. QED BY <3>2, <3>3
  <2>4. QED BY <2>2, <2>3
<1>7. Kept(h)'
  <2>1. SUFFICES ASSUME fate'[h] = "acked" PROVE Kept(h)'
    BY DEF Kept
  <2>2. CASE Mine(p, h)
    BY <2>1, <2>2 DEF Kept, RowStep
  <2>3. CASE ~ Mine(p, h)
    <3>1. fate[h] = "acked" /\ h \in rows /\ art[h] # None /\ Complete(h)
      BY <1>1, <2>1, <2>3 DEF Kept, Mild
    <3>2. file'[h] = file[h]
      BY <1>2, <1>3, <2>3, <3>1 DEF Mild
    <3>3. h \in rows' /\ art'[h] # None
      BY <2>3, <3>1 DEF Mild
    <3>4. QED BY <3>1, <3>2, <3>3 DEF Kept, Complete
  <2>4. QED BY <2>2, <2>3
<1>8. QED BY <1>4, <1>5, <1>6, <1>7

\* What a step of request p owes clean-up: what it leaves undone, it or
\* another request still has to do.
CleanStep(p) == clean' =>
  /\ clean
  /\ Undone(p)'
  /\ \A h \in Rows :
       /\ IsStray(h)'   /\ (~IsStray(h)   \/ StrayOf(p, h))   => StrayOf(p, h)'
       /\ IsEmptied(h)' /\ (~IsEmptied(h) \/ EmptiedOf(p, h)) => EmptiedOf(p, h)'
       /\ IsAwaited(h)' /\ (~IsAwaited(h) \/ AwaitedOf(p, h)) => AwaitedOf(p, h)'
       /\ IsFailed(h)'  /\ (~IsFailed(h)  \/ FailedOf(p, h))  => FailedOf(p, h)'

LEMMA CleanKept ==
  ASSUME IInv, KInv, NEW p \in Procs, Mild(p), CleanStep(p)
  PROVE  CleanSound'
<1> SUFFICES ASSUME clean' PROVE CleanSound'
  BY DEF CleanSound
<1>1. (\A h \in Rows : SeenTo(h)) /\ (\A q \in Procs : Undone(q))
  BY DEF KInv, CleanSound, CleanStep
<1>2. \A q \in Procs \ {p} : pc'[q] = pc[q] /\ job'[q] = job[q]
  BY DEF Mild, Frame
<1>3. ASSUME NEW q \in Procs PROVE Undone(q)'
  <2>1. CASE q = p
    BY <2>1 DEF CleanStep
  <2>2. CASE q # p
    <3>1. SUFFICES ASSUME pc[q] \in {"undo", "undo_quota", "archive_undo_row"}
                   PROVE  file'[job[q].row] = "absent"
      BY <1>2, <2>2 DEF Undone
    <3>2. PICK h \in Rows : h = job[q].row
      BY <3>1 DEF KInv, RequestsSound, Sound, Owning, Storing
    <3>3. file[h] = "absent" /\ ~ Mine(p, h)
      BY <1>1, <2>2, <3>1, <3>2 DEF Undone, KInv, Apart, Mine, Storing
    <3>4. file'[h] = "absent"
      BY <3>3 DEF Mild, Mine, Storing, Pre, Reserved
    <3>5. QED BY <3>2, <3>4
  <2>3. QED BY <2>1, <2>2
<1>4. ASSUME NEW h \in Rows PROVE SeenTo(h)'
  <2>1. IsStray(h)' => \E q \in Procs : StrayOf(q, h)'
    BY <1>1, <1>2 DEF SeenTo, CleanStep, StrayOf
  <2>2. IsEmptied(h)' => \E q \in Procs : EmptiedOf(q, h)'
    <3>1. IsEmptied(h) => owner'[h] = owner[h]
      BY DEF IsEmptied, IInv, StoredOwned, Mild, Frame
    <3>2. QED BY <1>1, <1>2, <3>1 DEF SeenTo, CleanStep, EmptiedOf
  <2>3. IsAwaited(h)' => \E q \in Procs : AwaitedOf(q, h)'
    BY <1>1, <1>2 DEF SeenTo, CleanStep, AwaitedOf
  <2>4. IsFailed(h)' => \E q \in Procs : FailedOf(q, h)'
    BY <1>1, <1>2 DEF SeenTo, CleanStep, FailedOf
  <2>5. QED BY <2>1, <2>2, <2>3, <2>4 DEF SeenTo
<1>5. QED BY <1>3, <1>4 DEF CleanSound

LEMMA Combined ==
  ASSUME IInv, KInv, TypeOK', NEW p \in Procs, up',
         Mild(p), Sound(p)', Distinct(p), RowStep(p), CleanStep(p)
  PROVE  KInv'
<1>1. RequestsSound'
  BY Others DEF RequestsSound
<1>2. Stopped'
  BY DEF Stopped
<1>3. QED BY <1>1, <1>2, RowsKept, StillApart, CleanKept DEF KInv

(***************************************************************************)
(* Steps that have a form in common                                        *)
(***************************************************************************)
LEMMA Running ==
  ASSUME KInv, NEW p \in Procs, pc[p] # "idle"
  PROVE  up
  BY DEF KInv, Stopped, Quiet

LEMMA OwnState ==
  ASSUME KInv, NEW p \in Procs
  PROVE  /\ Owning(p) /\ Staged(p) /\ Promised(p)
         /\ Judged(p) /\ Clearing(p) /\ Closing(p)
  BY DEF KInv, RequestsSound, Sound

\* A request that ends lets go of everything.
LEMMA Ended ==
  ASSUME TypeOK, NEW p \in Procs, Finish(p)
  PROVE  /\ pc'[p] = "idle" /\ job'[p] = NoJob
         /\ Sound(p)' /\ Distinct(p) /\ Undone(p)'
<1>1. pc'[p] = "idle" /\ job'[p] = NoJob
  BY DEF TypeOK, Finish, Goto
<1>2. Removing(p)' = {} /\ Touched(p)' = {}
  BY <1>1 DEF Removing, Touched, NoJob
<1>3. Sound(p)'
  BY <1>1, <1>2 DEF Sound, Owning, Staged, Promised, Judged, Clearing, Closing,
                    Storing, Pre, Reserved, NoJob
<1>4. Distinct(p) /\ Undone(p)'
  BY <1>1, <1>2 DEF Distinct, Undone, Storing, Pre, Reserved
<1>5. QED BY <1>1, <1>3, <1>4

\* A store that goes on with the same row.
LEMMA Moving ==
  ASSUME KInv, NEW p \in Procs, Mild(p),
         pc[p] \in Storing, pc'[p] \in Storing, pc'[p] \in Pre => pc[p] \in Pre,
         job'[p].row = job[p].row, job'[p].user = job[p].user,
         job'[p].todo = job[p].todo, job'[p].doomed = job[p].doomed,
         fate'[job[p].row] # "acked"
  PROVE  /\ Owning(p)' /\ Judged(p)' /\ Clearing(p)' /\ Closing(p)' /\ Distinct(p)
         /\ job'[p].doomed = {} /\ job[p].doomed = {} /\ Removing(p) = {}
<1>1. Owning(p) /\ Clearing(p)
  BY OwnState
<1>2. job[p].todo = {} /\ job[p].doomed = {}
  BY <1>1 DEF Clearing, Storing, Pre, Reserved
<1>3. Removing(p)' = {} /\ Touched(p)' = {} /\ Removing(p) = {}
  BY <1>2 DEF Removing, Touched, Storing, Pre, Reserved
<1>4. Owning(p)'
  BY <1>1, NoneIsFresh DEF Owning, Mild, Frame
<1>5. Judged(p)' /\ Closing(p)'
  BY DEF Judged, Closing, Storing, Pre, Reserved
<1>6. Clearing(p)'
  BY <1>2, <1>3 DEF Clearing, Storing, Pre, Reserved
<1>7. Distinct(p)
  BY <1>3 DEF Distinct
<1>8. QED BY <1>2, <1>3, <1>4, <1>5, <1>6, <1>7

\* A step that changes neither rows nor files nor anybody's fate.
LEMMA Bare ==
  ASSUME TypeOK, KInv, NEW p \in Procs, Frame(p), UNCHANGED <<db, file, fate>>
  PROVE  Mild(p) /\ RowStep(p)
<1>1. /\ users' = users /\ rows' = rows /\ owner' = owner /\ parent' = parent
      /\ art' = art /\ file' = file /\ fate' = fate
  BY DEF db
<1>2. Mild(p)
  BY <1>1 DEF Mild
<1>3. Owning(p) /\ (\A h \in Rows : Listed(h) /\ Member(h)) /\ rows \subseteq Rows
  BY OwnState DEF KInv, RowsSound, TypeOK
<1>4. RowStep(p)
  BY <1>1, <1>3 DEF RowStep, Listed, Member, Mine, Owning
<1>5. QED BY <1>2, <1>4

\* ... and leaves clean-up to whom it was left.
LEMMA BareClean ==
  ASSUME KInv, NEW p \in Procs, UNCHANGED <<db, file, fate>>,
         clean' => clean /\ Undone(p)',
         clean' => \A h \in Rows :
           /\ IsStray(h)   /\ StrayOf(p, h)   => StrayOf(p, h)'
           /\ IsEmptied(h) /\ EmptiedOf(p, h) => EmptiedOf(p, h)'
           /\ IsAwaited(h) /\ AwaitedOf(p, h) => AwaitedOf(p, h)'
           /\ IsFailed(h)  /\ FailedOf(p, h)  => FailedOf(p, h)'
  PROVE  CleanStep(p)
<1>1. \A h \in Rows : /\ IsStray(h)' = IsStray(h) /\ IsEmptied(h)' = IsEmptied(h)
                      /\ IsAwaited(h)' = IsAwaited(h) /\ IsFailed(h)' = IsFailed(h)
  BY DEF IsStray, IsEmptied, IsAwaited, IsFailed, db
<1>2. QED BY <1>1 DEF CleanStep

(***************************************************************************)
(* The steps of a store                                                    *)
(***************************************************************************)
LEMMA AddHistoryKInv ==
  ASSUME IInv, KInv, NEW p \in Procs, NEW h \in Rows, AddHistory(p, h)
  PROVE  KInv'
<1>0. TypeOK /\ Frame(p) /\ TypeOK'
  BY StoreFrame, StoreTypeOK DEF IInv, Store, AddHistory
<1>1. /\ pc[p] = "admitted" /\ job[p].user \in users /\ owner[h] = None
      /\ users' = users /\ rows' = rows \cup {h} /\ art' = art
      /\ owner' = [owner EXCEPT ![h] = job[p].user]
      /\ parent' = [parent EXCEPT ![h] = None]
      /\ bytes' = [bytes EXCEPT ![h] = job[p].size]
      /\ pc' = [pc EXCEPT ![p] = "reserve"]
      /\ job' = [job EXCEPT ![p].row = h]
      /\ file' = file /\ up' = up /\ fate' = fate /\ clean' = clean
  BY DEF AddHistory, InsertRow, Goto
<1>2. /\ pc'[p] = "reserve" /\ job'[p].row = h /\ job'[p].user = job[p].user
      /\ job'[p].todo = job[p].todo /\ job'[p].doomed = job[p].doomed
      /\ owner'[h] = job[p].user /\ parent'[h] = None /\ bytes'[h] = job[p].size
      /\ job[p].user \in Users
  BY <1>0, <1>1 DEF TypeOK, Job
<1>3. Unborn(h) /\ \A k \in Rows : Listed(k) /\ Member(k) /\ (k # h =>
        owner'[k] = owner[k] /\ parent'[k] = parent[k])
  BY <1>0, <1>1 DEF KInv, RowsSound, TypeOK
<1>4. Mild(p)
  BY <1>0, <1>1, <1>3 DEF Mild
<1>5. job[p].todo = {} /\ job[p].doomed = {} /\ Staged(p)
  BY <1>1, OwnState DEF Clearing
<1>6. Removing(p)' = {} /\ Touched(p)' = {}
  BY <1>2, <1>5 DEF Removing, Touched
<1>7. Sound(p)'
  BY <1>1, <1>2, <1>3, <1>5, <1>6
     DEF Sound, Owning, Staged, Promised, Judged, Clearing, Closing, Unborn,
         Storing, Pre, Reserved
<1>8. Distinct(p)
  BY <1>1, <1>2, <1>6 DEF Distinct
<1>9. RowStep(p)
  <2>1. rows \subseteq Rows /\ ~ Mine(p, h) /\ h \notin rows /\ fate'[h] = "open"
    BY <1>0, <1>1, <1>3 DEF TypeOK, Mine, Storing, Pre, Reserved, Unborn
  <2>2. \A k \in Rows : ~ Mine(p, k)
    BY <1>1 DEF Mine, Storing, Pre, Reserved
  <2>3. \A k \in rows \cap rows' : /\ owner[k] \in users'
                                   /\ parent[k] # None => parent[k] \in rows'
    BY <1>1, <1>3, <2>1 DEF Listed, Member
  <2>4. QED BY <1>1, <1>2, <1>3, <2>1, <2>2, <2>3 DEF RowStep, Listed
<1>10. CleanStep(p)
  <2>1. Undone(p)'
    BY <1>2 DEF Undone
  <2>2. ASSUME NEW k \in Rows
        PROVE  /\ IsStray(k)' = IsStray(k) /\ IsEmptied(k)' = IsEmptied(k)
               /\ IsFailed(k)' => IsFailed(k)
               /\ IsAwaited(k)' => IsAwaited(k) \/ AwaitedOf(p, k)'
    BY <1>1, <1>2, <1>3
       DEF IsStray, IsEmptied, IsFailed, IsAwaited, AwaitedOf, Unborn, Pre
  <2>3. ASSUME NEW k \in Rows
        PROVE  ~StrayOf(p, k) /\ ~EmptiedOf(p, k) /\ ~AwaitedOf(p, k) /\ ~FailedOf(p, k)
    BY <1>1, <1>5 DEF StrayOf, EmptiedOf, AwaitedOf, FailedOf, Pre, Reserved
  <2>4. QED BY <1>1, <2>1, <2>2, <2>3 DEF CleanStep
<1>11. QED BY <1>0, <1>1, <1>4, <1>7, <1>8, <1>9, <1>10, Running, Combined

LEMMA AddHistoryFailsKInv ==
  ASSUME IInv, KInv, NEW p \in Procs, AddHistoryFails(p)
  PROVE  KInv'
<1>1. TypeOK /\ Frame(p) /\ TypeOK'
  BY StoreFrame, StoreTypeOK DEF IInv, Store, AddHistoryFails
<1>2. Mild(p) /\ RowStep(p)
  BY <1>1, Bare DEF AddHistoryFails
<1>3. Sound(p)' /\ Distinct(p) /\ Undone(p)'
  BY <1>1, Ended DEF AddHistoryFails
<1>4. CleanStep(p)
  <2>1. pc[p] = "admitted" /\ job[p].doomed = {}
    BY OwnState DEF AddHistoryFails, Clearing
  <2>2. QED BY <1>3, <2>1, BareClean
               DEF AddHistoryFails, StrayOf, EmptiedOf, AwaitedOf, FailedOf, Pre, Reserved
<1>5. up'
  BY Running DEF AddHistoryFails
<1>6. QED BY <1>1, <1>2, <1>3, <1>4, <1>5, Combined

\* Locking, and giving up before anything was written.
LEMMA ReserveKInv ==
  ASSUME IInv, KInv, NEW p \in Procs, Reserve(p) \/ ReserveFails(p)
  PROVE  KInv'
<1>1. TypeOK /\ Frame(p) /\ TypeOK'
  BY StoreFrame, StoreTypeOK DEF IInv, Store, Reserve, ReserveFails
<1>2. /\ pc[p] = "reserve" /\ job' = job /\ UNCHANGED <<db, file, fate>>
      /\ pc'[p] \in {"write", "undo", "undo_quota"} /\ up' = up /\ clean' = clean
  BY <1>1 DEF Reserve, ReserveFails, Goto, TypeOK
<1>3. Mild(p) /\ RowStep(p)
  BY <1>1, <1>2, Bare
<1>4. Staged(p) /\ Owning(p)
  BY OwnState
<1>5. fate'[job[p].row] # "acked"
  BY <1>2, <1>4 DEF Owning, Storing, Pre
<1>6. /\ Owning(p)' /\ Judged(p)' /\ Clearing(p)' /\ Closing(p)' /\ Distinct(p)
      /\ job'[p].doomed = {} /\ job[p].doomed = {}
  BY <1>2, <1>3, <1>5, Moving DEF Storing, Pre, Reserved
<1>7. Staged(p)' /\ Promised(p)'
  BY <1>2, <1>4 DEF Staged, Promised, Pre, Reserved, db
<1>8. Undone(p)'
  BY <1>2, <1>4 DEF Undone, Staged
<1>9. CleanStep(p)
  BY <1>2, <1>6, <1>8, BareClean
     DEF StrayOf, EmptiedOf, AwaitedOf, FailedOf, Pre, Reserved
<1>10. QED BY <1>1, <1>2, <1>3, <1>6, <1>7, <1>9, Running, Combined DEF Sound

\* Writing the file of a row that is nobody else's and has no artifact.
LEMMA WriteKInv ==
  ASSUME IInv, KInv, NEW p \in Procs,
         WriteTemporary(p) \/ Publish(p) \/ WriteFails(p)
  PROVE  KInv'
<1>1. TypeOK /\ Frame(p) /\ TypeOK'
  BY StoreFrame, StoreTypeOK DEF IInv, Store, WriteTemporary, Publish, WriteFails
<1>2. Staged(p) /\ Owning(p)
  BY OwnState
<1>3. PICK h \in Rows : h = job[p].row
  BY <1>2 DEF Owning, WriteTemporary, Publish, WriteFails, Storing, Pre, Reserved
<1>4. /\ pc[p] \in {"write", "publish"} /\ job' = job /\ UNCHANGED <<db, fate>>
      /\ pc'[p] \in {"publish", "commit", "undo"} /\ up' = up
      /\ clean' => clean
      /\ \A k \in Rows : k # h => file'[k] = file[k]
      /\ pc'[p] = "commit" => Complete(h)'
      /\ pc'[p] = "undo" /\ clean' => file'[h] = "absent"
      /\ pc[p] = "write" => file[h] = "absent"
  BY <1>1, <1>2, <1>3
     DEF WriteTemporary, Publish, WriteFails, Unlink, Goto, Complete, Staged, TypeOK
<1>5. /\ art[h] = None /\ fate[h] # "acked" /\ bytes[h] \in Sizes
      /\ Mine(p, h) /\ \A k \in Rows : k # h => ~ Mine(p, k)
  BY <1>2, <1>3, <1>4 DEF Staged, Owning, Mine, Storing, Pre, Reserved
<1>6. /\ users' = users /\ rows' = rows /\ owner' = owner /\ parent' = parent
      /\ art' = art /\ fate' = fate /\ bytes' = bytes
  BY <1>4 DEF db
<1>7. Mild(p)
  <2>1. \A k \in Rows : file'[k] # file[k] => pc[p] \in {"write", "publish"} /\ k = job[p].row
    BY <1>3, <1>4
  <2>2. QED BY <1>1, <1>6, <2>1 DEF Mild
<1>8. RowStep(p)
  <2>1. rows \subseteq Rows /\ \A k \in Rows : Listed(k) /\ Member(k)
    BY <1>1 DEF KInv, RowsSound, TypeOK
  <2>2. QED BY <1>5, <1>6, <2>1 DEF RowStep, Listed, Member
<1>9. /\ Owning(p)' /\ Judged(p)' /\ Clearing(p)' /\ Closing(p)' /\ Distinct(p)
      /\ job'[p].doomed = {} /\ job[p].doomed = {}
  BY <1>3, <1>4, <1>5, <1>6, <1>7, Moving DEF Storing, Pre, Reserved
<1>10. Staged(p)' /\ Promised(p)'
  BY <1>3, <1>4, <1>5, <1>6 DEF Staged, Promised, Pre, Reserved, Complete
<1>11. CleanStep(p)
  <2>1. Undone(p)' \/ ~clean'
    BY <1>3, <1>4 DEF Undone
  <2>2. ASSUME NEW k \in Rows
        PROVE  /\ IsEmptied(k)' => IsEmptied(k)
               /\ IsAwaited(k)' = IsAwaited(k) /\ IsFailed(k)' = IsFailed(k)
               /\ k # h => IsStray(k)' = IsStray(k)
    BY <1>4, <1>5, <1>6 DEF IsEmptied, IsAwaited, IsFailed, IsStray
  <2>3. ASSUME NEW k \in Rows
        PROVE  /\ ~EmptiedOf(p, k) /\ ~FailedOf(p, k)
               /\ AwaitedOf(p, k) => AwaitedOf(p, k)'
               /\ StrayOf(p, k) => k = h
    BY <1>3, <1>4, <1>9 DEF StrayOf, EmptiedOf, AwaitedOf, FailedOf, Pre, Reserved
  <2>4. clean' /\ IsStray(h)' => StrayOf(p, h)'
    BY <1>3, <1>4 DEF IsStray, StrayOf
  <2>5. QED BY <1>4, <2>1, <2>2, <2>3, <2>4 DEF CleanStep
<1>12. QED BY <1>1, <1>4, <1>7, <1>8, <1>9, <1>10, <1>11, Running, Combined DEF Sound

\* Committing the artifact row, or losing track of whether it was committed.
LEMMA CommitKInv ==
  ASSUME IInv, KInv, NEW p \in Procs, Commit(p) \/ CommitFails(p)
  PROVE  KInv'
<1>1. TypeOK /\ Frame(p) /\ TypeOK'
  BY StoreFrame, StoreTypeOK DEF IInv, Store, Commit, CommitFails
<1>2. Staged(p) /\ Owning(p) /\ pc[p] = "commit"
  BY OwnState DEF Commit, CommitFails
<1>3. PICK h \in Rows : h = job[p].row
  BY <1>2 DEF Owning, Storing, Pre, Reserved
<1>4. /\ art[h] = None /\ fate[h] # "acked" /\ Complete(h) /\ owner[h] # None
      /\ parent[h] = None
      /\ Mine(p, h) /\ \A k \in Rows : k # h => ~ Mine(p, k)
  BY <1>2, <1>3, NoneIsFresh DEF Staged, Owning, Mine, Storing, Pre, Reserved
<1>5. /\ users' = users /\ rows' = rows /\ owner' = owner /\ parent' = parent
      /\ file' = file /\ bytes' = bytes /\ up' = up /\ clean' = clean
      /\ \A k \in Rows : k # h => art'[k] = art[k] /\ fate'[k] = fate[k]
      /\ art'[h] = art[h] \/ (art'[h] = "verified" /\ h \in rows)
  BY <1>1, <1>3 DEF Commit, CommitFails, TypeOK, Acked
<1>6. \/ /\ pc'[p] = "idle" /\ Finish(p) /\ fate' = Acked(h)
         /\ art'[h] = "verified" /\ h \in rows
      \/ /\ pc'[p] = "member" /\ job' = job /\ fate' = fate
         /\ art'[h] = "verified" /\ h \in rows
      \/ pc'[p] = "undo_file" /\ job' = job /\ fate' = fate
  BY <1>1, <1>3 DEF Commit, CommitFails, Finish, Goto, TypeOK
<1>7. /\ fate[h] = "open" => fate'[h] \in {"open", "acked"}
      /\ fate[h] # "open" => fate'[h] = fate[h]
      /\ fate'[h] = "acked" => art'[h] = "verified" /\ h \in rows
  BY <1>1, <1>4, <1>6 DEF Acked, TypeOK
<1>8. Mild(p)
  BY <1>1, <1>2, <1>3, <1>4, <1>5, <1>7 DEF Mild
<1>9. RowStep(p)
  <2>1. rows \subseteq Rows /\ \A k \in Rows : Listed(k) /\ Member(k)
    BY <1>1 DEF KInv, RowsSound, TypeOK
  <2>2. Complete(h)'
    BY <1>4, <1>5 DEF Complete
  <2>3. \A k \in Rows : owner[k] = None => k # h /\ fate'[k] = fate[k]
    BY <1>4, <1>5
  <2>4. \A k \in Rows : art'[k] # None => k \in rows'
    BY <1>4, <1>5, <2>1 DEF Listed
  <2>5. \A k \in Rows : art'[k] = "missing" => art[k] = "missing"
    BY <1>4, <1>5
  <2>6. \A k \in Rows : fate'[k] = "acked" /\ Mine(p, k) =>
          k \in rows' /\ art'[k] # None /\ Complete(k)'
    BY <1>4, <1>5, <1>7, <2>2, NoneIsFresh
  <2>7. QED BY <1>5, <2>1, <2>3, <2>4, <2>5, <2>6 DEF RowStep, Listed, Member
<1>10. Sound(p)' /\ Distinct(p) /\ Undone(p)'
  <2>1. CASE Finish(p)
    BY <1>1, <2>1, Ended
  <2>2. CASE ~ Finish(p)
    <3>1. pc'[p] \in {"member", "undo_file"} /\ job' = job /\ fate' = fate
          /\ (pc'[p] = "member" => art'[h] = "verified" /\ h \in rows)
      BY <1>6, <2>2
    <3>2. /\ Owning(p)' /\ Judged(p)' /\ Clearing(p)' /\ Closing(p)' /\ Distinct(p)
      BY <1>2, <1>3, <1>4, <1>8, <3>1, Moving DEF Storing, Pre, Reserved
    <3>3. Staged(p)' /\ Promised(p)' /\ Undone(p)'
      BY <1>3, <1>4, <1>5, <3>1, NoneIsFresh
         DEF Staged, Promised, Undone, Pre, Reserved, Complete
    <3>4. QED BY <3>2, <3>3 DEF Sound
  <2>3. QED BY <2>1, <2>2
<1>11. CleanStep(p)
  <2>1. ASSUME NEW k \in Rows
        PROVE  /\ IsEmptied(k)' => IsEmptied(k)
               /\ IsStray(k)' => IsStray(k)
               /\ IsAwaited(k)' => IsAwaited(k)
               /\ IsFailed(k)' => IsFailed(k)
    BY <1>4, <1>5, <1>7 DEF IsEmptied, IsAwaited, IsFailed, IsStray, Complete
  <2>2. ASSUME NEW k \in Rows
        PROVE  /\ ~EmptiedOf(p, k) /\ ~FailedOf(p, k)
               /\ StrayOf(p, k) => k = h
               /\ AwaitedOf(p, k) => k = h
    BY <1>2, <1>3, OwnState DEF StrayOf, EmptiedOf, AwaitedOf, FailedOf, Clearing
  <2>3. ASSUME NEW k \in Rows PROVE k = h /\ IsStray(k)' => StrayOf(p, k)'
    BY <1>3, <1>6, NoneIsFresh DEF IsStray, StrayOf
  <2>4. ASSUME NEW k \in Rows PROVE k = h /\ IsAwaited(k)' => AwaitedOf(p, k)'
    BY <1>3, <1>6, NoneIsFresh DEF IsAwaited, AwaitedOf
  <2>5. ASSUME NEW k \in Rows
        PROVE  /\ IsStray(k)' /\ (~IsStray(k) \/ StrayOf(p, k)) => StrayOf(p, k)'
               /\ IsEmptied(k)' => IsEmptied(k) /\ ~EmptiedOf(p, k)
               /\ IsAwaited(k)' /\ (~IsAwaited(k) \/ AwaitedOf(p, k)) => AwaitedOf(p, k)'
               /\ IsFailed(k)' => IsFailed(k) /\ ~FailedOf(p, k)
    BY <2>1, <2>2, <2>3, <2>4
  <2>6. QED BY <1>5, <1>10, <2>5 DEF CleanStep
<1>12. QED BY <1>1, <1>2, <1>5, <1>8, <1>9, <1>10, <1>11, Running, Combined

\* A file that is removed by the request in charge of its row.
LEMMA Unlinking ==
  ASSUME TypeOK, KInv, NEW p \in Procs, Frame(p), NEW h \in Rows, Unlink(h),
         UNCHANGED <<db, fate>>, h \in Removing(p) \/ Mine(p, h)
  PROVE  /\ Mild(p) /\ RowStep(p)
         /\ file'[h] = "absent" /\ \A k \in Rows : k # h => file'[k] = file[k]
         /\ \A k \in Rows : /\ IsStray(k)' => IsStray(k)
                            /\ IsStray(k)' => k # h
                            /\ IsEmptied(k)' => IsEmptied(k) \/ k = h
                            /\ IsAwaited(k)' = IsAwaited(k)
                            /\ IsFailed(k)' = IsFailed(k)
<1>1. file'[h] = "absent" /\ \A k \in Rows : k # h => file'[k] = file[k]
  BY DEF TypeOK, Unlink
<1>2. /\ users' = users /\ rows' = rows /\ owner' = owner /\ parent' = parent
      /\ art' = art /\ fate' = fate
  BY DEF db
<1>3. Mild(p)
  BY <1>1, <1>2 DEF Mild
<1>4. RowStep(p)
  <2>1. /\ rows \subseteq Rows /\ Owning(p)
        /\ \A k \in Rows : Listed(k) /\ Member(k)
    BY OwnState DEF KInv, RowsSound, TypeOK
  <2>2. QED BY <1>2, <2>1 DEF RowStep, Listed, Member, Mine, Owning
<1>5. ASSUME NEW k \in Rows
      PROVE  /\ IsStray(k)' => IsStray(k)
             /\ IsStray(k)' => k # h
             /\ IsEmptied(k)' => IsEmptied(k) \/ k = h
             /\ IsAwaited(k)' = IsAwaited(k)
             /\ IsFailed(k)' = IsFailed(k)
  BY <1>1, <1>2 DEF IsStray, IsEmptied, IsAwaited, IsFailed
<1>6. QED BY <1>1, <1>3, <1>4, <1>5

\* Rows deleted by the request in charge of them, members included.
LEMMA Deletion ==
  ASSUME TypeOK, KInv, NEW p \in Procs, Frame(p), NEW S \in SUBSET Rows,
         DeleteGroup(S), UNCHANGED <<file, fate>>,
         \A h \in S : fate[h] = "condemned" \/ Mine(p, h)
  PROVE  /\ Mild(p) /\ RowStep(p)
         /\ \A k \in S : k \notin rows' /\ art'[k] = None
         /\ \A k \in Rows : /\ IsStray(k)' => IsStray(k) \/ (k \in S /\ file[k] # "absent")
                            /\ IsEmptied(k)' => IsEmptied(k)
                            /\ IsAwaited(k)' => IsAwaited(k)
                            /\ IsFailed(k)' => IsFailed(k)
                            /\ IsEmptied(k)' \/ IsAwaited(k)' \/ IsFailed(k)' => k \notin S
<1>1. /\ users' = users /\ owner' = owner /\ parent' = parent /\ bytes' = bytes
      /\ file' = file /\ fate' = fate
      /\ rows' = rows \ Group(S)
      /\ \A k \in Rows : art'[k] = IF k \in Group(S) THEN None ELSE art[k]
  BY DEF DeleteGroup
<1>2. /\ rows \subseteq Rows /\ S \subseteq Group(S) /\ None \notin S
      /\ \A k \in Rows : k \in Group(S) => k \in S \/ (parent[k] \in S /\ art[k] = None)
      /\ \A k \in Rows : Listed(k) /\ Member(k)
  BY NoneIsFresh DEF TypeOK, KInv, RowsSound, Member, Group
<1>3. Owning(p)
  BY OwnState
<1>4. Mild(p)
  <2>1. \A k \in Rows : art[k] # None /\ fate[k] # "condemned" /\ k \in Group(S) => Mine(p, k)
    BY <1>2
  <2>2. QED BY <1>1, <2>1 DEF Mild
<1>5. RowStep(p)
  <2>1. ASSUME NEW k \in rows \cap rows', parent[k] # None PROVE parent[k] \in rows'
    <3>1. /\ k \in Rows /\ k \in rows /\ k \notin Group(S)
      BY <1>1, <1>2
    <3>2. /\ parent[k] \in rows /\ parent[parent[k]] = None /\ parent[k] \in Rows
      BY <1>2, <2>1, <3>1 DEF Member
    <3>3. parent[k] \notin S
      BY <3>1 DEF Group
    <3>4. parent[k] \notin Group(S)
      BY <1>2, <3>2, <3>3 DEF Group
    <3>5. QED BY <1>1, <3>2, <3>4
  <2>2. \A k \in Rows : ~ (fate[k] = "acked" /\ Mine(p, k))
    BY <1>3 DEF Mine, Owning
  <2>3. \A k \in Rows : art'[k] # None => k \in rows' /\ art'[k] = art[k]
    BY <1>1, <1>2 DEF Listed
  <2>4. rows' \subseteq rows /\ \A k \in rows : owner[k] \in users'
    BY <1>1, <1>2 DEF Listed
  <2>5. \A k \in Rows : art'[k] = "missing" => art[k] = "missing"
    BY <2>3, NoneIsFresh
  <2>6. QED BY <1>1, <2>1, <2>2, <2>3, <2>4, <2>5 DEF RowStep
<1>6. \A k \in S : k \notin rows' /\ art'[k] = None
  BY <1>1, <1>2
<1>7. ASSUME NEW k \in Rows
      PROVE  /\ IsStray(k)' => IsStray(k) \/ (k \in S /\ file[k] # "absent")
             /\ IsEmptied(k)' => IsEmptied(k)
             /\ IsAwaited(k)' => IsAwaited(k)
             /\ IsFailed(k)' => IsFailed(k)
             /\ IsEmptied(k)' \/ IsAwaited(k)' \/ IsFailed(k)' => k \notin S
  <2>1. k \in rows' => art'[k] = art[k]
    BY <1>1
  <2>2. art'[k] # None => art'[k] = art[k] /\ k \notin S
    BY <1>1, <1>2
  <2>3. art'[k] # art[k] => k \in S
    BY <1>1, <1>2
  <2>4. k \in rows' => k \in rows /\ k \notin S
    BY <1>1, <1>2
  <2>5. QED BY <1>1, <2>1, <2>2, <2>3, <2>4 DEF IsStray, IsEmptied, IsAwaited, IsFailed
<1>8. QED BY <1>4, <1>5, <1>6, <1>7

\* A refused insert leaves the file to the except clause.
LEMMA InsertRefusedKInv ==
  ASSUME IInv, KInv, NEW p \in Procs, InsertRefused(p)
  PROVE  KInv'
<1>1. TypeOK /\ Frame(p) /\ TypeOK'
  BY StoreFrame, StoreTypeOK DEF IInv, Store, InsertRefused
<1>2. /\ pc[p] = "commit" /\ job' = job /\ UNCHANGED <<db, file, fate>>
      /\ pc'[p] = "undo_file" /\ up' = up /\ clean' = clean
  BY <1>1 DEF InsertRefused, Goto, TypeOK
<1>3. Mild(p) /\ RowStep(p)
  BY <1>1, <1>2, Bare
<1>4. Staged(p) /\ Owning(p)
  BY OwnState
<1>5. fate'[job[p].row] # "acked"
  BY <1>2, <1>4 DEF Owning, Storing, Pre, Reserved
<1>6. /\ Owning(p)' /\ Judged(p)' /\ Clearing(p)' /\ Closing(p)' /\ Distinct(p)
      /\ job'[p].doomed = {} /\ job[p].doomed = {}
  BY <1>2, <1>3, <1>5, Moving DEF Storing, Pre, Reserved
<1>7. Staged(p)' /\ Promised(p)' /\ Undone(p)'
  BY <1>2 DEF Staged, Promised, Undone, Pre, Reserved
<1>8. CleanStep(p)
  BY <1>2, <1>6, <1>7, BareClean
     DEF StrayOf, EmptiedOf, AwaitedOf, FailedOf, Pre, Reserved
<1>9. QED BY <1>1, <1>2, <1>3, <1>6, <1>7, <1>8, Running, Combined DEF Sound

\* The except clause removes the file, or marks the state unclean.
LEMMA UndoFileKInv ==
  ASSUME IInv, KInv, NEW p \in Procs, UndoFile(p)
  PROVE  KInv'
<1>1. TypeOK /\ Frame(p) /\ TypeOK'
  BY StoreFrame, StoreTypeOK DEF IInv, Store, UndoFile
<1>2. /\ pc[p] = "undo_file" /\ job' = job /\ UNCHANGED <<db, fate>>
      /\ pc'[p] = "undo" /\ up' = up
      /\ \/ Unlink(job[p].row) /\ clean' = clean
         \/ UNCHANGED file /\ clean' = FALSE
  BY <1>1 DEF UndoFile, Goto, TypeOK
<1>3. Staged(p) /\ Owning(p)
  BY OwnState
<1>4. PICK h \in Rows : h = job[p].row
  BY <1>2, <1>3 DEF Owning, Storing
<1>5. Mine(p, h) /\ fate[h] # "acked"
  BY <1>2, <1>3, <1>4 DEF Mine, Storing, Owning
<1>6. Mild(p) /\ RowStep(p)
  BY <1>1, <1>2, <1>4, <1>5, Bare, Unlinking
<1>7. /\ Owning(p)' /\ Judged(p)' /\ Clearing(p)' /\ Closing(p)' /\ Distinct(p)
      /\ job'[p].doomed = {} /\ job[p].doomed = {}
  BY <1>2, <1>4, <1>5, <1>6, Moving DEF Storing, Pre, Reserved
<1>8. Staged(p)' /\ Promised(p)'
  BY <1>2 DEF Staged, Promised, Pre, Reserved
<1>9. CleanStep(p)
  <2>1. CASE UNCHANGED file /\ clean' = FALSE
    BY <2>1 DEF CleanStep
  <2>2. CASE Unlink(h) /\ clean' = clean
    <3>1. /\ file'[h] = "absent"
          /\ \A k \in Rows : /\ IsStray(k)' => IsStray(k)
                             /\ IsStray(k)' => k # h
                             /\ IsEmptied(k)' => IsEmptied(k) \/ k = h
                             /\ IsAwaited(k)' = IsAwaited(k)
                             /\ IsFailed(k)' = IsFailed(k)
      BY <1>1, <1>2, <1>5, <2>2, Unlinking
    <3>2. Undone(p)'
      BY <1>2, <1>4, <3>1 DEF Undone
    <3>3. ASSUME NEW k \in Rows
          PROVE  /\ StrayOf(p, k) => k = h
                 /\ k = h => EmptiedOf(p, k)'
                 /\ ~ EmptiedOf(p, k) /\ ~ FailedOf(p, k)
                 /\ AwaitedOf(p, k) => AwaitedOf(p, k)'
      BY <1>2, <1>4, <1>7 DEF StrayOf, EmptiedOf, AwaitedOf, FailedOf
    <3>4. QED BY <2>2, <3>1, <3>2, <3>3 DEF CleanStep
  <2>3. QED BY <1>2, <1>4, <2>1, <2>2
<1>10. QED BY <1>1, <1>2, <1>6, <1>7, <1>8, <1>9, Running, Combined DEF Sound

\* delete_history_group, after which an archive is cleaned up once more.
LEMMA UndoKInv ==
  ASSUME IInv, KInv, NEW p \in Procs, Undo(p)
  PROVE  KInv'
<1>1. TypeOK /\ Frame(p) /\ TypeOK'
  BY StoreFrame, StoreTypeOK DEF IInv, Store, Undo
<1>2. /\ pc[p] \in {"undo", "undo_quota"} /\ DeleteGroup({job[p].row})
      /\ UNCHANGED <<file, fate>> /\ up' = up /\ clean' = clean
      /\ Finish(p) \/ (pc'[p] = "archive_undo_file" /\ job' = job)
  BY <1>1 DEF Undo, AfterUndo, Goto, TypeOK
<1>3. Staged(p) /\ Owning(p) /\ (clean => Undone(p))
  BY OwnState DEF KInv, CleanSound
<1>4. PICK h \in Rows : h = job[p].row
  BY <1>2, <1>3 DEF Owning, Storing
<1>5. Mine(p, h) /\ fate[h] # "acked" /\ (clean => file[h] = "absent")
  BY <1>2, <1>3, <1>4 DEF Mine, Storing, Owning, Undone
<1>6. /\ Mild(p) /\ RowStep(p)
      /\ \A k \in Rows : /\ IsStray(k)' => IsStray(k) \/ (k = h /\ file[k] # "absent")
                         /\ IsEmptied(k)' => IsEmptied(k)
                         /\ IsAwaited(k)' => IsAwaited(k)
                         /\ IsFailed(k)' => IsFailed(k)
                         /\ IsEmptied(k)' \/ IsAwaited(k)' \/ IsFailed(k)' => k # h
  <2> DEFINE S == {h}
  <2>1. S \in SUBSET Rows /\ DeleteGroup(S) /\ \A k \in S : Mine(p, k)
    BY <1>2, <1>4, <1>5
  <2>2. \A k \in Rows : k \in S <=> k = h
    OBVIOUS
  <2> HIDE DEF S
  <2>3. QED BY <1>1, <1>2, <2>1, <2>2, Deletion
<1>7. Sound(p)' /\ Distinct(p) /\ Undone(p)'
  <2>1. CASE Finish(p)
    BY <1>1, <2>1, Ended
  <2>2. CASE ~ Finish(p)
    <3>1. pc'[p] = "archive_undo_file" /\ job' = job /\ fate' = fate
      BY <1>2, <2>2
    <3>2. Owning(p)' /\ Judged(p)' /\ Clearing(p)' /\ Closing(p)' /\ Distinct(p)
      BY <1>2, <1>4, <1>5, <1>6, <3>1, Moving DEF Storing, Pre, Reserved
    <3>3. Staged(p)' /\ Promised(p)' /\ Undone(p)'
      BY <3>1 DEF Staged, Promised, Undone, Pre, Reserved
    <3>4. QED BY <3>2, <3>3 DEF Sound
  <2>3. QED BY <2>1, <2>2
<1>8. CleanStep(p)
  <2>1. ASSUME NEW k \in Rows
        PROVE  /\ ~ StrayOf(p, k) /\ ~ FailedOf(p, k)
               /\ EmptiedOf(p, k) => k = h
               /\ AwaitedOf(p, k) => k = h
    BY <1>2, <1>4, OwnState DEF StrayOf, EmptiedOf, AwaitedOf, FailedOf, Clearing
  <2>2. QED BY <1>2, <1>5, <1>6, <1>7, <2>1 DEF CleanStep
<1>9. QED BY <1>1, <1>2, <1>6, <1>7, <1>8, Running, Combined

\* A clean-up that failed: nothing changes but the state is unclean.
LEMMA UndoFailsKInv ==
  ASSUME IInv, KInv, NEW p \in Procs, UndoFails(p) \/ ArchiveUndoFails(p)
  PROVE  KInv'
<1>1. TypeOK /\ Frame(p) /\ TypeOK'
  BY StoreFrame, StoreTypeOK DEF IInv, Store, UndoFails, ArchiveUndoFails
<1>2. /\ pc[p] \in Storing /\ pc[p] # "idle" /\ UNCHANGED <<db, file, fate>>
      /\ up' = up /\ clean' = FALSE
      /\ Finish(p) \/ (pc'[p] = "archive_undo_file" /\ job' = job)
  BY <1>1 DEF UndoFails, ArchiveUndoFails, AfterUndo, Goto, TypeOK, Storing
<1>3. Mild(p) /\ RowStep(p)
  BY <1>1, <1>2, Bare
<1>4. Owning(p)
  BY OwnState
<1>5. Sound(p)' /\ Distinct(p)
  <2>1. CASE Finish(p)
    BY <1>1, <2>1, Ended
  <2>2. CASE ~ Finish(p)
    <3>1. pc'[p] = "archive_undo_file" /\ job' = job /\ fate' = fate
      BY <1>2, <2>2
    <3>2. fate'[job[p].row] # "acked"
      BY <1>2, <1>4, <3>1 DEF Owning
    <3>3. Owning(p)' /\ Judged(p)' /\ Clearing(p)' /\ Closing(p)' /\ Distinct(p)
      BY <1>2, <1>3, <3>1, <3>2, Moving DEF Storing, Pre, Reserved
    <3>4. Staged(p)' /\ Promised(p)'
      BY <3>1 DEF Staged, Promised, Pre, Reserved
    <3>5. QED BY <3>3, <3>4 DEF Sound
  <2>3. QED BY <2>1, <2>2
<1>6. CleanStep(p)
  BY <1>2 DEF CleanStep
<1>7. QED BY <1>1, <1>2, <1>3, <1>5, <1>6, Running, Combined

\* A member row under an archive that is complete.
LEMMA AddMemberKInv ==
  ASSUME IInv, KInv, NEW p \in Procs, NEW c \in Rows, AddMember(p, c)
  PROVE  KInv'
<1>1. TypeOK /\ Frame(p) /\ TypeOK' /\ Counted(p)
  BY StoreFrame, StoreTypeOK DEF IInv, Store, AddMember, Counted
<1>2. Owning(p) /\ Promised(p) /\ pc[p] = "member"
  BY OwnState DEF AddMember
<1>3. PICK h \in Rows : h = job[p].row
  BY <1>2 DEF Owning, Storing
<1>4. /\ owner[c] = None /\ h \in rows /\ c # h
      /\ owner[h] = job[p].user /\ owner[h] # None /\ parent[h] = None
      /\ fate[h] # "acked" /\ Mine(p, h) /\ (\A k \in Rows : k # h => ~ Mine(p, k))
  BY <1>2, <1>3, NoneIsFresh DEF AddMember, InsertRow, Owning, Storing, Mine
<1>5. /\ users' = users /\ art' = art /\ file' = file /\ up' = up /\ clean' = clean
      /\ rows' = rows \cup {c}
      /\ owner'[c] = owner[h] /\ parent'[c] = h
      /\ \A k \in Rows : k # c => owner'[k] = owner[k] /\ parent'[k] = parent[k]
  BY <1>1, <1>3, <1>4 DEF AddMember, InsertRow, TypeOK
<1>6. \/ Finish(p) /\ fate' = Acked(h)
      \/ /\ pc' = pc /\ fate' = fate
         /\ job'[p].row = job[p].row /\ job'[p].user = job[p].user
         /\ job'[p].todo = job[p].todo /\ job'[p].doomed = job[p].doomed
  BY <1>1, <1>3 DEF AddMember, TypeOK, Job
<1>7. /\ \A k \in Rows : k # h => fate'[k] = fate[k]
      /\ fate[h] = "open" => fate'[h] \in {"open", "acked"}
      /\ fate[h] # "open" => fate'[h] = fate[h]
  BY <1>1, <1>6 DEF Acked, TypeOK
<1>8. Unborn(c) /\ rows \subseteq Rows /\ \A k \in Rows : Listed(k) /\ Member(k)
  BY <1>1 DEF KInv, RowsSound, TypeOK
<1>9. Mild(p)
  BY <1>1, <1>3, <1>4, <1>5, <1>7 DEF Mild
<1>10. fate'[h] = "acked" => fate[h] = "open"
  BY <1>4, <1>7
<1>11. fate[h] = "open" => art[h] # None /\ Complete(h)
  BY <1>2, <1>3 DEF Promised
<1>12. RowStep(p)
  <2>1. \A k \in Rows : owner[k] = None => k # h /\ fate'[k] = fate[k]
    BY <1>4, <1>7
  <2>2. \A k \in rows' \ rows : k = c /\ owner'[k] = owner[h] /\ owner[h] \in users'
    BY <1>3, <1>4, <1>5, <1>8 DEF Listed
  <2>3. ASSUME NEW k \in rows \cap rows'
        PROVE  owner[k] \in users' /\ (parent[k] # None => parent[k] \in rows')
    BY <1>5, <1>8 DEF Listed, Member
  <2>4. \A k \in Rows : fate'[k] = "acked" /\ Mine(p, k) =>
          k \in rows' /\ art'[k] # None /\ Complete(k)'
    BY <1>4, <1>5, <1>10, <1>11 DEF Complete
  <2>5. \A k \in Rows : art'[k] # None => k \in rows'
    BY <1>5, <1>8 DEF Listed
  <2>6. QED BY <1>4, <1>5, <2>1, <2>2, <2>3, <2>4, <2>5 DEF RowStep
<1>13. Sound(p)' /\ Distinct(p) /\ Undone(p)'
  <2>1. CASE Finish(p)
    BY <1>1, <2>1, Ended
  <2>2. CASE ~ Finish(p)
    <3>1. /\ pc'[p] = "member" /\ fate' = fate
          /\ job'[p].row = job[p].row /\ job'[p].user = job[p].user
          /\ job'[p].todo = job[p].todo /\ job'[p].doomed = job[p].doomed
      BY <1>2, <1>6, <2>2
    <3>2. Owning(p)' /\ Judged(p)' /\ Clearing(p)' /\ Closing(p)' /\ Distinct(p)
      BY <1>2, <1>3, <1>4, <1>9, <3>1, Moving DEF Storing, Pre, Reserved
    <3>3. Staged(p)' /\ Undone(p)'
      BY <3>1 DEF Staged, Undone, Pre, Reserved
    <3>4. Promised(p)'
      BY <1>3, <1>4, <1>5, <1>11, <3>1 DEF Promised, Complete
    <3>5. QED BY <3>2, <3>3, <3>4 DEF Sound
  <2>3. QED BY <2>1, <2>2
<1>14. CleanStep(p)
  <2>1. ASSUME NEW k \in Rows
        PROVE  /\ IsStray(k)' = IsStray(k) /\ IsEmptied(k)' = IsEmptied(k)
               /\ IsAwaited(k)' => IsAwaited(k)
    BY <1>4, <1>5, NoneIsFresh DEF IsStray, IsEmptied, IsAwaited
  <2>2. ASSUME NEW k \in Rows, IsFailed(k)' PROVE IsFailed(k)
    BY <1>4, <1>5, <1>7, <1>8, <2>2 DEF IsFailed, Unborn
  <2>3. ASSUME NEW k \in Rows
        PROVE  ~StrayOf(p, k) /\ ~EmptiedOf(p, k) /\ ~AwaitedOf(p, k) /\ ~FailedOf(p, k)
    BY <1>2, OwnState DEF StrayOf, EmptiedOf, AwaitedOf, FailedOf, Clearing, Pre, Reserved
  <2>4. QED BY <1>5, <1>13, <2>1, <2>2, <2>3 DEF CleanStep
<1>15. QED BY <1>1, <1>2, <1>5, <1>9, <1>12, <1>13, <1>14, Running, Combined

\* The archive is refused; on SQLite the handler cleans up after it.
LEMMA AddMemberFailsKInv ==
  ASSUME IInv, KInv, NEW p \in Procs, AddMemberFails(p)
  PROVE  KInv'
<1>1. TypeOK /\ Frame(p) /\ TypeOK'
  BY StoreFrame, StoreTypeOK DEF IInv, Store, AddMemberFails, Counted
<1>2. Owning(p) /\ pc[p] = "member"
  BY OwnState DEF AddMemberFails
<1>3. PICK h \in Rows : h = job[p].row
  BY <1>2 DEF Owning, Storing
<1>4. /\ users' = users /\ rows' = rows /\ owner' = owner /\ parent' = parent
      /\ art' = art /\ file' = file /\ up' = up /\ clean' = clean
      /\ \A k \in Rows : k # h => fate'[k] = fate[k]
      /\ fate[h] = "open" => fate'[h] = "refused"
      /\ fate[h] # "open" => fate'[h] = fate[h]
  BY <1>1, <1>3 DEF AddMemberFails, Refused, TypeOK, db
<1>5. \/ Finish(p) /\ Backend = "postgres"
      \/ pc'[p] = "archive_undo_file" /\ job' = job
  BY <1>1 DEF AddMemberFails, Goto, TypeOK
<1>6. /\ owner[h] # None /\ fate[h] # "acked"
      /\ Mine(p, h) /\ \A k \in Rows : k # h => ~ Mine(p, k)
  BY <1>2, <1>3, NoneIsFresh DEF Owning, Storing, Mine
<1>7. Mild(p)
  BY <1>1, <1>4, <1>6 DEF Mild
<1>8. RowStep(p)
  <2>1. rows \subseteq Rows /\ \A k \in Rows : Listed(k) /\ Member(k)
    BY <1>1 DEF KInv, RowsSound, TypeOK
  <2>2. \A k \in Rows : ~ (fate'[k] = "acked" /\ Mine(p, k))
    BY <1>4, <1>6
  <2>3. \A k \in Rows : owner[k] = None => fate'[k] = fate[k]
    BY <1>4, <1>6
  <2>4. QED BY <1>4, <2>1, <2>2, <2>3 DEF RowStep, Listed, Member
<1>9. Sound(p)' /\ Distinct(p) /\ Undone(p)'
  <2>1. CASE Finish(p)
    BY <1>1, <2>1, Ended
  <2>2. CASE ~ Finish(p)
    <3>1. pc'[p] = "archive_undo_file" /\ job' = job /\ fate'[h] # "acked"
      BY <1>4, <1>5, <1>6, <2>2
    <3>2. Owning(p)' /\ Judged(p)' /\ Clearing(p)' /\ Closing(p)' /\ Distinct(p)
      BY <1>2, <1>3, <1>7, <3>1, Moving DEF Storing, Pre, Reserved
    <3>3. Staged(p)' /\ Promised(p)' /\ Undone(p)'
      BY <3>1 DEF Staged, Promised, Undone, Pre, Reserved
    <3>4. QED BY <3>2, <3>3 DEF Sound
  <2>3. QED BY <2>1, <2>2
<1>10. CleanStep(p)
  <2>1. ASSUME NEW k \in Rows
        PROVE  /\ IsStray(k)' = IsStray(k) /\ IsEmptied(k)' = IsEmptied(k)
               /\ IsAwaited(k)' = IsAwaited(k)
    BY <1>4 DEF IsStray, IsEmptied, IsAwaited
  <2>2. ASSUME NEW k \in Rows
        PROVE  ~StrayOf(p, k) /\ ~EmptiedOf(p, k) /\ ~AwaitedOf(p, k) /\ ~FailedOf(p, k)
    BY <1>2, OwnState DEF StrayOf, EmptiedOf, AwaitedOf, FailedOf, Clearing, Pre, Reserved
  <2>3. ASSUME NEW k \in Rows, IsFailed(k)' PROVE IsFailed(k) \/ FailedOf(p, k)'
    <3>1. k # h => IsFailed(k)
      BY <1>4, <2>3 DEF IsFailed
    <3>2. k = h => FailedOf(p, k)'
      BY <1>3, <1>5, <2>3 DEF IsFailed, FailedOf
    <3>3. QED BY <3>1, <3>2
  <2>4. QED BY <1>4, <1>9, <2>1, <2>2, <2>3 DEF CleanStep
<1>11. QED BY <1>1, <1>2, <1>4, <1>7, <1>8, <1>9, <1>10, Running, Combined

\* The archive handler's delete, whose failure it swallows.
LEMMA ArchiveUndoFileKInv ==
  ASSUME IInv, KInv, NEW p \in Procs, ArchiveUndoFile(p)
  PROVE  KInv'
<1>1. TypeOK /\ Frame(p) /\ TypeOK'
  BY StoreFrame, StoreTypeOK DEF IInv, Store, ArchiveUndoFile
<1>2. /\ pc[p] = "archive_undo_file" /\ job' = job /\ UNCHANGED <<db, fate>>
      /\ pc'[p] = "archive_undo_row" /\ up' = up
      /\ \/ Unlink(job[p].row) /\ clean' = clean
         \/ UNCHANGED file /\ (clean' = FALSE \/ (clean' = clean /\ art[job[p].row] = None))
  BY <1>1 DEF ArchiveUndoFile, Goto, TypeOK
<1>3. Owning(p)
  BY OwnState
<1>4. PICK h \in Rows : h = job[p].row
  BY <1>2, <1>3 DEF Owning, Storing
<1>5. Mine(p, h) /\ fate[h] # "acked"
  BY <1>2, <1>3, <1>4 DEF Mine, Storing, Owning
<1>6. Mild(p) /\ RowStep(p)
  BY <1>1, <1>2, <1>4, <1>5, Bare, Unlinking
<1>7. /\ Owning(p)' /\ Judged(p)' /\ Clearing(p)' /\ Closing(p)' /\ Distinct(p)
      /\ job'[p].doomed = {} /\ job[p].doomed = {}
  BY <1>2, <1>4, <1>5, <1>6, Moving DEF Storing, Pre, Reserved
<1>8. Staged(p)' /\ Promised(p)'
  BY <1>2 DEF Staged, Promised, Pre, Reserved
<1>9. ASSUME NEW k \in Rows
      PROVE  /\ ~ StrayOf(p, k) /\ ~ EmptiedOf(p, k) /\ ~ AwaitedOf(p, k)
             /\ k = h => EmptiedOf(p, k)'
             /\ FailedOf(p, k) => FailedOf(p, k)'
  BY <1>2, <1>4, <1>7 DEF StrayOf, EmptiedOf, AwaitedOf, FailedOf, Pre, Reserved
<1>10. CleanStep(p)
  <2>1. CASE clean' = FALSE
    BY <2>1 DEF CleanStep
  <2>2. CASE Unlink(h) /\ clean' = clean
    <3>1. /\ file'[h] = "absent"
          /\ \A k \in Rows : /\ IsStray(k)' => IsStray(k)
                             /\ IsEmptied(k)' => IsEmptied(k) \/ k = h
                             /\ IsAwaited(k)' = IsAwaited(k)
                             /\ IsFailed(k)' = IsFailed(k)
      BY <1>1, <1>2, <1>5, <2>2, Unlinking
    <3>2. Undone(p)'
      BY <1>2, <1>4, <3>1 DEF Undone
    <3>3. QED BY <1>9, <2>2, <3>1, <3>2 DEF CleanStep
  <2>3. CASE UNCHANGED file /\ clean' = clean /\ art[h] = None
    <3>1. Undone(p)' \/ ~clean'
      <4>1. SUFFICES ASSUME clean, file[h] # "absent" PROVE FALSE
        BY <1>2, <1>4, <2>3 DEF Undone
      <4>2. PICK q \in Procs : job[q].row = h /\ pc[q] \in {"publish", "commit", "undo_file"}
        BY <2>3, <4>1 DEF KInv, CleanSound, SeenTo, IsStray, StrayOf
      <4>3. p # q /\ pc[q] \in Storing /\ pc[p] \in Storing
        BY <1>2, <4>2 DEF Storing, Pre, Reserved
      <4>4. QED BY <1>4, <4>2, <4>3 DEF KInv, Apart
    <3>2. clean' => Undone(p)'
      BY <3>1
    <3>3. QED BY <1>2, <1>9, <2>3, <3>2, BareClean
  <2>4. QED BY <1>2, <1>4, <2>1, <2>2, <2>3
<1>11. QED BY <1>1, <1>2, <1>6, <1>7, <1>8, <1>10, Running, Combined DEF Sound

LEMMA ArchiveUndoRowKInv ==
  ASSUME IInv, KInv, NEW p \in Procs, ArchiveUndoRow(p)
  PROVE  KInv'
<1>1. TypeOK /\ Frame(p) /\ TypeOK'
  BY StoreFrame, StoreTypeOK DEF IInv, Store, ArchiveUndoRow
<1>2. /\ pc[p] = "archive_undo_row" /\ DeleteGroup({job[p].row})
      /\ UNCHANGED <<file, fate>> /\ up' = up /\ clean' = clean /\ Finish(p)
  BY DEF ArchiveUndoRow
<1>3. Owning(p) /\ (clean => Undone(p))
  BY OwnState DEF KInv, CleanSound
<1>4. PICK h \in Rows : h = job[p].row
  BY <1>2, <1>3 DEF Owning, Storing
<1>5. Mine(p, h) /\ (clean => file[h] = "absent")
  BY <1>2, <1>3, <1>4 DEF Mine, Storing, Undone
<1>6. /\ Mild(p) /\ RowStep(p)
      /\ \A k \in Rows : /\ IsStray(k)' => IsStray(k) \/ (k = h /\ file[k] # "absent")
                         /\ IsEmptied(k)' => IsEmptied(k)
                         /\ IsAwaited(k)' => IsAwaited(k)
                         /\ IsFailed(k)' => IsFailed(k)
                         /\ IsEmptied(k)' \/ IsAwaited(k)' \/ IsFailed(k)' => k # h
  <2> DEFINE S == {h}
  <2>1. S \in SUBSET Rows /\ DeleteGroup(S) /\ \A k \in S : Mine(p, k)
    BY <1>2, <1>4, <1>5
  <2>2. \A k \in Rows : k \in S <=> k = h
    OBVIOUS
  <2> HIDE DEF S
  <2>3. QED BY <1>1, <1>2, <2>1, <2>2, Deletion
<1>7. Sound(p)' /\ Distinct(p) /\ Undone(p)'
  BY <1>1, <1>2, Ended
<1>8. CleanStep(p)
  <2>1. ASSUME NEW k \in Rows
        PROVE  /\ ~ StrayOf(p, k) /\ ~ AwaitedOf(p, k)
               /\ EmptiedOf(p, k) => k = h
               /\ FailedOf(p, k) => k = h
    BY <1>2, <1>4, OwnState
       DEF StrayOf, EmptiedOf, AwaitedOf, FailedOf, Clearing, Pre, Reserved
  <2>2. QED BY <1>2, <1>5, <1>6, <1>7, <2>1 DEF CleanStep
<1>9. QED BY <1>1, <1>2, <1>6, <1>7, <1>8, Running, Combined

LEMMA StoreKInv ==
  ASSUME IInv, KInv, NEW p \in Procs, Store(p)
  PROVE  KInv'
  BY AddHistoryKInv, AddHistoryFailsKInv, ReserveKInv, WriteKInv, CommitKInv,
     InsertRefusedKInv, UndoFileKInv, UndoKInv, UndoFailsKInv, AddMemberKInv,
     AddMemberFailsKInv, ArchiveUndoFileKInv, ArchiveUndoRowKInv DEF Store

(***************************************************************************)
(* The steps of a download, a deletion and a retention pass                *)
(***************************************************************************)
LEMMA DownloadKInv ==
  ASSUME IInv, KInv, NEW p \in Procs, Download(p)
  PROVE  KInv'
<1>1. TypeOK /\ Frame(p) /\ TypeOK'
  BY DownloadTypeOK DEF IInv
<1>2. Clearing(p) /\ Judged(p) /\ pc[p] \in {"read", "mark"}
  BY OwnState DEF Download, ReadVerified, SetIntegrity, SetIntegrityFails
<1>3. PICK h \in Rows : h = job[p].row
  BY <1>2 DEF Clearing, Touched
<1>4. job[p].doomed = {} /\ job[p].todo = {} /\ Removing(p) = {} /\ Touched(p) = {h}
  BY <1>2, <1>3 DEF Clearing, Touched, Removing
<1>5. ASSUME NEW k \in Rows
      PROVE  ~StrayOf(p, k) /\ ~EmptiedOf(p, k) /\ ~AwaitedOf(p, k) /\ ~FailedOf(p, k)
  BY <1>2, <1>4 DEF StrayOf, EmptiedOf, AwaitedOf, FailedOf, Pre, Reserved
<1>6. CASE ReadVerified(p)
  <2>1. /\ pc[p] = "read" /\ pc'[p] = "mark" /\ UNCHANGED <<db, file, fate>>
        /\ up' = up /\ clean' = clean
        /\ job'[p].row = h /\ job'[p].todo = {} /\ job'[p].doomed = {}
        /\ job'[p].seen \in Statuses
        /\ job'[p].seen = "missing" /\ ~StatFails => ~Complete(h)
    BY <1>1, <1>3, <1>4, <1>6
       DEF ReadVerified, Verdicts, Goto, TypeOK, Job, Statuses, Complete, Files
  <2>2. Mild(p) /\ RowStep(p)
    BY <1>1, <2>1, Bare
  <2>3. Removing(p)' = {} /\ Touched(p)' = {h}
    BY <2>1 DEF Removing, Touched
  <2>4. Judged(p)'
    BY <2>1 DEF Judged, Complete
  <2>5. Clearing(p)'
    BY <1>2, <1>4, <2>1, <2>3 DEF Clearing, db
  <2>6. Owning(p)' /\ Staged(p)' /\ Promised(p)' /\ Closing(p)' /\ Undone(p)'
    BY <2>1 DEF Owning, Staged, Promised, Closing, Undone, Storing, Pre, Reserved
  <2>7. Distinct(p)
    BY <1>4, <2>1, <2>3 DEF Distinct, Storing, Pre, Reserved
  <2>8. CleanStep(p)
    BY <1>5, <2>1, <2>6, BareClean
  <2>9. QED BY <1>1, <2>1, <2>2, <2>4, <2>5, <2>6, <2>7, <2>8, Running, Combined DEF Sound
<1>7. CASE SetIntegrity(p) \/ SetIntegrityFails(p)
  <2>1. /\ pc[p] = "mark" /\ Finish(p) /\ up' = up /\ clean' = clean
        /\ users' = users /\ rows' = rows /\ owner' = owner /\ parent' = parent
        /\ file' = file /\ fate' = fate
        /\ \A k \in Rows : k # h => art'[k] = art[k]
        /\ art'[h] = None <=> art[h] = None
        /\ art'[h] = art[h] \/ art'[h] = job[p].seen
    BY <1>1, <1>2, <1>3, <1>7, NoneIsFresh
       DEF SetIntegrity, SetIntegrityFails, TypeOK, Judged, Statuses, db
  <2>2. Sound(p)' /\ Distinct(p) /\ Undone(p)'
    BY <1>1, <2>1, Ended
  <2>3. art'[h] = "missing" /\ ~StatFails => art[h] = "missing" \/ ~Complete(h)
    BY <1>2, <1>3, <2>1 DEF Judged
  <2>4. Mild(p)
    BY <1>1, <2>1 DEF Mild
  <2>5. RowStep(p)
    <3>1. /\ rows \subseteq Rows /\ \A k \in Rows : Listed(k) /\ Member(k)
      BY <1>1 DEF KInv, RowsSound, TypeOK
    <3>2. \A k \in Rows : ~ Mine(p, k)
      BY <2>1 DEF Mine, Storing, Pre, Reserved
    <3>3. \A k \in Rows : art'[k] = "missing" /\ ~StatFails =>
            art[k] = "missing" \/ ~Complete(k)'
      BY <2>1, <2>3 DEF Complete
    <3>4. \A k \in Rows : art'[k] # None => art[k] # None
      BY <2>1
    <3>5. QED BY <2>1, <3>1, <3>2, <3>3, <3>4 DEF RowStep, Listed, Member
  <2>6. CleanStep(p)
    <3>1. \A k \in Rows : (art'[k] = None) = (art[k] = None)
      BY <2>1
    <3>2. ASSUME NEW k \in Rows
          PROVE  /\ IsStray(k)' = IsStray(k) /\ IsEmptied(k)' = IsEmptied(k)
                 /\ IsAwaited(k)' = IsAwaited(k) /\ IsFailed(k)' = IsFailed(k)
      BY <2>1, <3>1 DEF IsStray, IsEmptied, IsAwaited, IsFailed
    <3>3. QED BY <1>5, <2>1, <2>2, <3>2 DEF CleanStep
  <2>7. QED BY <1>1, <2>1, <2>2, <2>4, <2>5, <2>6, Running, Combined
<1>8. QED BY <1>6, <1>7 DEF Download

LEMMA DeleteKInv ==
  ASSUME IInv, KInv, NEW p \in Procs, Delete(p)
  PROVE  KInv'
<1>1. TypeOK /\ Frame(p) /\ TypeOK'
  BY DeleteTypeOK DEF IInv
<1>2. Clearing(p) /\ pc[p] \in {"delete_file", "delete_row"}
  BY OwnState DEF Delete, DeleteFile, DeleteFileFails, DeleteRow, DeleteRowFails
<1>3. PICK h \in Rows : h = job[p].row
  BY <1>2 DEF Clearing, Touched, Removing
<1>4. /\ job[p].doomed = {} /\ job[p].todo = {} /\ Removing(p) = {h} /\ Touched(p) = {h}
      /\ fate[h] = "condemned" /\ owner[h] = job[p].user /\ owner[h] # None
  BY <1>2, <1>3 DEF Clearing, Touched, Removing
<1>5. ASSUME NEW k \in Rows
      PROVE  /\ ~StrayOf(p, k) /\ ~AwaitedOf(p, k) /\ ~FailedOf(p, k)
             /\ EmptiedOf(p, k) => k = h /\ pc[p] = "delete_row"
  BY <1>2, <1>3, <1>4 DEF StrayOf, EmptiedOf, AwaitedOf, FailedOf, Pre, Reserved
<1>6. CASE DeleteFile(p)
  <2>1. /\ pc'[p] = "delete_row" /\ job' = job /\ UNCHANGED <<db, fate>>
        /\ up' = up /\ clean' = clean /\ Unlink(h)
    BY <1>1, <1>3, <1>6 DEF DeleteFile, Goto, TypeOK
  <2>2. /\ Mild(p) /\ RowStep(p) /\ file'[h] = "absent"
        /\ \A k \in Rows : /\ IsStray(k)' => IsStray(k)
                           /\ IsEmptied(k)' => IsEmptied(k) \/ k = h
                           /\ IsAwaited(k)' = IsAwaited(k)
                           /\ IsFailed(k)' = IsFailed(k)
    BY <1>1, <1>4, <2>1, Unlinking
  <2>3. Removing(p)' = {h} /\ Touched(p)' = {h}
    BY <1>3, <1>4, <2>1 DEF Removing, Touched
  <2>4. Clearing(p)'
    BY <1>3, <1>4, <2>1, <2>2, <2>3 DEF Clearing, db
  <2>5. Owning(p)' /\ Staged(p)' /\ Promised(p)' /\ Judged(p)' /\ Closing(p)' /\ Undone(p)'
    BY <2>1 DEF Owning, Staged, Promised, Judged, Closing, Undone, Storing, Pre, Reserved
  <2>6. Distinct(p)
    BY <1>4, <2>1, <2>3 DEF Distinct, Storing, Pre, Reserved
  <2>7. CleanStep(p)
    <3>1. ASSUME NEW k \in Rows PROVE k = h => EmptiedOf(p, k)'
      BY <1>3, <2>1 DEF EmptiedOf
    <3>2. QED BY <1>5, <2>1, <2>2, <2>5, <3>1 DEF CleanStep
  <2>8. QED BY <1>1, <1>2, <2>1, <2>2, <2>4, <2>5, <2>6, <2>7, Running, Combined DEF Sound
<1>7. CASE DeleteFileFails(p) \/ DeleteRowFails(p)
  <2>1. /\ Finish(p) /\ UNCHANGED <<db, file, fate>> /\ up' = up
        /\ clean' => clean /\ pc[p] = "delete_file"
    BY <1>7 DEF DeleteFileFails, DeleteRowFails
  <2>2. Mild(p) /\ RowStep(p)
    BY <1>1, <2>1, Bare
  <2>3. Sound(p)' /\ Distinct(p) /\ Undone(p)'
    BY <1>1, <2>1, Ended
  <2>4. CleanStep(p)
    BY <1>5, <2>1, <2>3, BareClean
  <2>5. QED BY <1>1, <1>2, <2>1, <2>2, <2>3, <2>4, Running, Combined
<1>8. CASE DeleteRow(p)
  <2> DEFINE S == {k \in {job[p].row} : owner[k] = job[p].user}
  <2>1. /\ pc[p] = "delete_row" /\ Finish(p) /\ UNCHANGED <<file, fate>>
        /\ up' = up /\ clean' = clean /\ DeleteGroup(S)
    BY <1>8 DEF DeleteRow
  <2>2. (\A k \in Rows : k \in S <=> k = h) /\ S \in SUBSET Rows
    BY <1>3, <1>4
  <2> HIDE DEF S
  <2>3. file[h] = "absent"
    BY <1>2, <1>3, <2>1 DEF Clearing
  <2>4. /\ Mild(p) /\ RowStep(p)
        /\ \A k \in Rows : /\ IsStray(k)' => IsStray(k) \/ (k \in S /\ file[k] # "absent")
                           /\ IsEmptied(k)' => IsEmptied(k)
                           /\ IsAwaited(k)' => IsAwaited(k)
                           /\ IsFailed(k)' => IsFailed(k)
                           /\ IsEmptied(k)' \/ IsAwaited(k)' \/ IsFailed(k)' => k \notin S
    BY <1>1, <1>4, <2>1, <2>2, Deletion
  <2>5. Sound(p)' /\ Distinct(p) /\ Undone(p)'
    BY <1>1, <2>1, Ended
  <2>6. CleanStep(p)
    BY <1>5, <2>1, <2>2, <2>3, <2>4, <2>5 DEF CleanStep
  <2>7. QED BY <1>1, <2>1, <2>4, <2>5, <2>6, Running, Combined
<1>9. QED BY <1>6, <1>7, <1>8 DEF Delete

LEMMA PruneKInv ==
  ASSUME IInv, KInv, NEW p \in Procs, Prune(p)
  PROVE  KInv'
<1>1. TypeOK /\ Frame(p) /\ TypeOK'
  BY PruneTypeOK DEF IInv, Counted
<1>2. Clearing(p) /\ pc[p] \in {"prune", "prune_row"}
  BY OwnState DEF Prune, PruneFile, PruneSkip, PruneRow, PruneCommit, PruneFails
<1>3. /\ job[p].todo \subseteq Removing(p) /\ job[p].doomed \subseteq Removing(p)
      /\ Touched(p) = Removing(p) /\ Removing(p) \subseteq Rows
      /\ \A k \in Removing(p) : fate[k] = "condemned" /\ owner[k] # None
      /\ \A k \in job[p].doomed : file[k] = "absent"
  BY <1>2 DEF Clearing, Touched, Removing
<1>4. ASSUME NEW k \in Rows
      PROVE  /\ ~StrayOf(p, k) /\ ~AwaitedOf(p, k) /\ ~FailedOf(p, k)
             /\ EmptiedOf(p, k) <=> \/ k = job[p].row /\ pc[p] = "prune_row"
                                    \/ k \in job[p].doomed
  BY <1>2 DEF StrayOf, EmptiedOf, AwaitedOf, FailedOf, Pre, Reserved
<1>5. pc'[p] \in {"prune", "prune_row"} =>
        Owning(p)' /\ Staged(p)' /\ Promised(p)' /\ Judged(p)' /\ Closing(p)' /\ Undone(p)'
  BY DEF Owning, Staged, Promised, Judged, Closing, Undone, Storing, Pre, Reserved
<1>6. ASSUME NEW h \in Rows, PruneFile(p, h) PROVE KInv'
  <2>1. /\ pc[p] = "prune" /\ pc'[p] = "prune_row" /\ UNCHANGED <<db, fate>>
        /\ up' = up /\ clean' = clean /\ Unlink(h) /\ h \in job[p].todo
        /\ job'[p].todo = job[p].todo \ {h} /\ job'[p].row = h
        /\ job'[p].doomed = job[p].doomed
    BY <1>1, <1>6 DEF PruneFile, Goto, TypeOK
  <2>2. /\ Mild(p) /\ RowStep(p)
        /\ file'[h] = "absent" /\ (\A k \in Rows : k # h => file'[k] = file[k])
        /\ \A k \in Rows : /\ IsStray(k)' => IsStray(k)
                           /\ IsEmptied(k)' => IsEmptied(k) \/ k = h
                           /\ IsAwaited(k)' = IsAwaited(k)
                           /\ IsFailed(k)' = IsFailed(k)
    BY <1>1, <1>3, <2>1, Unlinking
  <2>3. Removing(p)' = Removing(p) /\ Touched(p)' = Touched(p)
    BY <2>1 DEF Removing, Touched
  <2>4. Clearing(p)'
    BY <1>3, <2>1, <2>2, <2>3 DEF Clearing, db
  <2>5. Distinct(p)
    BY <2>1, <2>3 DEF Distinct, Storing, Pre, Reserved
  <2>6. CleanStep(p)
    <3>1. ASSUME NEW k \in Rows
          PROVE  /\ k = h => EmptiedOf(p, k)'
                 /\ EmptiedOf(p, k) => EmptiedOf(p, k)'
      BY <1>4, <2>1 DEF EmptiedOf
    <3>2. QED BY <1>4, <1>5, <2>1, <2>2, <3>1 DEF CleanStep
  <2>7. QED BY <1>1, <1>5, <2>1, <2>2, <2>4, <2>5, <2>6, Running, Combined DEF Sound
<1>7. CASE (\E h \in Rows : PruneSkip(p, h)) \/ PruneRow(p)
  <2>1. /\ pc'[p] = "prune" /\ UNCHANGED <<db, file, fate>>
        /\ up' = up /\ clean' = clean
        /\ job'[p].todo \subseteq job[p].todo /\ job[p].doomed \subseteq job'[p].doomed
        /\ \A k \in job'[p].doomed : k \in job[p].doomed \/ (pc[p] = "prune_row" /\ k = job[p].row)
        /\ pc[p] = "prune_row" => job[p].row \in job'[p].doomed
    <3>1. CASE \E h \in Rows : PruneSkip(p, h)
      <4>1. PICK h \in Rows : PruneSkip(p, h)
        BY <3>1
      <4>2. /\ pc[p] = "prune" /\ pc' = pc /\ UNCHANGED <<db, file, fate>>
            /\ up' = up /\ clean' = clean
        BY <4>1 DEF PruneSkip
      <4>3. job'[p].todo = job[p].todo \ {h} /\ job'[p].doomed = job[p].doomed
        BY <1>1, <4>1 DEF PruneSkip, TypeOK
      <4>4. QED BY <4>2, <4>3
    <3>2. CASE PruneRow(p)
      <4>1. /\ pc[p] = "prune_row" /\ pc'[p] = "prune" /\ UNCHANGED <<db, file, fate>>
            /\ up' = up /\ clean' = clean
        BY <1>1, <3>2 DEF PruneRow, Goto, TypeOK
      <4>2. /\ job'[p].todo = job[p].todo
            /\ job'[p].doomed = job[p].doomed \cup {job[p].row}
        BY <1>1, <3>2 DEF PruneRow, TypeOK
      <4>3. QED BY <4>1, <4>2
    <3>3. QED BY <1>7, <3>1, <3>2
  <2>2. Mild(p) /\ RowStep(p)
    BY <1>1, <2>1, Bare
  <2>3. Removing(p)' \subseteq Removing(p) /\ Touched(p)' = Removing(p)'
    BY <1>2, <2>1 DEF Removing, Touched
  <2>4. Clearing(p)'
    <3>1. \A k \in job'[p].doomed : file'[k] = "absent"
      BY <1>2, <2>1 DEF Clearing
    <3>2. \A k \in Removing(p)' : k \in Rows /\ fate'[k] = "condemned" /\ owner'[k] # None
      BY <1>3, <2>1, <2>3 DEF db
    <3>3. QED BY <2>1, <2>3, <3>1, <3>2 DEF Clearing
  <2>5. Distinct(p)
    BY <1>3, <2>1, <2>3 DEF Distinct, Storing, Pre, Reserved
  <2>6. CleanStep(p)
    <3>1. \A k \in Rows : EmptiedOf(p, k) => EmptiedOf(p, k)'
      BY <1>4, <2>1 DEF EmptiedOf
    <3>2. QED BY <1>4, <1>5, <2>1, <3>1, BareClean
  <2>7. QED BY <1>1, <1>2, <1>5, <2>1, <2>2, <2>4, <2>5, <2>6, Running, Combined DEF Sound
<1>8. CASE PruneCommit(p)
  <2> DEFINE S == job[p].doomed
  <2>1. /\ pc[p] = "prune" /\ Finish(p) /\ UNCHANGED <<file, fate>>
        /\ up' = up /\ clean' = clean /\ DeleteGroup(S)
    BY <1>8 DEF PruneCommit
  <2>2. /\ S \in SUBSET Rows /\ \A k \in S : fate[k] = "condemned" /\ file[k] = "absent"
    BY <1>3
  <2>3. \A k \in Rows : EmptiedOf(p, k) => k \in S
    BY <1>4, <2>1
  <2> HIDE DEF S
  <2>4. /\ Mild(p) /\ RowStep(p)
        /\ \A k \in Rows : /\ IsStray(k)' => IsStray(k) \/ (k \in S /\ file[k] # "absent")
                           /\ IsEmptied(k)' => IsEmptied(k)
                           /\ IsAwaited(k)' => IsAwaited(k)
                           /\ IsFailed(k)' => IsFailed(k)
                           /\ IsEmptied(k)' \/ IsAwaited(k)' \/ IsFailed(k)' => k \notin S
    BY <1>1, <2>1, <2>2, Deletion
  <2>5. Sound(p)' /\ Distinct(p) /\ Undone(p)'
    BY <1>1, <2>1, Ended
  <2>6. CleanStep(p)
    BY <1>4, <2>1, <2>2, <2>3, <2>4, <2>5 DEF CleanStep
  <2>7. QED BY <1>1, <2>1, <2>4, <2>5, <2>6, Running, Combined
<1>9. CASE PruneFails(p)
  <2>1. Finish(p) /\ UNCHANGED <<db, file, fate>> /\ up' = up /\ clean' = FALSE
    BY <1>9 DEF PruneFails
  <2>2. Mild(p) /\ RowStep(p)
    BY <1>1, <2>1, Bare
  <2>3. Sound(p)' /\ Distinct(p)
    BY <1>1, <2>1, Ended
  <2>4. CleanStep(p)
    BY <2>1 DEF CleanStep
  <2>5. QED BY <1>1, <1>2, <2>1, <2>2, <2>3, <2>4, Running, Combined
<1>10. QED BY <1>6, <1>7, <1>8, <1>9 DEF Prune

(***************************************************************************)
(* Closing an account                                                      *)
(***************************************************************************)
LEMMA CloseKInv ==
  ASSUME IInv, KInv, NEW p \in Procs, CloseAccount(p)
  PROVE  KInv'
<1>1. TypeOK /\ Frame(p) /\ TypeOK' /\ StoredOwned
  BY CloseTypeOK DEF IInv
<1>2. Clearing(p) /\ Closing(p) /\ pc[p] = "close"
  BY OwnState DEF CloseAccount, DeleteUserFile, DeleteUserFails, DeleteUser
<1>3. PICK u \in Users : u = job[p].user
  BY <1>2 DEF Closing
<1>4. /\ Removing(p) = job[p].todo /\ Touched(p) = job[p].todo /\ job[p].doomed = {}
      /\ job[p].todo \subseteq Rows
      /\ lock[LockOf(u)] = p
      /\ \A h \in job[p].todo : fate[h] = "condemned" /\ owner[h] = u
      /\ \A h \in Rows : owner[h] = u /\ art[h] # None =>
           fate[h] = "condemned" /\ (file[h] = "absent" \/ h \in job[p].todo)
  BY <1>2, <1>3 DEF Clearing, Touched, Removing, Closing
<1>5. ASSUME NEW k \in Rows
      PROVE  /\ ~StrayOf(p, k) /\ ~AwaitedOf(p, k) /\ ~FailedOf(p, k)
             /\ EmptiedOf(p, k) <=> owner[k] = u
  BY <1>2, <1>3, <1>4 DEF StrayOf, EmptiedOf, AwaitedOf, FailedOf, Pre, Reserved
<1>6. ASSUME NEW h \in Rows, DeleteUserFile(p, h) PROVE KInv'
  <2>1. /\ pc'[p] = "close" /\ UNCHANGED <<db, lock, fate>>
        /\ up' = up /\ clean' = clean /\ Unlink(h) /\ h \in job[p].todo
        /\ job'[p].todo = job[p].todo \ {h} /\ job'[p].user = u
        /\ job'[p].doomed = {}
    BY <1>1, <1>3, <1>4, <1>6 DEF DeleteUserFile, TypeOK
  <2>2. /\ Mild(p) /\ RowStep(p)
        /\ file'[h] = "absent" /\ (\A k \in Rows : k # h => file'[k] = file[k])
        /\ \A k \in Rows : /\ IsStray(k)' => IsStray(k)
                           /\ IsEmptied(k)' => IsEmptied(k) \/ k = h
                           /\ IsAwaited(k)' = IsAwaited(k)
                           /\ IsFailed(k)' = IsFailed(k)
    BY <1>1, <1>4, <2>1, Unlinking
  <2>3. Removing(p)' = job[p].todo \ {h} /\ Touched(p)' = job[p].todo \ {h}
    BY <2>1 DEF Removing, Touched
  <2>4. Clearing(p)'
    <3>1. \A k \in Removing(p)' : k \in Rows /\ fate'[k] = "condemned" /\ owner'[k] # None
      BY <1>4, <2>1, <2>3, NoneIsFresh DEF db
    <3>2. QED BY <2>1, <2>3, <3>1 DEF Clearing
  <2>5. Closing(p)'
    <3>1. owner' = owner /\ art' = art /\ fate' = fate /\ lock' = lock
      BY <2>1 DEF db
    <3>2. \A k \in Rows : owner[k] = u /\ art[k] # None =>
            fate[k] = "condemned" /\ (file'[k] = "absent" \/ k \in job'[p].todo)
      BY <1>4, <2>1, <2>2
    <3>3. QED BY <1>4, <2>1, <3>1, <3>2 DEF Closing
  <2>6. Owning(p)' /\ Staged(p)' /\ Promised(p)' /\ Judged(p)' /\ Undone(p)'
    BY <2>1 DEF Owning, Staged, Promised, Judged, Undone, Storing, Pre, Reserved
  <2>7. Distinct(p)
    BY <1>4, <2>1, <2>3 DEF Distinct, Storing, Pre, Reserved
  <2>8. CleanStep(p)
    <3>1. ASSUME NEW k \in Rows
          PROVE  /\ k = h => EmptiedOf(p, k)'
                 /\ EmptiedOf(p, k) => EmptiedOf(p, k)'
      BY <1>4, <1>5, <2>1 DEF EmptiedOf, db
    <3>2. QED BY <1>5, <2>1, <2>2, <2>6, <3>1 DEF CleanStep
  <2>9. QED BY <1>1, <1>2, <2>1, <2>2, <2>4, <2>5, <2>6, <2>7, <2>8, Running, Combined DEF Sound
<1>7. CASE DeleteUserFails(p)
  <2>1. Finish(p) /\ UNCHANGED <<db, file, fate>> /\ up' = up /\ clean' = FALSE
    BY <1>7 DEF DeleteUserFails
  <2>2. Mild(p) /\ RowStep(p)
    BY <1>1, <2>1, Bare
  <2>3. Sound(p)' /\ Distinct(p)
    BY <1>1, <2>1, Ended
  <2>4. CleanStep(p)
    BY <2>1 DEF CleanStep
  <2>5. QED BY <1>1, <1>2, <2>1, <2>2, <2>3, <2>4, Running, Combined
<1>8. CASE DeleteUser(p)
  <2>1. /\ Finish(p) /\ up' = up /\ clean' = clean /\ job[p].todo = {}
        /\ owner' = owner /\ parent' = parent /\ file' = file /\ fate' = fate
        /\ users' = users \ {u}
        /\ \A k \in rows : k \in rows' <=> owner[k] # u
        /\ rows' \subseteq rows
        /\ \A k \in Rows : art'[k] = IF owner[k] = u THEN None ELSE art[k]
    BY <1>1, <1>3, <1>8 DEF DeleteUser, TypeOK
  <2>2. /\ \A k \in Rows : owner[k] = u /\ art[k] # None =>
             fate[k] = "condemned" /\ file[k] = "absent"
    BY <1>4, <2>1
  <2>3. rows \subseteq Rows /\ \A k \in Rows : Listed(k) /\ Member(k)
    BY <1>1 DEF KInv, RowsSound, TypeOK
  <2>4. Mild(p)
    <3>1. \A k \in Rows : fate[k] # "condemned" /\ k \in rows /\ art[k] # None =>
            k \in rows' /\ art'[k] # None
      BY <2>1, <2>2
    <3>2. \A k \in Rows : art[k] = None => art'[k] = None
      BY <2>1
    <3>3. QED BY <1>1, <2>1, <3>1, <3>2 DEF Mild
  <2>5. RowStep(p)
    <3>1. ASSUME NEW k \in rows \cap rows'
          PROVE  owner[k] \in users' /\ (parent[k] # None => parent[k] \in rows')
      BY <2>1, <2>3 DEF Listed, Member
    <3>2. \A k \in Rows : ~ Mine(p, k)
      BY <1>2 DEF Mine, Storing, Pre, Reserved
    <3>3. \A k \in Rows : art'[k] # None => k \in rows' /\ art'[k] = art[k]
      BY <2>1, <2>3 DEF Listed
    <3>4. \A k \in Rows : art'[k] = "missing" => art[k] = "missing"
      BY <3>3, NoneIsFresh
    <3>5. QED BY <2>1, <3>1, <3>2, <3>3, <3>4 DEF RowStep
  <2>6. Sound(p)' /\ Distinct(p) /\ Undone(p)'
    BY <1>1, <2>1, Ended
  <2>7. CleanStep(p)
    <3>1. ASSUME NEW k \in Rows
          PROVE  /\ IsStray(k)' => IsStray(k)
                 /\ IsEmptied(k)' => IsEmptied(k) /\ owner[k] # u
                 /\ IsAwaited(k)' => IsAwaited(k)
                 /\ IsFailed(k)' => IsFailed(k)
      BY <2>1, <2>2 DEF IsStray, IsEmptied, IsAwaited, IsFailed
    <3>2. QED BY <1>5, <2>1, <2>6, <3>1 DEF CleanStep
  <2>8. QED BY <1>1, <1>2, <2>1, <2>4, <2>5, <2>6, <2>7, Running, Combined
<1>9. QED BY <1>6, <1>7, <1>8 DEF CloseAccount

(***************************************************************************)
(* Requests that begin, and the environment                                *)
(***************************************************************************)
LEMMA BeginKInv ==
  ASSUME IInv, KInv, NEW p \in Procs, Begin(p)
  PROVE  KInv'
<1>1. TypeOK /\ Frame(p) /\ TypeOK' /\ StoredOwned
  BY BeginTypeOK DEF IInv
<1>2. /\ pc[p] = "idle" /\ up /\ up' = up /\ clean' = clean /\ UNCHANGED <<db, file>>
  BY DEF Begin, BeginStore, BeginDownload, BeginDelete, BeginPrune,
         BeginDeleteUser, Authorized
<1>3. /\ users' = users /\ rows' = rows /\ owner' = owner /\ parent' = parent
      /\ art' = art /\ file' = file
  BY <1>2 DEF db
<1>4. \A k \in Rows : ~ Mine(p, k)
  BY <1>2 DEF Mine, Storing, Pre, Reserved
<1>5. job[p].doomed = {} /\ job[p].todo = {} /\ Removing(p) = {} /\ Touched(p) = {}
  BY <1>2, OwnState DEF Clearing, Touched, Removing
<1>6. ASSUME NEW k \in Rows
      PROVE  ~StrayOf(p, k) /\ ~EmptiedOf(p, k) /\ ~AwaitedOf(p, k) /\ ~FailedOf(p, k)
  BY <1>2, <1>5 DEF StrayOf, EmptiedOf, AwaitedOf, FailedOf, Pre, Reserved
\* Whatever is condemned had an owner.
<1>7. ASSUME NEW S \in SUBSET Rows, fate' = fate \/ fate' = Condemned(S),
             \A h \in S : owner[h] # None,
             pc'[p] \in {"admitted", "read", "delete_file", "prune", "close"}
      PROVE  Mild(p) /\ RowStep(p) /\ CleanStep(p)
  <2>1. \A k \in Rows : fate'[k] = fate[k] \/ (k \in S /\ fate'[k] = "condemned")
    BY <1>7 DEF Condemned
  <2>2. rows \subseteq Rows /\ \A k \in Rows : Listed(k) /\ Member(k)
    BY <1>1 DEF KInv, RowsSound, TypeOK
  <2>3. Mild(p)
    BY <1>1, <1>3, <2>1 DEF Mild
  <2>4. RowStep(p)
    BY <1>3, <1>4, <1>7, <2>1, <2>2 DEF RowStep, Listed, Member
  <2>5. Undone(p)'
    BY <1>7 DEF Undone
  <2>6. ASSUME NEW k \in Rows
        PROVE  /\ IsStray(k)' = IsStray(k) /\ IsEmptied(k)' = IsEmptied(k)
               /\ IsAwaited(k)' = IsAwaited(k)
               /\ IsFailed(k)' => IsFailed(k)
    BY <1>3, <2>1 DEF IsStray, IsEmptied, IsAwaited, IsFailed
  <2>7. CleanStep(p)
    BY <1>2, <1>6, <2>5, <2>6 DEF CleanStep
  <2>8. QED BY <2>3, <2>4, <2>7
<1>8. ASSUME pc'[p] \in {"admitted", "read", "delete_file", "prune", "close"}
      PROVE  Owning(p)' /\ Promised(p)' /\ Judged(p)'
             /\ (pc'[p] # "admitted" => Staged(p)')
             /\ (pc'[p] # "close" => Closing(p)')
             /\ ((\A k \in Touched(p)' : art[k] # None) => Distinct(p))
  BY <1>8 DEF Owning, Promised, Judged, Staged, Closing, Distinct, Storing, Pre, Reserved
<1>9. ASSUME NEW v \in Users, NEW n \in Sizes, NEW m \in 0 .. MaxMembers,
             BeginStore(p, v, n, m)
      PROVE  KInv'
  <2>1. /\ pc'[p] = "admitted" /\ fate' = fate /\ job'[p].size = n
        /\ job'[p].todo = {} /\ job'[p].doomed = {}
    BY <1>1, <1>9 DEF BeginStore, Goto, TypeOK, NoJob
  <2>2. Mild(p) /\ RowStep(p) /\ CleanStep(p)
    BY <1>7, <2>1
  <2>3. Removing(p)' = {} /\ Touched(p)' = {}
    BY <2>1 DEF Removing, Touched
  <2>4. Clearing(p)' /\ Staged(p)'
    BY <2>1, <2>3 DEF Clearing, Staged, Pre, Reserved
  <2>5. QED BY <1>1, <1>2, <1>8, <2>1, <2>2, <2>3, <2>4, Combined DEF Sound
<1>10. ASSUME NEW h \in Rows, BeginDownload(p, h) PROVE KInv'
  <2>1. /\ pc'[p] = "read" /\ fate' = fate /\ job'[p].row = h
        /\ job'[p].todo = {} /\ job'[p].doomed = {} /\ art[h] # None
    BY <1>1, <1>10 DEF BeginDownload, Authorized, Goto, TypeOK, NoJob
  <2>2. Mild(p) /\ RowStep(p) /\ CleanStep(p)
    BY <1>7, <2>1
  <2>3. Removing(p)' = {} /\ Touched(p)' = {h}
    BY <2>1 DEF Removing, Touched
  <2>4. Clearing(p)'
    BY <1>1, <1>3, <2>1, <2>3 DEF Clearing, StoredOwned
  <2>5. QED BY <1>1, <1>2, <1>8, <2>1, <2>2, <2>3, <2>4, Combined DEF Sound
<1>11. ASSUME NEW h \in Rows, BeginDelete(p, h) PROVE KInv'
  <2>1. /\ pc'[p] = "delete_file" /\ fate' = Condemned({h}) /\ job'[p].row = h
        /\ job'[p].todo = {} /\ job'[p].doomed = {} /\ art[h] # None
        /\ job'[p].user = owner[h]
    BY <1>1, <1>11 DEF BeginDelete, Authorized, Goto, TypeOK, NoJob
  <2>2. Mild(p) /\ RowStep(p) /\ CleanStep(p)
    <3> DEFINE S == {h}
    <3>1. S \in SUBSET Rows /\ fate' = Condemned(S) /\ \A k \in S : owner[k] # None
      BY <1>1, <2>1 DEF StoredOwned
    <3> HIDE DEF S
    <3>2. QED BY <1>7, <2>1, <3>1
  <2>3. Removing(p)' = {h} /\ Touched(p)' = {h}
    BY <2>1 DEF Removing, Touched
  <2>4. Clearing(p)'
    BY <1>1, <1>3, <2>1, <2>3 DEF Clearing, StoredOwned, Condemned
  <2>5. QED BY <1>1, <1>2, <1>8, <2>1, <2>2, <2>3, <2>4, Combined DEF Sound
<1>12. ASSUME NEW S \in SUBSET Rows, BeginPrune(p, S) PROVE KInv'
  <2>1. /\ pc'[p] = "prune" /\ fate' = Condemned(S) /\ \A h \in S : art[h] # None
        /\ job'[p].todo = S /\ job'[p].doomed = {}
    BY <1>1, <1>12 DEF BeginPrune, Goto, TypeOK, NoJob
  <2>2. Mild(p) /\ RowStep(p) /\ CleanStep(p)
    BY <1>1, <1>7, <2>1 DEF StoredOwned
  <2>3. Removing(p)' = S /\ Touched(p)' = S
    BY <2>1 DEF Removing, Touched
  <2>4. Clearing(p)'
    BY <1>1, <1>3, <2>1, <2>3 DEF Clearing, StoredOwned, Condemned
  <2>5. QED BY <1>1, <1>2, <1>8, <2>1, <2>2, <2>3, <2>4, Combined DEF Sound
<1>13. ASSUME NEW v \in Users, BeginDeleteUser(p, v) PROVE KInv'
  <2> DEFINE S == {h \in Rows : owner[h] = v}
             T == Stored(v)
  <2>1. /\ pc'[p] = "close" /\ fate' = Condemned(S)
        /\ job'[p].todo = T /\ job'[p].doomed = {} /\ job'[p].user = v
        /\ lock'[LockOf(v)] = p
    BY <1>1, <1>13, LockExists DEF BeginDeleteUser, Goto, TypeOK, NoJob, Acquire
  <2>2. /\ S \in SUBSET Rows /\ (\A h \in S : owner[h] # None) /\ T \subseteq S
        /\ (\A h \in T : art[h] # None)
        /\ (\A h \in Rows : h \in S <=> owner[h] = v)
        /\ (\A h \in Rows : h \in T <=> owner[h] = v /\ art[h] # None)
    BY NoneIsFresh DEF Stored
  <2> HIDE DEF S, T
  <2>3. Mild(p) /\ RowStep(p) /\ CleanStep(p)
    BY <1>7, <2>1, <2>2
  <2>4. Removing(p)' = T /\ Touched(p)' = T
    BY <2>1 DEF Removing, Touched
  <2>5. \A h \in S : fate'[h] = "condemned"
    BY <2>1, <2>2 DEF Condemned
  <2>6. Clearing(p)'
    BY <1>3, <2>1, <2>2, <2>4, <2>5 DEF Clearing
  <2>7. Closing(p)'
    BY <1>3, <2>1, <2>2, <2>5 DEF Closing
  <2>8. QED BY <1>1, <1>2, <1>8, <2>1, <2>2, <2>3, <2>4, <2>6, <2>7, Combined DEF Sound
<1>14. QED BY <1>9, <1>10, <1>11, <1>12, <1>13 DEF Begin

LEMMA EnvironmentKInv ==
  ASSUME IInv, KInv, Environment
  PROVE  KInv'
<1>1. TypeOK /\ TypeOK' /\ StoredOwned
  BY EnvironmentTypeOK DEF IInv
<1>2. /\ users' = users /\ rows' = rows /\ owner' = owner /\ parent' = parent
      /\ bytes' = bytes /\ fate' = fate
  BY DEF Environment, Crash, Boot, Rot, db
<1>3. CASE Crash
  <2>1. /\ \A p \in Procs : pc'[p] = "idle" /\ job'[p] = NoJob
        /\ art' = art /\ file' = file /\ up' = FALSE
        /\ clean' => clean /\ \A p \in Procs : pc[p] = "idle"
    BY <1>3 DEF Crash, db
  <2>2. RowsSound'
    BY <1>2, <2>1 DEF KInv, RowsSound, Unborn, Listed, Member, Kept, Complete
  <2>3. ASSUME NEW p \in Procs PROVE Sound(p)' /\ Touched(p)' = {} /\ Undone(p)'
    <3>1. Removing(p)' = {} /\ Touched(p)' = {}
      BY <2>1 DEF Removing, Touched, NoJob
    <3>2. QED BY <2>1, <3>1
              DEF Sound, Owning, Staged, Promised, Judged, Clearing, Closing, Undone,
                  Storing, Pre, Reserved, NoJob
  <2>4. Apart'
    BY <2>1 DEF Apart, Storing, Pre, Reserved
  <2>5. CleanSound'
    <3>1. SUFFICES ASSUME clean' PROVE \A h \in Rows : SeenTo(h)'
      BY <2>3 DEF CleanSound
    <3>2. clean /\ \A p \in Procs : pc[p] = "idle" /\ job[p].doomed = {}
      BY <2>1, <3>1, OwnState DEF Clearing
    <3>3. ASSUME NEW h \in Rows
          PROVE  ~IsStray(h) /\ ~IsEmptied(h) /\ ~IsAwaited(h) /\ ~IsFailed(h)
      BY <3>2 DEF KInv, CleanSound, SeenTo, StrayOf, EmptiedOf, AwaitedOf, FailedOf,
                  Pre, Reserved
    <3>4. ASSUME NEW h \in Rows
          PROVE  ~IsStray(h)' /\ ~IsEmptied(h)' /\ ~IsAwaited(h)' /\ ~IsFailed(h)'
      BY <1>2, <2>1, <3>3 DEF IsStray, IsEmptied, IsAwaited, IsFailed
    <3>5. QED BY <3>4 DEF SeenTo
  <2>6. QED BY <2>1, <2>2, <2>3, <2>4, <2>5 DEF KInv, RequestsSound, Stopped, Quiet
<1>4. CASE Boot \/ \E h \in Rows : Rot(h)
\* No request is at work, or files only decay.
  <2>1. /\ pc' = pc /\ job' = job /\ lock' = lock /\ clean' = clean
        /\ Boot => up' /\ Quiet
        /\ (\E h \in Rows : Rot(h)) => up' = up /\ art' = art
    BY <1>4 DEF Boot, Rot, KInv, Stopped, db
  <2>2. ASSUME NEW h \in Rows
        PROVE  /\ Complete(h)' = Complete(h)
               /\ file[h] = "absent" => file'[h] = "absent"
               /\ art'[h] = None <=> art[h] = None
               /\ \/ art'[h] = art[h]
                  \/ art'[h] = "missing" /\ (StatFails \/ ~Complete(h))
               /\ file'[h] # file[h] => file'[h] # "partial"
    <3>1. CASE Boot
      BY <1>1, <3>1, NoneIsFresh DEF Boot, Complete, TypeOK
    <3>2. CASE \E k \in Rows : Rot(k)
      BY <1>1, <3>2 DEF Rot, Complete, TypeOK, db
    <3>3. QED BY <1>4, <3>1, <3>2
  <2>3. RowsSound'
    <3>1. SUFFICES ASSUME NEW h \in Rows
                   PROVE  Unborn(h)' /\ Listed(h)' /\ Member(h)' /\ Kept(h)'
      BY DEF RowsSound
    <3>2. Unborn(h) /\ Listed(h) /\ Member(h) /\ Kept(h)
      BY DEF KInv, RowsSound
    <3>3. Unborn(h)' /\ Kept(h)'
      BY <1>2, <2>2, <3>2 DEF Unborn, Kept
    <3>4. Member(h)'
      BY <1>2, <2>2, <3>2 DEF Member
    <3>5. Listed(h)'
      BY <1>2, <2>2, <3>2 DEF Listed
    <3>6. QED BY <3>3, <3>4, <3>5
  <2>4. \A p \in Procs : Removing(p)' = Removing(p) /\ Touched(p)' = Touched(p)
    BY <2>1 DEF Removing, Touched
  <2>5. ASSUME NEW p \in Procs PROVE Sound(p)'
    <3>1. Owning(p)' /\ Judged(p)'
      <4>1. Owning(p) /\ Judged(p) /\ Clearing(p) /\ (pc[p] = "mark" => job[p].row \in Touched(p))
        BY OwnState DEF Touched
      <4>2. QED BY <1>2, <2>1, <2>2, <4>1 DEF Owning, Judged, Clearing
    <3>2. Staged(p)' /\ Promised(p)'
      <4>1. Staged(p) /\ Promised(p) /\ Owning(p)
        BY OwnState
      <4>2. CASE pc[p] \in Storing
        <5>1. PICK h \in Rows : h = job[p].row
          BY <4>1, <4>2 DEF Owning
        <5>2. QED BY <1>2, <2>1, <2>2, <4>1, <5>1 DEF Staged, Promised
      <4>3. CASE pc[p] \notin Storing
        BY <2>1, <4>1, <4>3 DEF Staged, Promised, Storing, Pre, Reserved
      <4>4. QED BY <4>2, <4>3
    <3>3. Clearing(p)'
      <4>1. Clearing(p) /\ job[p].doomed \subseteq Touched(p)
            /\ (pc[p] \in {"delete_row", "prune_row"} => job[p].row \in Touched(p))
        BY OwnState DEF Touched, Removing
      <4>2. QED BY <1>2, <2>1, <2>2, <2>4, <4>1 DEF Clearing
    <3>4. Closing(p)'
      BY <1>2, <2>1, <2>2, OwnState DEF Closing
    <3>5. QED BY <3>1, <3>2, <3>3, <3>4 DEF Sound
  <2>6. Apart'
    BY <2>1, <2>4 DEF KInv, Apart
  <2>7. CleanSound'
    <3>1. SUFFICES ASSUME clean PROVE (\A h \in Rows : SeenTo(h)') /\ (\A p \in Procs : Undone(p)')
      BY <2>1 DEF CleanSound
    <3>2. ASSUME NEW h \in Rows PROVE SeenTo(h)'
      <4>1. SeenTo(h) /\ Listed(h)
        BY <3>1 DEF KInv, CleanSound, RowsSound
      <4>2. /\ IsStray(h)' => IsStray(h)
            /\ IsAwaited(h)' => IsAwaited(h)
            /\ IsFailed(h)' => IsFailed(h)
        BY <1>2, <2>2 DEF IsStray, IsAwaited, IsFailed
      <4>3. IsEmptied(h)' => IsEmptied(h)
        BY <1>1, <2>2, <4>1 DEF IsEmptied, Listed, Complete, TypeOK, Files
      <4>4. ASSUME NEW p \in Procs
            PROVE  /\ StrayOf(p, h)' = StrayOf(p, h) /\ EmptiedOf(p, h)' = EmptiedOf(p, h)
                   /\ AwaitedOf(p, h)' = AwaitedOf(p, h) /\ FailedOf(p, h)' = FailedOf(p, h)
        BY <1>2, <2>1 DEF StrayOf, EmptiedOf, AwaitedOf, FailedOf
      <4>5. QED BY <4>1, <4>2, <4>3, <4>4 DEF SeenTo
    <3>3. ASSUME NEW p \in Procs PROVE Undone(p)'
      <4>1. Undone(p) /\ Owning(p)
        BY <3>1, OwnState DEF KInv, CleanSound
      <4>2. QED BY <2>1, <2>2, <4>1 DEF Undone, Owning, Storing
    <3>4. QED BY <3>2, <3>3
  <2>8. Stopped'
    BY <1>4, <2>1 DEF KInv, Stopped, Quiet
  <2>9. QED BY <2>3, <2>5, <2>6, <2>7, <2>8 DEF KInv, RequestsSound
<1>5. QED BY <1>3, <1>4 DEF Environment

LEMMA InitKInv == Init => KInv
<1> SUFFICES ASSUME Init PROVE KInv
  OBVIOUS
<1>1. \A p \in Procs : pc[p] = "idle" /\ job[p] = NoJob
  BY DEF Init
<1>2. RowsSound
  BY NoneIsFresh DEF Init, RowsSound, Unborn, Listed, Member, Kept
<1>3. ASSUME NEW p \in Procs PROVE Sound(p) /\ Undone(p)
  <2>1. Removing(p) = {} /\ Touched(p) = {}
    BY <1>1 DEF Removing, Touched, NoJob
  <2>2. QED BY <1>1, <2>1
            DEF Sound, Owning, Staged, Promised, Judged, Clearing, Closing, Undone,
                Storing, Pre, Reserved, NoJob
<1>4. Apart
  BY <1>1 DEF Apart, Storing, Pre, Reserved
<1>5. \A h \in Rows : SeenTo(h)
  BY DEF Init, SeenTo, IsStray, IsEmptied, IsAwaited, IsFailed
<1>6. QED BY <1>2, <1>3, <1>4, <1>5 DEF KInv, RequestsSound, CleanSound, Stopped, Init

LEMMA StepKInv == IInv /\ KInv /\ [Next]_vars => KInv'
<1> SUFFICES ASSUME IInv, KInv, [Next]_vars PROVE KInv'
  OBVIOUS
<1>1. ASSUME NEW p \in Procs, Step(p) PROVE KInv'
  BY <1>1, StoreKInv, DownloadKInv, DeleteKInv, PruneKInv, CloseKInv DEF Step
<1>2. ASSUME NEW p \in Procs, Begin(p) PROVE KInv'
  BY <1>2, BeginKInv
<1>3. CASE UNCHANGED vars
  <2>1. /\ users' = users /\ rows' = rows /\ owner' = owner /\ parent' = parent
        /\ bytes' = bytes /\ art' = art /\ file' = file /\ lock' = lock
        /\ pc' = pc /\ job' = job /\ up' = up /\ fate' = fate /\ clean' = clean
    BY <1>3 DEF vars, db
  <2>2. RowsSound'
    BY <2>1 DEF KInv, RowsSound, Unborn, Listed, Member, Kept, Complete
  <2>3. RequestsSound'
    BY <2>1 DEF KInv, RequestsSound, Sound, Owning, Staged, Promised, Judged,
                Clearing, Closing, Removing, Touched, Complete
  <2>4. Apart' /\ Stopped'
    BY <2>1 DEF KInv, Apart, Touched, Removing, Stopped, Quiet
  <2>5. CleanSound'
    BY <2>1 DEF KInv, CleanSound, SeenTo, Undone, IsStray, IsEmptied, IsAwaited,
                IsFailed, StrayOf, EmptiedOf, AwaitedOf, FailedOf
  <2>6. QED BY <2>2, <2>3, <2>4, <2>5 DEF KInv
<1>4. QED BY <1>1, <1>2, <1>3, EnvironmentKInv DEF Next

LEMMA KInvariance == Spec => [](IInv /\ KInv)
<1>1. Init => IInv /\ KInv
  BY InitIInv, InitKInv
<1>2. IInv /\ KInv /\ [Next]_vars => (IInv /\ KInv)'
  BY StepIInv, StepKInv
<1>3. QED BY <1>1, <1>2, PTL DEF Spec

(***************************************************************************)
(* The theorems                                                            *)
(***************************************************************************)

\* A result the client was told is stored keeps its rows and its whole file
\* until a deletion, retention or the closing of its account names it,
\* whatever other requests do, however they fail and wherever a crash hits.
THEOREM ResultsStay == Spec => []ResultsKept
<1>1. KInv => ResultsKept
  BY DEF KInv, RowsSound, Kept, ResultsKept
<1>2. QED BY <1>1, KInvariance, PTL

\* As long as isfile can look at a file, neither a download nor start-up
\* reconciliation ever calls an artifact missing whose file is there.
THEOREM MissingSaidTruly == Spec => []MissingIsTrue
<1>1. KInv => MissingIsTrue
  BY DEF KInv, RowsSound, Listed, MissingIsTrue
<1>2. QED BY <1>1, KInvariance, PTL

\* Unless a clean-up step failed or a crash hit a request, an idle service
\* holds exactly the files its rows name and no row of a failed store.
THEOREM NothingLeftBehind == Spec => []NoResidue
<1>1. KInv => NoResidue
  <2> SUFFICES ASSUME KInv, clean, Quiet, NEW h \in Rows
               PROVE  /\ file[h] # "absent" <=> art[h] # None
                      /\ h \in rows => IF parent[h] = None THEN art[h] # None
                                                           ELSE parent[h] \in rows
    BY DEF NoResidue
  <2>1. \A p \in Procs : pc[p] = "idle" /\ job[p].doomed = {}
    BY OwnState DEF Quiet, Clearing
  <2>2. ~IsStray(h) /\ ~IsEmptied(h) /\ ~IsAwaited(h)
    BY <2>1 DEF KInv, CleanSound, SeenTo, StrayOf, EmptiedOf, AwaitedOf, Pre, Reserved
  <2>3. Member(h)
    BY DEF KInv, RowsSound
  <2>4. QED BY <2>2, <2>3 DEF IsStray, IsEmptied, IsAwaited, Member
<1>2. QED BY <1>1, KInvariance, PTL

\* The quota, the kept results and the clean-up, as one promise.
THEOREM StoragePromise == Spec => []StorageSound
<1>1. StorageSound <=> QuotaHeld /\ ResultsKept /\ NoResidue
  BY DEF StorageSound
<1>2. QED BY <1>1, QuotaSafe, ResultsStay, NothingLeftBehind, PTL

\* A closed account leaves a file only in the hands of a store that is going
\* to roll it back (admin.delete_user takes the lock stores commit under).
THEOREM ClosedAccountsEmpty == Spec => []ClosedAccount
<1>1. IInv /\ KInv => ClosedAccount
  <2> SUFFICES ASSUME IInv, KInv, clean, NEW h \in Rows,
                      owner[h] \notin users \cup {None}, file[h] # "absent"
               PROVE  \E p \in Procs : job[p].row = h /\ pc[p] \in Reserved \cup {"undo_file"}
    BY DEF ClosedAccount
  <2>1. art[h] = None
    BY DEF KInv, RowsSound, Listed
  <2>2. \E p \in Procs : StrayOf(p, h)
    BY <2>1 DEF KInv, CleanSound, SeenTo, IsStray
  <2>3. QED BY <2>2 DEF StrayOf, Reserved
<1>2. QED BY <1>1, KInvariance, PTL

\* On SQLite an archive reported as failed is gone, with its members, once
\* the service is idle.  (On PostgreSQL it is not: run archive_failure_postgres.)
THEOREM FailedArchivesGo ==
  ASSUME Backend = "sqlite"
  PROVE  Spec => []FailedArchiveGone
<1>1. KInv => FailedArchiveGone
  <2> SUFFICES ASSUME KInv, clean, Quiet, NEW h \in Rows, fate[h] = "refused", h \in rows
               PROVE  FALSE
    BY DEF FailedArchiveGone
  <2>1. \E p \in Procs : FailedOf(p, h)
    BY DEF KInv, CleanSound, SeenTo, IsFailed
  <2>2. QED BY <2>1 DEF FailedOf, Quiet
<1>2. QED BY <1>1, KInvariance, PTL

LEMMA OnlyClosing ==
  ASSUME [Next]_vars, users' # users
  PROVE  \E p \in Procs : DeleteUser(p)
<1>1. ASSUME NEW p \in Procs, Begin(p) PROVE users' = users
  BY <1>1 DEF Begin, BeginStore, BeginDownload, BeginDelete, BeginPrune, BeginDeleteUser, db
<1>2. ASSUME NEW p \in Procs, Store(p) PROVE users' = users
  <2>1. CASE \E h \in Rows : AddHistory(p, h) \/ AddMember(p, h)
    BY <2>1 DEF AddHistory, AddMember, InsertRow
  <2>2. CASE Commit(p) \/ CommitFails(p) \/ Undo(p) \/ ArchiveUndoRow(p)
    BY <2>2 DEF Commit, CommitFails, Undo, ArchiveUndoRow, DeleteGroup
  <2>3. CASE \/ AddHistoryFails(p) \/ Reserve(p) \/ ReserveFails(p)
             \/ WriteTemporary(p) \/ Publish(p) \/ WriteFails(p)
    BY <2>3 DEF AddHistoryFails, Reserve, ReserveFails, WriteTemporary, Publish,
                WriteFails, db
  <2>4. CASE \/ InsertRefused(p) \/ UndoFile(p) \/ UndoFails(p)
             \/ AddMemberFails(p) \/ ArchiveUndoFile(p) \/ ArchiveUndoFails(p)
    BY <2>4 DEF InsertRefused, UndoFile, UndoFails, AddMemberFails,
                ArchiveUndoFile, ArchiveUndoFails, db
  <2>5. QED BY <1>2, <2>1, <2>2, <2>3, <2>4 DEF Store
<1>3. ASSUME NEW p \in Procs, Download(p) \/ Delete(p) \/ Prune(p) PROVE users' = users
  BY <1>3 DEF Download, ReadVerified, SetIntegrity, SetIntegrityFails,
              Delete, DeleteFile, DeleteFileFails, DeleteRow, DeleteRowFails,
              Prune, PruneFile, PruneSkip, PruneRow, PruneCommit, PruneFails,
              DeleteGroup, db
<1>4. ASSUME NEW p \in Procs, CloseAccount(p) PROVE users' = users \/ DeleteUser(p)
  BY <1>4 DEF CloseAccount, DeleteUserFile, DeleteUserFails, db
<1>5. Environment \/ UNCHANGED vars => users' = users
  BY DEF Environment, Crash, Boot, Rot, vars, db
<1>6. QED BY <1>1, <1>2, <1>3, <1>4, <1>5 DEF Next, Step

\* db.delete_user drops an account only once every artifact it owns has lost
\* its file: nobody can commit one more under the lock the deletion holds.
THEOREM FilesFirst == Spec => FilesGoFirst
<1>1. ASSUME IInv, KInv, [Next]_vars, NEW u \in users \ users', NEW h \in Stored(u)
      PROVE  file[h] = "absent"
  <2>1. users' # users
    BY <1>1
  <2>2. PICK p \in Procs : DeleteUser(p)
    BY <1>1, <2>1, OnlyClosing
  <2>3. u = job[p].user /\ job[p].todo = {} /\ pc[p] = "close"
    BY <1>1, <2>2 DEF DeleteUser
  <2>4. Closing(p)
    BY <1>1, OwnState
  <2>5. QED BY <2>3, <2>4 DEF Closing, Stored
<1>2. IInv /\ KInv /\ [Next]_vars =>
        [\A u \in users \ users' : \A h \in Stored(u) : file[h] = "absent"]_vars
  BY <1>1
<1>3. QED BY <1>2, KInvariance, PTL DEF Spec, FilesGoFirst

(***************************************************************************)
(* Committed artifact rows are a StorageLedger                             *)
(***************************************************************************)

\* Only a commit adds an artifact, and it adds the one its store is about.
LEMMA OnlyCommits ==
  ASSUME IInv, KInv, [Next]_vars
  PROVE  \/ NoGrowth
         \/ \E p \in Procs : /\ Commit(p) \/ CommitFails(p)
                             /\ art'[job[p].row] = "verified" /\ job[p].row \in rows
<1>0. TypeOK /\ StoredOwned
  BY DEF IInv
<1>1. ASSUME NEW p \in Procs, Begin(p) PROVE NoGrowth
  BY <1>1, SameDbNoGrowth
     DEF Begin, BeginStore, BeginDownload, BeginDelete, BeginPrune, BeginDeleteUser
<1>2. ASSUME NEW p \in Procs, Store(p), ~ Commit(p), ~ CommitFails(p) PROVE NoGrowth
  <2>1. CASE \E h \in Rows : AddHistory(p, h) \/ AddMember(p, h)
    BY <1>0, <2>1 DEF AddHistory, AddMember, InsertRow, NoGrowth, TypeOK
  <2>2. CASE Undo(p) \/ ArchiveUndoRow(p)
    BY <2>2, DeleteGroupNoGrowth DEF Undo, ArchiveUndoRow
  <2>3. CASE \/ AddHistoryFails(p) \/ Reserve(p) \/ ReserveFails(p)
             \/ WriteTemporary(p) \/ Publish(p) \/ WriteFails(p)
    BY <2>3, SameDbNoGrowth
       DEF AddHistoryFails, Reserve, ReserveFails, WriteTemporary, Publish, WriteFails
  <2>4. CASE \/ InsertRefused(p) \/ UndoFile(p) \/ UndoFails(p)
             \/ AddMemberFails(p) \/ ArchiveUndoFile(p) \/ ArchiveUndoFails(p)
    BY <2>4, SameDbNoGrowth DEF InsertRefused, UndoFile, UndoFails, AddMemberFails,
                ArchiveUndoFile, ArchiveUndoFails
  <2>5. QED BY <1>2, <2>1, <2>2, <2>3, <2>4 DEF Store
<1>3. ASSUME NEW p \in Procs, Commit(p) \/ CommitFails(p)
      PROVE  NoGrowth \/ (art'[job[p].row] = "verified" /\ job[p].row \in rows)
  <2>1. rows \subseteq Rows
    BY <1>0 DEF TypeOK
  <2>2. CASE Commit(p)
    BY <1>0, <2>1, <2>2 DEF Commit, TypeOK
  <2>3. CASE CommitFails(p)
    BY <1>0, <2>1, <2>3 DEF CommitFails, NoGrowth, TypeOK
  <2>4. QED BY <1>3, <2>2, <2>3
<1>4. ASSUME NEW p \in Procs, Download(p) PROVE NoGrowth
  BY <1>0, <1>4 DEF Download, ReadVerified, SetIntegrity, SetIntegrityFails, NoGrowth, TypeOK, db
<1>5. ASSUME NEW p \in Procs, Delete(p) \/ Prune(p) \/ CloseAccount(p) PROVE NoGrowth
  <2>1. CASE Delete(p)
    BY <2>1, SameDbNoGrowth, DeleteGroupNoGrowth
       DEF Delete, DeleteFile, DeleteFileFails, DeleteRow, DeleteRowFails
  <2>2. CASE Prune(p)
    BY <2>2, SameDbNoGrowth, DeleteGroupNoGrowth
       DEF Prune, PruneFile, PruneSkip, PruneRow, PruneCommit, PruneFails
  <2>3. CASE CloseAccount(p)
    BY <2>3, SameDbNoGrowth
       DEF CloseAccount, DeleteUserFile, DeleteUserFails, DeleteUser, NoGrowth
  <2>4. QED BY <1>5, <2>1, <2>2, <2>3
<1>6. CASE Environment \/ UNCHANGED vars
  BY <1>6 DEF Environment, Crash, Boot, Rot, NoGrowth, vars, db
<1>7. QED BY <1>1, <1>2, <1>3, <1>4, <1>5, <1>6 DEF Next, Step

\* The ledger the committed rows amount to.
Book == [h \in Rows |-> IF art[h] = None THEN None
                        ELSE [owner |-> owner[h], size |-> bytes[h]]]

LEMMA BookEntry ==
  ASSUME TypeOK, StoredOwned, NEW h \in Rows
  PROVE  /\ art[h] = None => Book[h] = None
         /\ art[h] # None => /\ Book[h] = [owner |-> owner[h], size |-> bytes[h]]
                             /\ Book[h] # None
<1>1. art[h] # None => [owner |-> owner[h], size |-> bytes[h]] \in [owner : Users, size : Nat]
  BY DEF TypeOK, StoredOwned
<1>2. QED BY <1>1, NoneIsNoEntry DEF Book

LEMMA BookTotal ==
  ASSUME TypeOK, StoredOwned, NEW u \in Users
  PROVE  Ledger!Total(u) = UsedBy(u) /\ Ledger!OwnedBy(u) = Stored(u)
<1>1. \A h \in Rows : /\ art[h] = None => Book[h] = None
                      /\ art[h] # None => /\ Book[h] = [owner |-> owner[h], size |-> bytes[h]]
                                          /\ Book[h] # None
  BY BookEntry
<1>2. ASSUME NEW h \in Rows
      PROVE  /\ art[h] # None <=> Book[h] # None
             /\ art[h] # None => (Book[h].owner = owner[h] /\ Book[h].size = bytes[h])
  <2>1. CASE art[h] = None
    BY <1>1, <2>1
  <2>2. CASE art[h] # None
    <3>1. Book[h] = [owner |-> owner[h], size |-> bytes[h]] /\ Book[h] # None
      BY <1>1, <2>2
    <3>2. Book[h].owner = owner[h] /\ Book[h].size = bytes[h]
      BY <3>1
    <3>3. QED BY <2>2, <3>1, <3>2
  <2>3. QED BY <2>1, <2>2
<1>3. Ledger!OwnedBy(u) = {h \in Rows : Book[h] # None /\ Book[h].owner = u}
  BY DEF Ledger!OwnedBy, Book
<1>4. Ledger!OwnedBy(u) = Stored(u)
  BY <1>2, <1>3 DEF Stored
<1>5. \A h \in Stored(u) : {h} \X (1 .. Book[h].size) = {h} \X (1 .. bytes[h])
  BY <1>2 DEF Stored
<1>6. Ledger!Total(u) = Cardinality(UNION {{h} \X (1 .. Book[h].size) : h \in Stored(u)})
  <2>1. \A S : Ledger!Cardinality(S) = Cardinality(S)
    BY DEF Ledger!Cardinality, Cardinality
  <2>2. Ledger!Total(u) = Ledger!Cardinality(
                            UNION {{h} \X (1 .. Book[h].size) : h \in Ledger!OwnedBy(u)})
    BY DEF Ledger!Total, Book
  <2>3. QED BY <1>4, <2>1, <2>2
<1>7. UNION {{h} \X (1 .. Book[h].size) : h \in Stored(u)}
        = UNION {{h} \X (1 .. bytes[h]) : h \in Stored(u)}
  BY <1>5
<1>8. QED BY <1>4, <1>6, <1>7 DEF UsedBy, BytesOf

\* A step that adds no artifact withdraws the rows that are gone.
LEMMA BookShrinks ==
  ASSUME TypeOK, TypeOK', StoredOwned, StoredOwned', NoGrowth, users' = users
  PROVE  \E S \in SUBSET Rows : Ledger!Withdraw(S)
<1>0. PICK S \in SUBSET Rows : S = {h \in Rows : art'[h] = None}
  OBVIOUS
<1>1. ASSUME NEW h \in Rows PROVE Book'[h] = IF h \in S THEN None ELSE Book[h]
  <2>1. CASE art'[h] = None
    BY <1>0, <2>1 DEF Book
  <2>2. CASE art'[h] # None
    BY <1>0, <2>2 DEF Book, NoGrowth, StoredOwned
  <2>3. QED BY <2>1, <2>2
<1>2. Book' = [h \in Rows |-> Book'[h]]
  BY DEF Book
<1>3. Book' = [h \in Rows |-> IF h \in S THEN None ELSE Book[h]]
  BY <1>1, <1>2
<1>4. Ledger!Withdraw(S)
  BY <1>3 DEF Ledger!Withdraw, Ledger!Without, Book
<1>5. QED BY <1>4

\* Closing an account withdraws what it owns, and nothing else.
LEMMA BookCloses ==
  ASSUME TypeOK, StoredOwned, NEW p \in Procs, DeleteUser(p), Closing(p),
         users' # users
  PROVE  \E u \in Users : Ledger!Close(u)
<1>1. PICK u \in Users : u = job[p].user
  BY DEF DeleteUser, Closing
<1>2. /\ users' = users \ {u} /\ owner' = owner /\ bytes' = bytes
      /\ art' = [h \in Rows |-> IF owner[h] = u THEN None ELSE art[h]]
  BY <1>1 DEF DeleteUser
<1>3. ASSUME NEW h \in Rows
      PROVE  Book'[h] = IF h \in Stored(u) THEN None ELSE Book[h]
  <2>1. CASE owner[h] = u
    BY <1>2, <2>1 DEF Book, Stored
  <2>2. CASE owner[h] # u
    BY <1>2, <2>2 DEF Book, Stored
  <2>3. QED BY <2>1, <2>2
<1>4. Book' = [h \in Rows |-> IF h \in Stored(u) THEN None ELSE Book[h]]
  <2>1. Book' = [h \in Rows |-> Book'[h]]
    BY DEF Book
  <2>2. QED BY <1>3, <2>1
<1>5. Ledger!OwnedBy(u) = Stored(u)
  BY BookTotal
<1>6. u \in users
  BY <1>2
<1>7. Ledger!Close(u)
  BY <1>2, <1>4, <1>5, <1>6 DEF Ledger!Close, Ledger!Without, Book
<1>8. QED BY <1>7

\* A commit deposits its row within the quota of an account that exists.
LEMMA BookGrows ==
  ASSUME IInv, KInv, TypeOK', NEW p \in Procs, Commit(p) \/ CommitFails(p),
         art'[job[p].row] = "verified", job[p].row \in rows
  PROVE  \E u \in Users, h \in Rows, n \in Sizes : Ledger!Deposit(u, h, n)
<1>1. TypeOK /\ StoredOwned /\ Named(p) /\ Roomy(p) /\ Staged(p) /\ pc[p] = "commit"
  BY OwnState DEF IInv, Commit, CommitFails
<1>2. PICK h \in Rows : h = job[p].row
  BY <1>1 DEF Named, Reserved
<1>3. PICK u \in Users : u = job[p].user
  BY <1>1 DEF Named, Reserved
<1>4. /\ owner[h] = u /\ bytes[h] <= Limit - UsedBy(u)
      /\ art[h] = None /\ bytes[h] \in Sizes
  BY <1>1, <1>2, <1>3 DEF Named, Roomy, Staged, Pre, Reserved
<1>5. u \in users
  BY <1>2, <1>4 DEF KInv, RowsSound, Listed
<1>6. /\ users' = users /\ owner' = owner /\ bytes' = bytes
      /\ art' = [art EXCEPT ![h] = "verified"]
  BY <1>1, <1>2, <1>4, NoneIsFresh DEF Commit, CommitFails, TypeOK
<1>7. ASSUME NEW k \in Rows
      PROVE  Book'[k] = IF k = h THEN [owner |-> u, size |-> bytes[h]] ELSE Book[k]
  <2>1. CASE k = h
    BY <1>1, <1>4, <1>6, <2>1, NoneIsFresh DEF Book, TypeOK
  <2>2. CASE k # h
    BY <1>1, <1>6, <2>2 DEF Book, TypeOK
  <2>3. QED BY <2>1, <2>2
<1>8. Book' = [Book EXCEPT ![h] = [owner |-> u, size |-> bytes[h]]]
  <2>1. Book' = [k \in Rows |-> Book'[k]] /\ Book = [k \in Rows |-> Book[k]]
    BY DEF Book
  <2>2. QED BY <1>7, <2>1
<1>9. Book[h] = None /\ Ledger!Total(u) = UsedBy(u)
  BY <1>1, <1>4, BookTotal DEF Book
<1>10. PICK n \in Sizes : n = bytes[h]
  BY <1>4
<1>11. Ledger!Deposit(u, h, n)
  BY <1>4, <1>5, <1>6, <1>8, <1>9, <1>10 DEF Ledger!Deposit, Book
<1>12. QED BY <1>11

\* The whole storage of results, requests, faults, crashes and all, is a
\* StorageLedger: results enter within the quota of an existing account and
\* leave whole, with others or with their account.
THEOREM LedgerKept == Spec => KeepsLedger
<1>1. Init => Ledger!Init
  <2> SUFFICES ASSUME Init PROVE Ledger!Init
    OBVIOUS
  <2>1. users = Users /\ Book = [h \in Rows |-> None]
    BY DEF Init, Book
  <2>2. QED BY <2>1 DEF Ledger!Init, Book
<1>2. ASSUME IInv, KInv, [Next]_vars PROVE [Ledger!Next]_(Ledger!vars)
  <2>1. IInv' /\ TypeOK /\ TypeOK' /\ StoredOwned /\ StoredOwned'
    BY <1>2, StepIInv DEF IInv
  <2>2. CASE users' # users
    <3>1. PICK p \in Procs : DeleteUser(p)
      BY <1>2, <2>2, OnlyClosing
    <3>2. Closing(p)
      BY <1>2, OwnState
    <3>3. \E u \in Users : Ledger!Close(u)
      BY <2>1, <2>2, <3>1, <3>2, BookCloses
    <3>4. QED BY <3>3 DEF Ledger!Next
  <2>3. CASE users' = users /\ NoGrowth
    BY <2>1, <2>3, BookShrinks DEF Ledger!Next
  <2>4. CASE \E p \in Procs : /\ Commit(p) \/ CommitFails(p)
                             /\ art'[job[p].row] = "verified" /\ job[p].row \in rows
    BY <1>2, <2>1, <2>4, BookGrows DEF Ledger!Next
  <2>5. QED BY <1>2, <2>2, <2>3, <2>4, OnlyCommits
<1>3. Spec => Ledger!Init /\ [][Ledger!Next]_(Ledger!vars)
  BY <1>1, <1>2, KInvariance, PTL DEF Spec
<1>4. QED BY <1>3 DEF KeepsLedger, Ledger!Spec

=============================================================================
