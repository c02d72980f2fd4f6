------------------------- MODULE RemoteStore_proofs -------------------------
(***************************************************************************)
(* RemoteStore keeps results whole, leaves no stray object and never calls *)
(* a present result missing, for any number of keys, parts and requests.   *)
(*                                                                         *)
(* The argument.  A key is drawn once, so at most one request puts it, and *)
(* until that request commits no other touches the key: while it uploads,  *)
(* what the bucket holds of the key is exactly the list it would roll back *)
(* (names), and afterwards nothing of the key is added.  A request that    *)
(* deletes has marked the key first and removes the logical object         *)
(* together with its parts.  So, as long as every failed call really had   *)
(* no effect, an object stands under a row with its logical object, or in  *)
(* the hands of the request that put it.                                   *)
(***************************************************************************)
EXTENDS RemoteStore, TLAPS

(***************************************************************************)
(* The inductive invariant                                                 *)
(***************************************************************************)
PutPcs == {"upload", "publish", "rollback", "commit", "undo_head", "undo_remove"}

Index      == 0 .. MaxParts
Has(k, i)  == <<k, i>> \in objects
Puts(p, k) == pc[p] \in PutPcs /\ job[p].key = k

\* What the bucket and the table say of one key.
Unused(k) == length[k] = None =>
  row[k] = None /\ k \notin going /\ \A i \in Index : ~Has(k, i)
Inside(k) == length[k] # None => \A i \in Index : Has(k, i) => i <= length[k]
Saved(k)  == row[k] # None /\ k \notin going =>
  \A i \in Index : i <= length[k] => Has(k, i)
Shown(k)  == clean /\ Has(k, 0) => \A i \in Index : i <= length[k] => Has(k, i)
Said(k)   == clean /\ row[k] = "missing" => ~Has(k, 0)
Held(k)   == clean /\ (\E i \in Index : Has(k, i)) =>
  (row[k] # None /\ Has(k, 0)) \/ \E p \in Procs : Puts(p, k)

KeySound(k) == /\ Unused(k) /\ Inside(k) /\ Saved(k)
               /\ Shown(k) /\ Said(k) /\ Held(k)

\* What a request knows of the key it works on.
Busy(p)    == pc[p] # "idle" => job[p].key \in Keys /\ length[job[p].key] # None
Private(p) == pc[p] \in PutPcs =>
  /\ row[job[p].key] = None /\ job[p].key \notin going
  /\ \A q \in Procs : q # p /\ pc[q] # "idle" => job[q].key # job[p].key
Listing(p) == pc[p] \in {"upload", "publish", "rollback"} =>
  \A n \in job[p].names : n[1] = job[p].key /\ n[2] \in 1 .. length[job[p].key]
Loaded(p)  == LET k == job[p].key IN
  /\ pc[p] = "upload" => job[p].next \in 1 .. length[k]
  /\ pc[p] = "upload" => \A i \in Index : /\ Has(k, i) <=> i \in 1 .. job[p].next - 1
                                          /\ Has(k, i) <=> <<k, i>> \in job[p].names
  /\ pc[p] = "publish" => \A i \in Index : /\ Has(k, i) <=> i \in 1 .. length[k]
                                           /\ Has(k, i) <=> <<k, i>> \in job[p].names
  /\ pc[p] = "rollback" /\ clean =>
       \A i \in Index : Has(k, i) => <<k, i>> \in job[p].names
  /\ pc[p] \in {"commit", "undo_head", "undo_remove"} =>
       \A i \in Index : i <= length[k] => Has(k, i)
Listed(p)  == pc[p] \in {"remove", "undo_remove"} => job[p].names = Whole(job[p].key)
Leaving(p) == /\ pc[p] \in {"head", "remove", "drop"} => job[p].key \in going
              /\ pc[p] = "drop" /\ clean => ~Has(job[p].key, 0)
Judged(p)  == pc[p] = "mark" =>
  /\ job[p].seen \in Statuses
  /\ clean /\ job[p].seen = "missing" => ~Has(job[p].key, 0)

ProcSound(p) == /\ Busy(p) /\ Private(p) /\ Listing(p) /\ Loaded(p)
                /\ Listed(p) /\ Leaving(p) /\ Judged(p)

IInv == /\ TypeOK
        /\ \A k \in Keys : KeySound(k)
        /\ \A p \in Procs : ProcSound(p)

(***************************************************************************)
(* Types                                                                   *)
(***************************************************************************)
LEMMA LengthInIndex ==
  ASSUME TypeOK, NEW k \in Keys, length[k] # None
  PROVE  length[k] \in Index
  BY DEF TypeOK, Index

LEMMA WholeIs ==
  ASSUME TypeOK, NEW k \in Keys, length[k] # None
  PROVE  /\ Whole(k) \in SUBSET Names
         /\ \A c \in Keys, i \in Index :
              <<c, i>> \in Whole(k) <=> (c = k /\ i <= length[k])
<1>1. length[k] \in 0 .. MaxParts /\ MaxParts \in Nat
  BY PartsNatural, LengthInIndex DEF Index
<1>2. \A c \in Keys, i \in Index : <<c, i>> \in Parts(k) <=> c = k /\ i \in 1 .. length[k]
  BY DEF Parts
<1>3. \A c \in Keys, i \in Index : <<c, i>> = Head(k) <=> c = k /\ i = 0
  BY DEF Head
<1>4. ASSUME NEW c \in Keys, NEW i \in Index
      PROVE  <<c, i>> \in Whole(k) <=> (c = k /\ i <= length[k])
  <2>1. i \in Nat /\ length[k] \in Nat
    BY <1>1 DEF Index
  <2>2. i <= length[k] <=> (i = 0 \/ i \in 1 .. length[k])
    BY <2>1
  <2>3. <<c, i>> \in Whole(k) <=> (<<c, i>> = Head(k) \/ <<c, i>> \in Parts(k))
    BY DEF Whole
  <2>4. QED BY <1>2, <1>3, <2>2, <2>3
<1>5. Whole(k) \in SUBSET Names
  BY <1>1 DEF Whole, Head, Parts, Names
<1>6. QED BY <1>4, <1>5

LEMMA JobTyped ==
  ASSUME TypeOK, NEW p \in Procs
  PROVE  /\ job[p].key \in Keys \cup {None} /\ job[p].next \in Nat
         /\ job[p].names \in SUBSET Names /\ job[p].seen \in Statuses \cup {None}
         /\ job[p] \in Job
  BY DEF TypeOK, Job

LEMMA NoJobTyped == NoJob \in Job
  BY DEF NoJob, Job

LEMMA FinishTyped ==
  ASSUME TypeOK, NEW p \in Procs, Finish(p)
  PROVE  pc' \in [Procs -> Pcs] /\ job' \in [Procs -> Job]
  BY NoJobTyped DEF TypeOK, Finish, Goto, Pcs

LEMMA RemovalTyped ==
  ASSUME TypeOK, NEW S, Removed(S) \/ RemoveFailed(S)
  PROVE  objects' \in SUBSET Names /\ clean' \in BOOLEAN
  BY DEF TypeOK, Removed, RemoveFailed

LEMMA UploadTyped ==
  ASSUME TypeOK, NEW n \in Names, Uploaded(n) \/ UploadFailed(n)
  PROVE  objects' \in SUBSET Names /\ clean' \in BOOLEAN
  BY DEF TypeOK, Uploaded, UploadFailed

LEMMA StepTyped ==
  ASSUME IInv, [Next]_vars
  PROVE  TypeOK'
<1>0. TypeOK /\ \A p \in Procs : ProcSound(p)
  BY DEF IInv
<1>1. ASSUME NEW p \in Procs, NEW k \in Keys, NEW n \in {0} \cup 2 .. MaxParts, BeginPut(p, k, n)
      PROVE  TypeOK'
  <2>1. n \in 0 .. MaxParts
    BY PartsNatural
  <2>2. [NoJob EXCEPT !.key = k] \in Job
    BY DEF NoJob, Job
  <2>3. QED BY <1>0, <1>1, <2>1, <2>2 DEF BeginPut, Goto, TypeOK, Pcs
<1>2. ASSUME NEW p \in Procs, NEW k \in Keys, BeginDelete(p, k) \/ BeginGet(p, k)
      PROVE  TypeOK'
  <2>1. [NoJob EXCEPT !.key = k] \in Job
    BY DEF NoJob, Job
  <2>2. QED BY <1>0, <1>2, <2>1 DEF BeginDelete, BeginGet, Goto, TypeOK, Pcs
<1>3. ASSUME NEW p \in Procs, Put(p) PROVE TypeOK'
  <2> DEFINE k == job[p].key
  <2>0. CASE pc[p] # "idle"
    <3>0. k \in Keys /\ length[k] # None /\ length[k] \in 0 .. MaxParts /\ MaxParts \in Nat
      BY <1>0, <2>0, LengthInIndex, PartsNatural DEF ProcSound, Busy, Index
    <3>1. Head(k) \in Names
      BY <3>0 DEF Head, Names
    <3>2. pc[p] = "upload" => job[p].next \in 1 .. MaxParts /\ <<k, job[p].next>> \in Names
      BY <1>0, <3>0 DEF ProcSound, Loaded, Names
    <3> HIDE DEF k
    <3>3. CASE UploadPart(p)
      <4>1. objects' \in SUBSET Names /\ clean' \in BOOLEAN
        BY <1>0, <3>2, <3>3, UploadTyped DEF UploadPart, k
      <4>2. [job[p] EXCEPT !.next = job[p].next + 1,
                           !.names = job[p].names \cup {<<k, job[p].next>>}] \in Job
        <5>1. job[p].names \cup {<<k, job[p].next>>} \in SUBSET Names
          BY <1>0, <3>2, <3>3, JobTyped DEF UploadPart
        <5>2. job[p].next + 1 \in Nat
          BY <1>0, JobTyped
        <5> DEFINE names == job[p].names \cup {<<k, job[p].next>>}
                   next  == job[p].next + 1
        <5>3. job[p] \in Job /\ names \in SUBSET Names /\ next \in Nat
          BY <1>0, <5>1, <5>2, JobTyped
        <5> HIDE DEF names, next
        <5>4. [job[p] EXCEPT !.next = next, !.names = names] \in Job
          BY <5>3 DEF Job
        <5>5. QED BY <5>4 DEF names, next
      <4>3. job' = [job EXCEPT ![p] = [job[p] EXCEPT !.next = job[p].next + 1,
                           !.names = job[p].names \cup {<<k, job[p].next>>}]]
        BY <3>3 DEF UploadPart, k
      <4>4. job' \in [Procs -> Job]
        BY <1>0, <4>2, <4>3 DEF TypeOK
      <4>5. pc' \in [Procs -> Pcs]
        BY <1>0, <3>3 DEF UploadPart, Goto, TypeOK, Pcs
      <4>6. QED BY <1>0, <3>3, <4>1, <4>4, <4>5 DEF UploadPart, TypeOK
    <3>4. CASE Publish(p)
      <4>1. objects' \in SUBSET Names /\ clean' \in BOOLEAN
        BY <1>0, <3>1, <3>4, UploadTyped DEF Publish, k
      <4>2. QED BY <1>0, <3>4, <4>1 DEF Publish, Goto, TypeOK, Pcs
    <3>5. CASE PutFails(p)
      <4>1. objects' \in SUBSET Names /\ clean' \in BOOLEAN
        BY <1>0, <3>1, <3>2, <3>5, UploadTyped DEF PutFails, k
      <4>2. pc' \in [Procs -> Pcs] /\ job' \in [Procs -> Job]
        BY <1>0, <3>5, FinishTyped DEF PutFails, Goto, TypeOK, Pcs
      <4>3. QED BY <1>0, <3>5, <4>1, <4>2 DEF PutFails, TypeOK
    <3>6. CASE Rollback(p)
      BY <1>0, <3>6, FinishTyped, RemovalTyped DEF Rollback, TypeOK
    <3>7. CASE Commit(p)
      BY <1>0, <3>7, FinishTyped DEF Commit, TypeOK, Statuses
    <3>8. CASE CommitFails(p)
      BY <1>0, <3>8 DEF CommitFails, Goto, TypeOK, Pcs
    <3>9. QED BY <1>3, <3>3, <3>4, <3>5, <3>6, <3>7, <3>8 DEF Put
  <2>1. pc[p] # "idle"
    BY <1>3 DEF Put, UploadPart, Publish, PutFails, Rollback, Commit, CommitFails
  <2>2. QED BY <2>0, <2>1
<1>4. ASSUME NEW p \in Procs, Delete(p) PROVE TypeOK'
  <2>1. CASE DeleteHead(p)
    <3>1. job[p].key \in Keys /\ length[job[p].key] # None
      BY <1>0, <2>1 DEF ProcSound, Busy, DeleteHead
    <3>2. Whole(job[p].key) \in SUBSET Names
      BY <1>0, <3>1, WholeIs
    <3>3. [job[p] EXCEPT !.names = Whole(job[p].key)] \in Job
      BY <1>0, <3>2, JobTyped DEF Job
    <3>4. job' = [job EXCEPT ![p] = [job[p] EXCEPT !.names = Whole(job[p].key)]]
      BY <2>1 DEF DeleteHead
    <3>5. job' \in [Procs -> Job]
      BY <1>0, <3>3, <3>4 DEF TypeOK
    <3>6. QED BY <1>0, <2>1, <3>5 DEF DeleteHead, Goto, TypeOK, Pcs
  <2>2. CASE DeleteHeadFails(p)
    <3>1. pc' \in [Procs -> Pcs] /\ job' \in [Procs -> Job]
      BY <1>0, <2>2, FinishTyped DEF DeleteHeadFails, AfterDelete, Goto, TypeOK, Pcs
    <3>2. QED BY <1>0, <2>2, <3>1 DEF DeleteHeadFails, TypeOK
  <2>3. CASE DeleteRemove(p)
    <3>1. pc' \in [Procs -> Pcs] /\ job' \in [Procs -> Job]
      BY <1>0, <2>3, FinishTyped DEF DeleteRemove, AfterDelete, Goto, TypeOK, Pcs
    <3>2. QED BY <1>0, <2>3, <3>1, RemovalTyped DEF DeleteRemove, TypeOK
  <2>4. CASE DropRow(p)
    BY <1>0, <2>4, FinishTyped DEF DropRow, TypeOK
  <2>5. QED BY <1>4, <2>1, <2>2, <2>3, <2>4 DEF Delete
<1>5. ASSUME NEW p \in Procs, Get(p) PROVE TypeOK'
  <2>1. CASE GetHead(p)
    <3>1. [job[p] EXCEPT !.seen = "verified"] \in Job
      BY <1>0, JobTyped DEF Job, Statuses
    <3>2. job' = job \/ job' = [job EXCEPT ![p] = [job[p] EXCEPT !.seen = "verified"]]
      BY <2>1 DEF GetHead
    <3>3. job' \in [Procs -> Job]
      BY <1>0, <3>1, <3>2 DEF TypeOK
    <3>4. QED BY <1>0, <2>1, <3>3 DEF GetHead, Goto, TypeOK, Pcs
  <2>2. CASE GetPart(p)
    <3>1. [job[p] EXCEPT !.seen = "verified"] \in Job
      BY <1>0, JobTyped DEF Job, Statuses
    <3>2. [job[p] EXCEPT !.next = job[p].next + 1] \in Job
      BY <1>0, JobTyped DEF Job
    <3>3. \/ job' = [job EXCEPT ![p] = [job[p] EXCEPT !.seen = "verified"]]
          \/ job' = [job EXCEPT ![p] = [job[p] EXCEPT !.next = job[p].next + 1]]
      BY <2>2 DEF GetPart
    <3>4. job' \in [Procs -> Job]
      BY <1>0, <3>1, <3>2, <3>3 DEF TypeOK
    <3>5. QED BY <1>0, <2>2, <3>4 DEF GetPart, Goto, TypeOK, Pcs
  <2>3. CASE GetFails(p)
    BY <1>0, <2>3 DEF GetFails, Goto, TypeOK, Pcs
  <2>4. CASE Exists(p)
    <3>1. [job[p] EXCEPT !.seen = "corrupt"] \in Job /\ [job[p] EXCEPT !.seen = "missing"] \in Job
      BY <1>0, JobTyped DEF Job, Statuses
    <3>2. \/ job' = [job EXCEPT ![p] = [job[p] EXCEPT !.seen = "corrupt"]]
          \/ job' = [job EXCEPT ![p] = [job[p] EXCEPT !.seen = "missing"]]
      BY <2>4 DEF Exists
    <3>3. job' \in [Procs -> Job]
      BY <1>0, <3>1, <3>2 DEF TypeOK
    <3>4. QED BY <1>0, <2>4, <3>3 DEF Exists, Goto, TypeOK, Pcs
  <2>5. CASE SetIntegrity(p)
    BY <1>0, <2>5, FinishTyped, JobTyped DEF SetIntegrity, TypeOK
  <2>6. QED BY <1>5, <2>1, <2>2, <2>3, <2>4, <2>5 DEF Get
<1>6. ASSUME NEW p \in Procs, Die(p) PROVE TypeOK'
  BY <1>0, <1>6, FinishTyped DEF Die, TypeOK
<1>7. UNCHANGED vars => TypeOK'
  BY <1>0 DEF vars, TypeOK
<1>8. QED BY <1>1, <1>2, <1>3, <1>4, <1>5, <1>6, <1>7 DEF Next

(***************************************************************************)
(* What a step leaves alone: it moves one request and touches one key      *)
(***************************************************************************)
Touches(k) ==
  /\ \A c \in Keys : c # k => /\ length'[c] = length[c] /\ row'[c] = row[c]
                              /\ c \in going' <=> c \in going
                              /\ \A i \in Index : Has(c, i)' <=> Has(c, i)
  /\ length[k] # None => length'[k] = length[k]
  /\ k \in going => k \in going'
  /\ clean' => clean

Moves(p) == \A q \in Procs : q # p => pc'[q] = pc[q] /\ job'[q] = job[q]

\* p works on k, or starts to: on a key that is new, or that has a row.
WorksOn(p, k) ==
  /\ IF pc[p] = "idle" THEN length[k] = None \/ row[k] # None ELSE job[p].key = k
  /\ pc'[p] = "idle" \/ job'[p].key = k
  /\ pc[p] \in PutPcs \/ \A i \in Index : Has(k, i)' => Has(k, i)

LEMMA OtherKeySound ==
  ASSUME NEW p \in Procs, NEW k \in Keys, Touches(k), Moves(p), WorksOn(p, k),
         NEW c \in Keys, c # k, KeySound(c)
  PROVE  KeySound(c)'
<1>1. \A q \in Procs : Puts(q, c) => Puts(q, c)'
  BY DEF Puts, Moves, WorksOn, PutPcs
<1>2. length'[c] = length[c] /\ row'[c] = row[c] /\ (c \in going' <=> c \in going)
  BY DEF Touches
<1>3. \A i \in Index : Has(c, i)' <=> Has(c, i)
  BY DEF Touches
<1>4. clean' => clean
  BY DEF Touches
<1>5. 0 \in Index
  BY PartsNatural DEF Index
<1>6. Unused(c)' /\ Inside(c)' /\ Saved(c)'
  BY <1>2, <1>3 DEF KeySound, Unused, Inside, Saved
<1>7. Shown(c)' /\ Said(c)'
  BY <1>2, <1>3, <1>4, <1>5 DEF KeySound, Shown, Said
<1>8. Held(c)'
  BY <1>1, <1>2, <1>3, <1>4, <1>5 DEF KeySound, Held
<1>9. QED BY <1>6, <1>7, <1>8 DEF KeySound

LEMMA WholeStays ==
  ASSUME NEW k, length'[k] = length[k]
  PROVE  Whole(k)' = Whole(k)
  BY DEF Whole, Head, Parts

LEMMA OtherRequestSound ==
  ASSUME IInv, NEW p \in Procs, NEW k \in Keys, Touches(k), Moves(p), WorksOn(p, k),
         NEW q \in Procs, q # p
  PROVE  ProcSound(q)'
<1>0. ProcSound(q) /\ ProcSound(p) /\ pc'[q] = pc[q] /\ job'[q] = job[q]
  BY DEF IInv, Moves
<1>1. CASE pc[q] = "idle"
  BY <1>0, <1>1 DEF ProcSound, Busy, Private, Listing, Loaded, Listed, Leaving, Judged, PutPcs
<1>2. ASSUME NEW c \in Keys, job[q].key = c, pc[q] # "idle" PROVE ProcSound(q)'
  <2>0. length[c] # None /\ length'[c] = length[c] /\ job'[q].key = c /\ Whole(c)' = Whole(c)
    <3>1. length[c] # None
      BY <1>0, <1>2 DEF ProcSound, Busy
    <3>2. length'[c] = length[c]
      BY <3>1 DEF Touches
    <3>3. QED BY <1>0, <1>2, <3>1, <3>2, WholeStays
  <2>1. clean' => clean
    BY DEF Touches
  <2>2. 0 \in Index
    BY PartsNatural DEF Index
  <2>3. Busy(q)' /\ Listing(q)' /\ Listed(q)'
    BY <1>0, <1>2, <2>0 DEF ProcSound, Busy, Listing, Listed
  <2>4. c \in going => c \in going'
    BY DEF Touches
  <2>5. CASE c = k
    <3>1. pc[q] \notin PutPcs /\ pc[p] \notin PutPcs
      <4>1. CASE pc[p] = "idle"
        BY <1>0, <1>2, <2>0, <2>5, <4>1 DEF WorksOn, ProcSound, Private, PutPcs
      <4>2. CASE pc[p] # "idle"
        BY <1>0, <1>2, <2>5, <4>2 DEF WorksOn, ProcSound, Private
      <4>3. QED BY <4>1, <4>2
    <3>2. Has(c, 0)' => Has(c, 0)
      BY <2>2, <2>5, <3>1 DEF WorksOn
    <3>3. Private(q)' /\ Loaded(q)'
      BY <1>0, <3>1 DEF Private, Loaded, PutPcs
    <3>4. Leaving(q)' /\ Judged(q)'
      BY <1>0, <1>2, <2>1, <2>4, <3>2 DEF ProcSound, Leaving, Judged
    <3>5. QED BY <2>3, <3>3, <3>4 DEF ProcSound
  <2>6. CASE c # k
    <3>1. row'[c] = row[c] /\ (c \in going' <=> c \in going)
      BY <2>6 DEF Touches
    <3>2. \A i \in Index : Has(c, i)' <=> Has(c, i)
      BY <2>6 DEF Touches
    <3>3. ASSUME pc[q] \in PutPcs, NEW r \in Procs, r # q, pc'[r] # "idle"
          PROVE  job'[r].key # c
      <4>1. CASE r = p
        BY <2>6, <3>3, <4>1 DEF WorksOn
      <4>2. CASE r # p
        BY <1>0, <1>2, <3>3, <4>2 DEF Moves, ProcSound, Private
      <4>3. QED BY <4>1, <4>2
    <3>4. Private(q)'
      BY <1>0, <1>2, <3>1, <3>3 DEF ProcSound, Private
    <3>5. Loaded(q)'
      BY <1>0, <1>2, <2>0, <2>1, <3>2 DEF ProcSound, Loaded
    <3>6. Leaving(q)' /\ Judged(q)'
      BY <1>0, <1>2, <2>1, <2>2, <3>1, <3>2 DEF ProcSound, Leaving, Judged
    <3>7. QED BY <2>3, <3>4, <3>5, <3>6 DEF ProcSound
  <2>7. QED BY <2>5, <2>6
<1>3. pc[q] # "idle" => job[q].key \in Keys
  BY <1>0 DEF ProcSound, Busy
<1>4. QED BY <1>1, <1>2, <1>3

LEMMA StepSound ==
  ASSUME IInv, TypeOK', NEW p \in Procs, NEW k \in Keys, Touches(k), Moves(p),
         WorksOn(p, k), ProcSound(p)', KeySound(k)'
  PROVE  IInv'
<1>1. \A c \in Keys : KeySound(c)'
  <2> SUFFICES ASSUME NEW c \in Keys PROVE KeySound(c)'
    OBVIOUS
  <2>1. CASE c = k
    BY <2>1
  <2>2. CASE c # k
    BY <2>2, OtherKeySound DEF IInv
  <2>3. QED BY <2>1, <2>2
<1>2. \A q \in Procs : ProcSound(q)'
  <2> SUFFICES ASSUME NEW q \in Procs PROVE ProcSound(q)'
    OBVIOUS
  <2>1. CASE q = p
    BY <2>1
  <2>2. CASE q # p
    BY <2>2, OtherRequestSound
  <2>3. QED BY <2>1, <2>2
<1>3. QED BY <1>1, <1>2 DEF IInv

\* What every step of a started request may start from.
LEMMA MyKey ==
  ASSUME IInv, NEW p \in Procs, pc[p] # "idle"
  PROVE  /\ job[p].key \in Keys /\ length[job[p].key] # None
         /\ length[job[p].key] \in Index
         /\ TypeOK /\ KeySound(job[p].key) /\ ProcSound(p)
         /\ 0 \in Index
<1>1. ProcSound(p) /\ TypeOK
  BY DEF IInv
<1>2. job[p].key \in Keys /\ length[job[p].key] # None
  BY <1>1 DEF ProcSound, Busy
<1>3. QED BY <1>1, <1>2, LengthInIndex, PartsNatural DEF IInv, Index

\* A request that ends lets go of its key.
LEMMA Ended ==
  ASSUME TypeOK, NEW p \in Procs, Finish(p)
  PROVE  /\ pc'[p] = "idle" /\ Moves(p) /\ ProcSound(p)'
         /\ \A q \in Procs, k \in Keys : q # p => (Puts(q, k)' <=> Puts(q, k))
<1>1. pc'[p] = "idle" /\ Moves(p)
  BY DEF TypeOK, Finish, Goto, Moves
<1>2. ProcSound(p)'
  BY <1>1 DEF ProcSound, Busy, Private, Listing, Loaded, Listed, Leaving, Judged, PutPcs
<1>3. QED BY <1>1, <1>2 DEF Moves, Puts

(***************************************************************************)
(* put                                                                     *)
(***************************************************************************)
LEMMA BeginPutSound ==
  ASSUME IInv, TypeOK', NEW p \in Procs, NEW k \in Keys, NEW n \in {0} \cup 2 .. MaxParts,
         BeginPut(p, k, n)
  PROVE  IInv'
<1>0. TypeOK /\ KeySound(k) /\ n \in Index /\ n # None /\ 0 \in Index
  BY PartsNatural, NoneIsNoLength DEF IInv, Index
<1>1. /\ pc[p] = "idle" /\ length[k] = None /\ length'[k] = n
      /\ \A c \in Keys : c # k => length'[c] = length[c]
      /\ objects' = objects /\ row' = row /\ going' = going /\ clean' = clean
      /\ pc'[p] = (IF n = 0 THEN "publish" ELSE "upload")
      /\ job'[p].key = k /\ job'[p].next = 1 /\ job'[p].names = {}
      /\ Moves(p)
  BY <1>0 DEF BeginPut, Goto, TypeOK, Moves, NoJob
<1>2. row[k] = None /\ k \notin going /\ \A i \in Index : ~Has(k, i)
  BY <1>0, <1>1 DEF KeySound, Unused
<1>3. \A c \in Keys, i \in Index : Has(c, i)' <=> Has(c, i)
  BY <1>1 DEF Has
<1>4. Touches(k) /\ WorksOn(p, k)
  BY <1>1, <1>3 DEF Touches, WorksOn
<1>5. \A q \in Procs : q # p /\ pc'[q] # "idle" => job'[q].key # k
  BY <1>1 DEF IInv, ProcSound, Busy, Moves
<1>6. Busy(p)' /\ Private(p)' /\ Listing(p)' /\ Listed(p)' /\ Leaving(p)' /\ Judged(p)'
  BY <1>0, <1>1, <1>2, <1>5 DEF Busy, Private, Listing, Listed, Leaving, Judged
<1>7. Loaded(p)'
  <2>1. \A i \in Index : ~Has(k, i)'
    BY <1>2, <1>3
  <2>2. pc'[p] = "upload" => n >= 2
    BY <1>1
  <2>3. \A i \in Index : i \notin 1 .. 0
    OBVIOUS
  <2>4. QED BY <1>0, <1>1, <2>1, <2>2, <2>3 DEF Loaded, Index
<1>8. KeySound(k)'
  BY <1>0, <1>1, <1>2, <1>3, NoneIsFresh
     DEF KeySound, Unused, Inside, Saved, Shown, Said, Held
<1>9. QED BY <1>4, <1>1, <1>6, <1>7, <1>8, StepSound DEF ProcSound

LEMMA UploadPartSound ==
  ASSUME IInv, TypeOK', NEW p \in Procs, UploadPart(p)
  PROVE  IInv'
<1>0. PICK k \in Keys : k = job[p].key
  BY MyKey DEF UploadPart
<1>1. /\ TypeOK /\ KeySound(k) /\ ProcSound(p) /\ length[k] # None /\ length[k] \in Index
      /\ pc[p] = "upload"
  BY <1>0, MyKey DEF UploadPart
<1>2. PICK j \in Index : j = job[p].next
  BY <1>0, <1>1, PartsNatural DEF ProcSound, Loaded, Index
<1>3. /\ j \in 1 .. length[k] /\ length[k] \in Nat
      /\ \A i \in Index : /\ Has(k, i) <=> i \in 1 .. j - 1
                          /\ Has(k, i) <=> <<k, i>> \in job[p].names
  BY <1>0, <1>1, <1>2 DEF ProcSound, Loaded, Index
<1>4. /\ length' = length /\ row' = row /\ going' = going /\ clean' = clean
      /\ objects' = objects \cup {<<k, j>>}
      /\ pc'[p] = (IF j = length[k] THEN "publish" ELSE "upload")
      /\ job'[p].key = k /\ job'[p].next = j + 1
      /\ job'[p].names = job[p].names \cup {<<k, j>>}
      /\ Moves(p)
  <2>1. job'[p] = [job[p] EXCEPT !.next = j + 1, !.names = job[p].names \cup {<<k, j>>}]
    BY <1>0, <1>1, <1>2 DEF UploadPart, TypeOK
  <2>2. /\ job'[p].key = k /\ job'[p].next = j + 1
        /\ job'[p].names = job[p].names \cup {<<k, j>>}
    BY <1>0, <1>1, <2>1, JobTyped DEF Job
  <2>3. QED BY <1>0, <1>1, <1>2, <2>2 DEF UploadPart, Uploaded, Goto, TypeOK, Moves
<1>5. \A c \in Keys, i \in Index : Has(c, i)' <=> Has(c, i) \/ (c = k /\ i = j)
  BY <1>4 DEF Has
<1>6. Touches(k) /\ WorksOn(p, k)
  BY <1>0, <1>1, <1>4, <1>5 DEF Touches, WorksOn, PutPcs
<1>7. Busy(p)' /\ Private(p)' /\ Listed(p)' /\ Leaving(p)' /\ Judged(p)'
  BY <1>0, <1>1, <1>4 DEF ProcSound, Busy, Private, Listed, Leaving, Judged, Moves, PutPcs
<1>8. Listing(p)'
  BY <1>0, <1>1, <1>3, <1>4 DEF ProcSound, Listing
<1>9. Loaded(p)'
  <2>1. \A i \in Index : /\ Has(k, i)' <=> i \in 1 .. j
                         /\ Has(k, i)' <=> <<k, i>> \in job'[p].names
    BY <1>3, <1>4, <1>5 DEF Index
  <2>2. CASE j = length[k]
    BY <1>4, <2>1, <2>2 DEF Loaded
  <2>3. CASE j # length[k]
    <3>1. j + 1 \in 1 .. length[k] /\ (j + 1) - 1 = j
      BY <1>3, <2>3
    <3>2. QED BY <1>4, <2>1, <2>3, <3>1 DEF Loaded
  <2>4. QED BY <2>2, <2>3
<1>10. KeySound(k)'
  <2>1. Puts(p, k)'
    BY <1>4 DEF Puts, PutPcs
  <2>2. row[k] = None /\ k \notin going
    BY <1>0, <1>1 DEF ProcSound, Private, PutPcs
  <2>3. \A i \in Index : (i \in 1 .. j - 1 \/ i = j) => i # 0 /\ i <= length[k]
    BY <1>3 DEF Index
  <2>4. \A i \in Index : Has(k, i)' => i # 0 /\ i <= length[k]
    BY <1>3, <1>5, <2>3
  <2>5. 0 \in Index /\ ~Has(k, 0)'
    BY <2>4, PartsNatural DEF Index
  <2>6. QED BY <1>1, <1>4, <2>1, <2>2, <2>4, <2>5, NoneIsFresh
            DEF KeySound, Unused, Inside, Saved, Shown, Said, Held
<1>11. QED BY <1>4, <1>6, <1>7, <1>8, <1>9, <1>10, StepSound DEF ProcSound

LEMMA PublishSound ==
  ASSUME IInv, TypeOK', NEW p \in Procs, Publish(p)
  PROVE  IInv'
<1>0. PICK k \in Keys : k = job[p].key
  BY MyKey DEF Publish
<1>1. /\ TypeOK /\ KeySound(k) /\ ProcSound(p) /\ length[k] # None /\ length[k] \in Index
      /\ pc[p] = "publish" /\ 0 \in Index
  BY <1>0, MyKey DEF Publish
<1>2. /\ length' = length /\ row' = row /\ going' = going /\ clean' = clean /\ job' = job
      /\ objects' = objects \cup {<<k, 0>>} /\ pc'[p] = "commit" /\ Moves(p)
  BY <1>0, <1>1 DEF Publish, Uploaded, Head, Goto, TypeOK, Moves
<1>3. \A c \in Keys, i \in Index : Has(c, i)' <=> Has(c, i) \/ (c = k /\ i = 0)
  BY <1>2 DEF Has
<1>4. \A i \in Index : Has(k, i)' <=> i <= length[k]
  <2>1. \A i \in Index : Has(k, i) <=> i \in 1 .. length[k]
    BY <1>0, <1>1 DEF ProcSound, Loaded
  <2>2. QED BY <1>1, <1>3, <2>1 DEF Index
<1>5. Touches(k) /\ WorksOn(p, k)
  BY <1>0, <1>1, <1>2, <1>3 DEF Touches, WorksOn, PutPcs
<1>6. ProcSound(p)'
  <2>1. Busy(p)' /\ Private(p)' /\ Listing(p)' /\ Listed(p)' /\ Leaving(p)' /\ Judged(p)'
    BY <1>0, <1>1, <1>2
       DEF ProcSound, Busy, Private, Listing, Listed, Leaving, Judged, Moves, PutPcs
  <2>2. Loaded(p)'
    BY <1>0, <1>2, <1>4 DEF Loaded
  <2>3. QED BY <2>1, <2>2 DEF ProcSound
<1>7. KeySound(k)'
  <2>1. Puts(p, k)'
    BY <1>0, <1>2 DEF Puts, PutPcs
  <2>2. row[k] = None /\ k \notin going
    BY <1>0, <1>1 DEF ProcSound, Private, PutPcs
  <2>3. QED BY <1>1, <1>2, <1>4, <2>1, <2>2, NoneIsFresh
            DEF KeySound, Unused, Inside, Saved, Shown, Said, Held
<1>8. QED BY <1>2, <1>5, <1>6, <1>7, StepSound

\* An upload that fails leaves what was uploaded before in the list, and only
\* an unclean one leaves more.
LEMMA PutFailsSound ==
  ASSUME IInv, TypeOK', NEW p \in Procs, PutFails(p)
  PROVE  IInv'
<1>0. PICK k \in Keys : k = job[p].key
  BY MyKey DEF PutFails
<1>1. /\ TypeOK /\ KeySound(k) /\ ProcSound(p) /\ length[k] # None /\ length[k] \in Index
      /\ pc[p] \in {"upload", "publish"} /\ 0 \in Index
      /\ row[k] = None /\ k \notin going
  BY <1>0, MyKey DEF PutFails, ProcSound, Private, PutPcs
<1>2. PICK j \in Index : j <= length[k] /\ UploadFailed(<<k, j>>)
  <2>1. CASE pc[p] = "upload"
    BY <1>0, <1>1, <2>1, PartsNatural DEF PutFails, ProcSound, Loaded, Index
  <2>2. CASE pc[p] = "publish"
    BY <1>0, <1>1, <2>2 DEF PutFails, Head, Index
  <2>3. QED BY <1>1, <2>1, <2>2
<1>3. /\ length' = length /\ row' = row /\ going' = going /\ Moves(p)
      /\ clean' => clean /\ objects' = objects
      /\ objects' = objects \/ objects' = objects \cup {<<k, j>>}
  BY <1>1, <1>2, Ended DEF PutFails, UploadFailed, Goto, TypeOK, Moves
<1>4. /\ \A c \in Keys, i \in Index : c # k => (Has(c, i)' <=> Has(c, i))
      /\ \A i \in Index : Has(k, i)' => Has(k, i) \/ i = j
      /\ \A i \in Index : clean' => (Has(k, i)' <=> Has(k, i))
  BY <1>3 DEF Has
<1>5. \A i \in Index : Has(k, i) => <<k, i>> \in job[p].names /\ i # 0
  BY <1>0, <1>1 DEF ProcSound, Loaded, Index
<1>6. Inside(k)'
  BY <1>1, <1>2, <1>3, <1>4 DEF KeySound, Inside
<1>7. Unused(k)' /\ Saved(k)' /\ Shown(k)' /\ Said(k)'
  BY <1>1, <1>3, <1>4, <1>5, NoneIsFresh DEF Unused, Saved, Shown, Said
<1>8. CASE job[p].names = {}
  <2>1. Finish(p)
    BY <1>8 DEF PutFails
  <2>2. \A i \in Index : clean' => ~Has(k, i)'
    BY <1>4, <1>5, <1>8
  <2>3. KeySound(k)'
    BY <1>6, <1>7, <2>2 DEF KeySound, Held
  <2>4. Touches(k) /\ WorksOn(p, k)
    BY <1>0, <1>1, <1>3, <1>4, <2>1, Ended DEF Touches, WorksOn, PutPcs
  <2>5. QED BY <1>1, <1>3, <2>1, <2>3, <2>4, Ended, StepSound
<1>9. CASE job[p].names # {}
  <2>1. pc'[p] = "rollback" /\ job' = job
    BY <1>1, <1>9 DEF PutFails, Goto, TypeOK
  <2>2. Puts(p, k)'
    BY <1>0, <2>1 DEF Puts, PutPcs
  <2>3. KeySound(k)'
    BY <1>6, <1>7, <2>2 DEF KeySound, Held
  <2>4. Touches(k) /\ WorksOn(p, k)
    BY <1>0, <1>1, <1>3, <1>4, <2>1 DEF Touches, WorksOn, PutPcs
  <2>5. Busy(p)' /\ Private(p)' /\ Listing(p)' /\ Listed(p)' /\ Leaving(p)' /\ Judged(p)'
    BY <1>0, <1>1, <1>3, <2>1
       DEF ProcSound, Busy, Private, Listing, Listed, Leaving, Judged, Moves, PutPcs
  <2>6. Loaded(p)'
    BY <1>0, <1>4, <1>5, <2>1 DEF Loaded
  <2>7. QED BY <1>1, <1>3, <2>3, <2>4, <2>5, <2>6, StepSound DEF ProcSound
<1>10. QED BY <1>8, <1>9

\* Removing objects of k alone.
LEMMA Removal ==
  ASSUME NEW k \in Keys, NEW S, Removed(S) \/ RemoveFailed(S), \A n \in S : n[1] = k
  PROVE  /\ \A c \in Keys, i \in Index : c # k => (Has(c, i)' <=> Has(c, i))
         /\ \A i \in Index : Has(k, i)' => Has(k, i)
         /\ clean' => clean /\ \A i \in Index : Has(k, i)' => <<k, i>> \notin S
<1>1. PICK T \in SUBSET S : objects' = objects \ T
  BY DEF Removed, RemoveFailed
<1>2. \A c \in Keys, i \in Index : c # k => <<c, i>> \notin T
  BY <1>1
<1>3. clean' => clean /\ objects' = objects \ S
  BY DEF Removed, RemoveFailed
<1>4. QED BY <1>1, <1>2, <1>3 DEF Has

LEMMA RollbackSound ==
  ASSUME IInv, TypeOK', NEW p \in Procs, Rollback(p)
  PROVE  IInv'
<1>0. PICK k \in Keys : k = job[p].key
  BY MyKey DEF Rollback
<1>1. /\ TypeOK /\ KeySound(k) /\ ProcSound(p) /\ length[k] # None /\ length[k] \in Index
      /\ pc[p] = "rollback" /\ 0 \in Index
      /\ row[k] = None /\ k \notin going /\ Finish(p)
  BY <1>0, MyKey DEF Rollback, ProcSound, Private, PutPcs
<1>2. length' = length /\ row' = row /\ going' = going
  BY DEF Rollback
<1>3. \A n \in job[p].names : n[1] = k
  BY <1>0, <1>1 DEF ProcSound, Listing
<1>4. Removed(job[p].names) \/ RemoveFailed(job[p].names)
  BY DEF Rollback
<1>5. /\ \A c \in Keys, i \in Index : c # k => (Has(c, i)' <=> Has(c, i))
      /\ \A i \in Index : Has(k, i)' => Has(k, i)
      /\ clean' => clean /\ \A i \in Index : Has(k, i)' => <<k, i>> \notin job[p].names
  BY <1>3, <1>4, Removal
<1>6. clean' => \A i \in Index : ~Has(k, i)'
  BY <1>0, <1>1, <1>5 DEF ProcSound, Loaded
<1>7. Touches(k) /\ WorksOn(p, k)
  BY <1>0, <1>1, <1>2, <1>5, Ended DEF Touches, WorksOn, PutPcs
<1>8. KeySound(k)'
  BY <1>1, <1>2, <1>5, <1>6, NoneIsFresh
     DEF KeySound, Unused, Inside, Saved, Shown, Said, Held
<1>9. QED BY <1>1, <1>7, <1>8, Ended, StepSound

LEMMA CommitSound ==
  ASSUME IInv, TypeOK', NEW p \in Procs, Commit(p)
  PROVE  IInv'
<1>0. PICK k \in Keys : k = job[p].key
  BY MyKey DEF Commit
<1>1. /\ TypeOK /\ KeySound(k) /\ ProcSound(p) /\ length[k] # None /\ length[k] \in Index
      /\ pc[p] = "commit" /\ 0 \in Index /\ Finish(p)
  BY <1>0, MyKey DEF Commit
<1>2. /\ length' = length /\ objects' = objects /\ going' = going /\ clean' = clean
      /\ row'[k] = "verified" /\ \A c \in Keys : c # k => row'[c] = row[c]
  BY <1>0, <1>1 DEF Commit, TypeOK
<1>3. \A c \in Keys, i \in Index : Has(c, i)' <=> Has(c, i)
  BY <1>2 DEF Has
<1>4. \A i \in Index : i <= length[k] => Has(k, i)
  BY <1>0, <1>1 DEF ProcSound, Loaded
<1>5. 0 <= length[k] /\ "verified" # None
  BY <1>1, NoneIsFresh DEF Index
<1>6. Touches(k) /\ WorksOn(p, k)
  BY <1>0, <1>1, <1>2, <1>3, Ended DEF Touches, WorksOn, PutPcs
<1>7. KeySound(k)'
  <2>1. Has(k, 0)' /\ \A i \in Index : i <= length[k] => Has(k, i)'
    BY <1>1, <1>3, <1>4, <1>5
  <2>2. Unused(k)' /\ Inside(k)' /\ Saved(k)'
    BY <1>1, <1>2, <1>3, <2>1 DEF KeySound, Unused, Inside, Saved
  <2>3. Shown(k)' /\ Said(k)' /\ Held(k)'
    BY <1>1, <1>2, <1>5, <2>1 DEF Shown, Said, Held
  <2>4. QED BY <2>2, <2>3 DEF KeySound
<1>8. QED BY <1>1, <1>6, <1>7, Ended, StepSound

LEMMA CommitFailsSound ==
  ASSUME IInv, TypeOK', NEW p \in Procs, CommitFails(p)
  PROVE  IInv'
<1>0. PICK k \in Keys : k = job[p].key
  BY MyKey DEF CommitFails
<1>1. /\ TypeOK /\ KeySound(k) /\ ProcSound(p) /\ length[k] # None /\ pc[p] = "commit"
      /\ 0 \in Index
  BY <1>0, MyKey DEF CommitFails
<1>2. /\ length' = length /\ objects' = objects /\ going' = going /\ clean' = clean
      /\ row' = row /\ job' = job /\ pc'[p] = "undo_head" /\ Moves(p)
  BY <1>1 DEF CommitFails, Goto, TypeOK, Moves
<1>3. \A c \in Keys, i \in Index : Has(c, i)' <=> Has(c, i)
  BY <1>2 DEF Has
<1>4. Touches(k) /\ WorksOn(p, k)
  BY <1>0, <1>1, <1>2, <1>3 DEF Touches, WorksOn, PutPcs
<1>5. Busy(p)' /\ Private(p)' /\ Listing(p)' /\ Listed(p)' /\ Leaving(p)' /\ Judged(p)'
  BY <1>0, <1>1, <1>2
     DEF ProcSound, Busy, Private, Listing, Listed, Leaving, Judged, Moves, PutPcs
<1>6. Loaded(p)'
  BY <1>0, <1>1, <1>2, <1>3 DEF ProcSound, Loaded
<1>7. Puts(p, k)' /\ Puts(p, k)
  BY <1>0, <1>1, <1>2 DEF Puts, PutPcs
<1>8. KeySound(k)'
  BY <1>1, <1>2, <1>3, <1>7
     DEF KeySound, Unused, Inside, Saved, Shown, Said, Held
<1>9. QED BY <1>2, <1>4, <1>5, <1>6, <1>8, StepSound DEF ProcSound

(***************************************************************************)
(* delete, get and the environment                                         *)
(***************************************************************************)
LEMMA BeginReadSound ==
  ASSUME IInv, TypeOK', NEW p \in Procs, NEW k \in Keys, BeginDelete(p, k) \/ BeginGet(p, k)
  PROVE  IInv'
<1>0. TypeOK /\ KeySound(k) /\ 0 \in Index /\ pc[p] = "idle" /\ row[k] # None
  BY PartsNatural DEF IInv, Index, BeginDelete, BeginGet
<1>1. length[k] # None
  BY <1>0 DEF KeySound, Unused
<1>2. /\ length' = length /\ objects' = objects /\ row' = row /\ clean' = clean
      /\ job'[p].key = k /\ Moves(p) /\ going \subseteq going'
      /\ \A c \in Keys : c # k /\ c \in going' => c \in going
      /\ pc'[p] \in {"head", "get_head"} /\ (pc'[p] = "head" => k \in going')
  BY <1>0 DEF BeginDelete, BeginGet, Goto, TypeOK, Moves, NoJob
<1>3. \A c \in Keys, i \in Index : Has(c, i)' <=> Has(c, i)
  BY <1>2 DEF Has
<1>4. Touches(k) /\ WorksOn(p, k)
  BY <1>0, <1>2, <1>3 DEF Touches, WorksOn
<1>5. ProcSound(p)'
  BY <1>1, <1>2 DEF ProcSound, Busy, Private, Listing, Loaded, Listed, Leaving, Judged, PutPcs
<1>6. \A q \in Procs : Puts(q, k) => Puts(q, k)'
  BY <1>0, <1>2 DEF Puts, Moves, PutPcs
<1>7. KeySound(k)'
  BY <1>0, <1>1, <1>2, <1>3, <1>6
     DEF KeySound, Unused, Inside, Saved, Shown, Said, Held
<1>8. QED BY <1>2, <1>4, <1>5, <1>7, StepSound

LEMMA DeleteHeadSound ==
  ASSUME IInv, TypeOK', NEW p \in Procs, DeleteHead(p)
  PROVE  IInv'
<1>0. PICK k \in Keys : k = job[p].key
  BY MyKey DEF DeleteHead
<1>1. /\ TypeOK /\ KeySound(k) /\ ProcSound(p) /\ length[k] # None
      /\ pc[p] \in {"head", "undo_head"} /\ 0 \in Index
  BY <1>0, MyKey DEF DeleteHead
<1>2. /\ length' = length /\ objects' = objects /\ going' = going /\ clean' = clean
      /\ row' = row /\ Moves(p)
      /\ pc'[p] = (IF pc[p] = "head" THEN "remove" ELSE "undo_remove")
  BY <1>1 DEF DeleteHead, Goto, TypeOK, Moves
<1>3. job'[p].key = k /\ job'[p].names = Whole(k)
  <2>1. job'[p] = [job[p] EXCEPT !.names = Whole(k)]
    BY <1>0, <1>1 DEF DeleteHead, TypeOK
  <2>2. QED BY <1>0, <1>1, <2>1, JobTyped DEF Job
<1>4. \A c \in Keys, i \in Index : Has(c, i)' <=> Has(c, i)
  BY <1>2 DEF Has
<1>5. Touches(k) /\ WorksOn(p, k)
  BY <1>0, <1>1, <1>2, <1>3, <1>4 DEF Touches, WorksOn
<1>6. Listed(p)'
  <2>1. Whole(k)' = Whole(k)
    BY <1>2, WholeStays
  <2>2. QED BY <1>3, <2>1 DEF Listed
<1>7. Busy(p)' /\ Private(p)' /\ Listing(p)' /\ Leaving(p)' /\ Judged(p)'
  BY <1>0, <1>1, <1>2, <1>3
     DEF ProcSound, Busy, Private, Listing, Leaving, Judged, Moves, PutPcs
<1>8. Loaded(p)'
  BY <1>0, <1>1, <1>2, <1>3, <1>4 DEF ProcSound, Loaded
<1>9. \A q \in Procs : Puts(q, k) => Puts(q, k)'
  BY <1>0, <1>1, <1>2, <1>3 DEF Puts, Moves, PutPcs
<1>10. KeySound(k)'
  BY <1>1, <1>2, <1>4, <1>9
     DEF KeySound, Unused, Inside, Saved, Shown, Said, Held
<1>11. QED BY <1>2, <1>5, <1>6, <1>7, <1>8, <1>10, StepSound DEF ProcSound

\* After a delete that really took effect, or found nothing to remove, none
\* of the key's objects is left; its caller goes on or is done.
LEMMA AfterDeleteSound ==
  ASSUME IInv, TypeOK', NEW p \in Procs, NEW k \in Keys, k = job[p].key,
         pc[p] \in {"head", "remove", "undo_head", "undo_remove"}, AfterDelete(p),
         length' = length, row' = row, going' = going,
         \A c \in Keys, i \in Index : c # k => (Has(c, i)' <=> Has(c, i)),
         \A i \in Index : Has(k, i)' => Has(k, i),
         clean' => clean /\ \A i \in Index : ~Has(k, i)'
  PROVE  IInv'
<1>1. /\ TypeOK /\ KeySound(k) /\ ProcSound(p) /\ length[k] # None
      /\ 0 \in Index
  BY MyKey
<1>2. CASE pc[p] \in {"undo_head", "undo_remove"}
  <2>1. Finish(p) /\ row[k] = None
    BY <1>1, <1>2 DEF AfterDelete, ProcSound, Private, PutPcs
  <2>2. Touches(k) /\ WorksOn(p, k)
    BY <1>1, <1>2, <2>1, Ended DEF Touches, WorksOn, PutPcs
  <2>3. KeySound(k)'
    BY <1>1, <2>1, NoneIsFresh
       DEF KeySound, Unused, Inside, Saved, Shown, Said, Held
  <2>4. QED BY <1>1, <2>1, <2>2, <2>3, Ended, StepSound
<1>3. CASE pc[p] \in {"head", "remove"}
  <2>1. pc'[p] = "drop" /\ job' = job /\ Moves(p)
    BY <1>1, <1>3 DEF AfterDelete, Goto, TypeOK, Moves
  <2>2. k \in going
    BY <1>1, <1>3 DEF ProcSound, Leaving
  <2>3. Touches(k) /\ WorksOn(p, k)
    BY <1>1, <1>3, <2>1 DEF Touches, WorksOn
  <2>4. ProcSound(p)'
    BY <1>1, <2>1, <2>2 DEF ProcSound, Busy, Private, Listing, Loaded, Listed, Leaving, Judged, PutPcs
  <2>5. KeySound(k)'
    BY <1>1, <2>2, NoneIsFresh
       DEF KeySound, Unused, Inside, Saved, Shown, Said, Held
  <2>6. QED BY <2>1, <2>3, <2>4, <2>5, StepSound
<1>4. QED BY <1>2, <1>3

LEMMA DeleteHeadFailsSound ==
  ASSUME IInv, TypeOK', NEW p \in Procs, DeleteHeadFails(p)
  PROVE  IInv'
<1>0. PICK k \in Keys : k = job[p].key
  BY MyKey DEF DeleteHeadFails
<1>1. /\ KeySound(k) /\ ProcSound(p) /\ 0 \in Index /\ length[k] \in Index
      /\ pc[p] \in {"head", "undo_head"} /\ AfterDelete(p)
      /\ length' = length /\ objects' = objects /\ going' = going /\ row' = row
      /\ clean' <=> clean /\ ~Has(k, 0)
  BY <1>0, MyKey DEF DeleteHeadFails, Has, Head
<1>2. \A c \in Keys, i \in Index : Has(c, i)' <=> Has(c, i)
  BY <1>1 DEF Has
<1>3. ASSUME clean', NEW i \in Index, Has(k, i) PROVE FALSE
  <2>1. PICK q \in Procs : Puts(q, k)
    BY <1>1, <1>3 DEF KeySound, Held
  <2>2. q = p
    BY <1>0, <1>1, <2>1 DEF IInv, ProcSound, Private, Puts
  <2>3. pc[p] = "undo_head"
    BY <1>1, <2>1, <2>2 DEF Puts, PutPcs
  <2>4. Has(k, 0)
    BY <1>0, <1>1, <2>3 DEF ProcSound, Loaded, Index
  <2>5. QED BY <1>1, <1>3, <2>4
<1>4. clean' => clean /\ \A i \in Index : ~Has(k, i)'
  BY <1>1, <1>2, <1>3
<1>5. QED BY <1>0, <1>1, <1>2, <1>4, AfterDeleteSound

LEMMA DeleteRemoveSound ==
  ASSUME IInv, TypeOK', NEW p \in Procs, DeleteRemove(p)
  PROVE  IInv'
<1>0. PICK k \in Keys : k = job[p].key
  BY MyKey DEF DeleteRemove
<1>1. /\ TypeOK /\ KeySound(k) /\ ProcSound(p) /\ length[k] # None
      /\ pc[p] \in {"remove", "undo_remove"} /\ AfterDelete(p)
      /\ length' = length /\ going' = going /\ row' = row
  BY <1>0, MyKey DEF DeleteRemove
<1>2. /\ job[p].names = Whole(k)
      /\ Removed(job[p].names) \/ RemoveFailed(job[p].names)
  BY <1>0, <1>1 DEF ProcSound, Listed, DeleteRemove
<1>3. \A n \in job[p].names : n[1] = k
  BY <1>2 DEF Whole, Head, Parts
<1>4. /\ \A c \in Keys, i \in Index : c # k => (Has(c, i)' <=> Has(c, i))
      /\ \A i \in Index : Has(k, i)' => Has(k, i)
      /\ clean' => clean /\ \A i \in Index : Has(k, i)' => <<k, i>> \notin Whole(k)
  BY <1>2, <1>3, Removal
<1>5. \A i \in Index : Has(k, i) => <<k, i>> \in Whole(k)
  BY <1>1, WholeIs DEF KeySound, Inside
<1>6. clean' => clean /\ \A i \in Index : ~Has(k, i)'
  BY <1>4, <1>5
<1>7. QED BY <1>0, <1>1, <1>4, <1>6, AfterDeleteSound

LEMMA DropRowSound ==
  ASSUME IInv, TypeOK', NEW p \in Procs, DropRow(p)
  PROVE  IInv'
<1>0. PICK k \in Keys : k = job[p].key
  BY MyKey DEF DropRow
<1>1. /\ TypeOK /\ KeySound(k) /\ ProcSound(p) /\ length[k] # None
      /\ pc[p] = "drop" /\ 0 \in Index /\ Finish(p)
  BY <1>0, MyKey DEF DropRow
<1>2. /\ length' = length /\ objects' = objects /\ going' = going /\ clean' = clean
      /\ row'[k] = None /\ \A c \in Keys : c # k => row'[c] = row[c]
  BY <1>0, <1>1 DEF DropRow, TypeOK
<1>3. \A c \in Keys, i \in Index : Has(c, i)' <=> Has(c, i)
  BY <1>2 DEF Has
<1>4. ASSUME clean, NEW i \in Index, Has(k, i) PROVE FALSE
  <2>1. ~Has(k, 0)
    BY <1>0, <1>1, <1>4 DEF ProcSound, Leaving
  <2>2. PICK q \in Procs : Puts(q, k)
    BY <1>1, <1>4, <2>1 DEF KeySound, Held
  <2>3. q # p
    BY <1>1, <2>2 DEF Puts, PutPcs
  <2>4. QED BY <1>0, <1>1, <2>2, <2>3 DEF IInv, ProcSound, Private, Puts
<1>5. Touches(k) /\ WorksOn(p, k)
  BY <1>0, <1>1, <1>2, <1>3, Ended DEF Touches, WorksOn
<1>6. KeySound(k)'
  BY <1>1, <1>2, <1>3, <1>4, NoneIsFresh
     DEF KeySound, Unused, Inside, Saved, Shown, Said, Held
<1>7. QED BY <1>1, <1>5, <1>6, Ended, StepSound

\* A get reads: only the recorded status is ever changed by it.
LEMMA GetSound ==
  ASSUME IInv, TypeOK', NEW p \in Procs, Get(p)
  PROVE  IInv'
<1>0. PICK k \in Keys : k = job[p].key
  BY MyKey DEF Get, GetHead, GetPart, GetFails, Exists, SetIntegrity
<1>1. /\ TypeOK /\ KeySound(k) /\ ProcSound(p) /\ length[k] # None /\ 0 \in Index
      /\ pc[p] \in {"get_head", "get_part", "exists", "mark"}
  BY <1>0, MyKey DEF Get, GetHead, GetPart, GetFails, Exists, SetIntegrity
<1>2. length' = length /\ objects' = objects /\ going' = going /\ (clean' => clean)
  BY DEF Get, GetHead, GetPart, GetFails, Exists, SetIntegrity
<1>3. \A c \in Keys, i \in Index : Has(c, i)' <=> Has(c, i)
  BY <1>2 DEF Has
<1>4. CASE SetIntegrity(p)
  <2>1. Finish(p) /\ pc[p] = "mark"
    BY <1>4 DEF SetIntegrity
  <2>2. /\ row'[k] = IF row[k] = None THEN None ELSE job[p].seen
        /\ \A c \in Keys : c # k => row'[c] = row[c]
    BY <1>0, <1>1, <1>4 DEF SetIntegrity, TypeOK
  <2>3. row'[k] = None <=> row[k] = None
    BY <1>1, <2>1, <2>2, NoneIsFresh DEF ProcSound, Judged, Statuses
  <2>4. Touches(k) /\ WorksOn(p, k)
    BY <1>0, <1>1, <1>2, <1>3, <2>1, <2>2, Ended DEF Touches, WorksOn
  <2>5. \A q \in Procs : Puts(q, k) => Puts(q, k)'
    <3>1. ~Puts(p, k)
      BY <2>1 DEF Puts, PutPcs
    <3>2. QED BY <1>1, <2>1, <3>1, Ended
  <2>6. Said(k)'
    BY <1>0, <1>1, <1>2, <1>3, <2>1, <2>2, NoneIsFresh DEF ProcSound, Judged, Said
  <2>7. Unused(k)' /\ Inside(k)' /\ Saved(k)' /\ Shown(k)' /\ Held(k)'
    BY <1>1, <1>2, <1>3, <2>3, <2>5
       DEF KeySound, Unused, Inside, Saved, Shown, Held
  <2>8. QED BY <1>1, <2>1, <2>4, <2>6, <2>7, Ended, StepSound DEF KeySound
<1>5. ASSUME NEW s \in Statuses, s = "missing" => (clean' => ~Has(k, 0)),
             pc'[p] \in {"get_part", "exists", "mark"}, Moves(p), row' = row,
             job'[p].key = k, pc'[p] = "mark" => job'[p].seen = s,
             pc[p] # "mark"
      PROVE  IInv'
  <2>1. Touches(k) /\ WorksOn(p, k)
    BY <1>0, <1>1, <1>2, <1>3, <1>5 DEF Touches, WorksOn
  <2>2. Busy(p)' /\ Private(p)' /\ Listing(p)' /\ Loaded(p)' /\ Listed(p)' /\ Leaving(p)'
    BY <1>1, <1>2, <1>5 DEF Busy, Private, Listing, Loaded, Listed, Leaving, PutPcs
  <2>3. Judged(p)'
    BY <1>1, <1>3, <1>5 DEF Judged
  <2>4. \A q \in Procs : Puts(q, k) => Puts(q, k)'
    BY <1>1, <1>5 DEF Puts, Moves, PutPcs
  <2>5. KeySound(k)'
    BY <1>1, <1>2, <1>3, <1>5, <2>4
       DEF KeySound, Unused, Inside, Saved, Shown, Said, Held
  <2>6. QED BY <1>5, <2>1, <2>2, <2>3, <2>5, StepSound DEF ProcSound
<1>6. CASE GetHead(p) \/ GetPart(p)
  <2>1. /\ pc'[p] \in {"get_part", "mark"} /\ Moves(p) /\ row' = row /\ pc[p] # "mark"
        /\ \/ job'[p] = [job[p] EXCEPT !.seen = "verified"]
           \/ /\ pc'[p] # "mark"
              /\ job'[p] = job[p] \/ job'[p] = [job[p] EXCEPT !.next = @ + 1]
    BY <1>1, <1>6 DEF GetHead, GetPart, Goto, TypeOK, Moves
  <2>2. job'[p].key = k /\ (pc'[p] = "mark" => job'[p].seen = "verified")
    BY <1>0, <1>1, <2>1, JobTyped DEF Job
  <2>3. "verified" \in Statuses
    BY DEF Statuses
  <2>4. QED BY <1>5, <2>1, <2>2, <2>3
<1>7. CASE GetFails(p)
  <2>1. /\ pc'[p] = "exists" /\ Moves(p) /\ row' = row /\ job' = job /\ pc[p] # "mark"
        /\ "verified" \in Statuses
    BY <1>1, <1>7 DEF GetFails, Goto, TypeOK, Moves, Statuses
  <2>2. QED BY <1>0, <1>5, <2>1
<1>8. CASE Exists(p)
  <2>1. PICK s \in Statuses : /\ job'[p] = [job[p] EXCEPT !.seen = s]
                              /\ s = "missing" => (clean' => ~Has(k, 0))
    BY <1>0, <1>1, <1>8 DEF Exists, TypeOK, Statuses, Has, Head
  <2>2. pc'[p] = "mark" /\ Moves(p) /\ row' = row /\ pc[p] # "mark"
    BY <1>1, <1>8 DEF Exists, Goto, TypeOK, Moves
  <2>3. job'[p].key = k /\ job'[p].seen = s
    BY <1>0, <1>1, <2>1, JobTyped DEF Job
  <2>4. QED BY <1>5, <2>1, <2>2, <2>3
<1>9. QED BY <1>4, <1>6, <1>7, <1>8 DEF Get

LEMMA DieSound ==
  ASSUME IInv, TypeOK', NEW p \in Procs, Die(p)
  PROVE  IInv'
<1>0. PICK k \in Keys : k = job[p].key
  BY MyKey DEF Die
<1>1. /\ TypeOK /\ KeySound(k) /\ pc[p] # "idle" /\ Finish(p) /\ clean' = FALSE
      /\ length' = length /\ objects' = objects /\ going' = going /\ row' = row
  BY <1>0, MyKey DEF Die
<1>2. \A c \in Keys, i \in Index : Has(c, i)' <=> Has(c, i)
  BY <1>1 DEF Has
<1>3. Touches(k) /\ WorksOn(p, k)
  BY <1>0, <1>1, <1>2, Ended DEF Touches, WorksOn
<1>4. KeySound(k)'
  BY <1>1, <1>2 DEF KeySound, Unused, Inside, Saved, Shown, Said, Held
<1>5. QED BY <1>1, <1>3, <1>4, Ended, StepSound

(***************************************************************************)
(* The theorems                                                            *)
(***************************************************************************)
LEMMA InitSound == Init => IInv
<1> SUFFICES ASSUME Init PROVE IInv
  OBVIOUS
<1>1. TypeOK
  BY NoJobTyped DEF Init, TypeOK, Pcs
<1>2. ASSUME NEW k \in Keys PROVE KeySound(k)
  BY NoneIsFresh DEF Init, KeySound, Unused, Inside, Saved, Shown, Said, Held, Has
<1>3. ASSUME NEW p \in Procs PROVE ProcSound(p)
  BY DEF Init, ProcSound, Busy, Private, Listing, Loaded, Listed, Leaving, Judged, PutPcs
<1>4. QED BY <1>1, <1>2, <1>3 DEF IInv

LEMMA NextSound ==
  ASSUME IInv, [Next]_vars
  PROVE  IInv'
<1>0. TypeOK'
  BY StepTyped
<1>1. CASE UNCHANGED vars
  <2>1. /\ objects' = objects /\ length' = length /\ row' = row /\ going' = going
        /\ pc' = pc /\ job' = job /\ clean' = clean
    BY <1>1 DEF vars
  <2>2. \A c \in Keys, i \in Index : Has(c, i)' <=> Has(c, i)
    BY <2>1 DEF Has
  <2>3. ASSUME NEW k \in Keys PROVE KeySound(k)'
    <3>1. \A q \in Procs : Puts(q, k) => Puts(q, k)'
      BY <2>1 DEF Puts
    <3>2. 0 \in Index /\ KeySound(k)
      BY PartsNatural DEF Index, IInv
    <3>3. QED BY <2>1, <2>2, <3>1, <3>2
              DEF KeySound, Unused, Inside, Saved, Shown, Said, Held
  <2>4. ASSUME NEW p \in Procs PROVE ProcSound(p)'
    <3>1. Whole(job[p].key)' = Whole(job[p].key)
      BY <2>1 DEF Whole, Head, Parts
    <3>2. ProcSound(p)
      BY DEF IInv
    <3>3. Busy(p)' /\ Private(p)' /\ Listing(p)' /\ Listed(p)'
      BY <2>1, <3>1, <3>2 DEF ProcSound, Busy, Private, Listing, Listed
    <3>4. Loaded(p)' /\ Leaving(p)' /\ Judged(p)'
      BY <2>1, <3>2 DEF ProcSound, Loaded, Leaving, Judged, Has
    <3>5. QED BY <3>3, <3>4 DEF ProcSound
  <2>5. QED BY <1>0, <2>3, <2>4 DEF IInv
<1>2. ASSUME NEW p \in Procs, Put(p) PROVE IInv'
  BY <1>0, <1>2, UploadPartSound, PublishSound, PutFailsSound, RollbackSound,
     CommitSound, CommitFailsSound DEF Put
<1>3. ASSUME NEW p \in Procs, Delete(p) PROVE IInv'
  BY <1>0, <1>3, DeleteHeadSound, DeleteHeadFailsSound, DeleteRemoveSound, DropRowSound
     DEF Delete
<1>4. QED BY <1>0, <1>1, <1>2, <1>3, BeginPutSound, BeginReadSound, GetSound, DieSound DEF Next

\* Every reachable state is well typed and satisfies the invariant above.
LEMMA Invariance == Spec => []IInv
  BY InitSound, NextSound, PTL DEF Spec

\* Every reachable state is well typed, for any number of keys, parts and
\* requests.
THEOREM TypeCorrect == Spec => []TypeOK
<1>1. IInv => TypeOK
  BY DEF IInv
<1>2. QED BY <1>1, Invariance, PTL

\* storage_supabase.put uploads the logical key last and delete takes it away
\* with its parts, so no reader meets half a result: not under a row, nor
\* under a logical key that has none yet.
THEOREM ResultsWhole == Spec => []StoredWhole
<1>1. IInv => StoredWhole
  <2> SUFFICES ASSUME IInv, NEW k \in Keys
               PROVE  /\ row[k] # None /\ k \notin going => Whole(k) \subseteq objects
                      /\ clean => (Head(k) \in objects => Parts(k) \subseteq objects)
    BY DEF StoredWhole, SavedWhole, PublishedWhole
  <2>1. TypeOK /\ KeySound(k) /\ 0 \in Index /\ MaxParts \in Nat
    BY PartsNatural DEF IInv, Index
  <2>2. ASSUME \A i \in Index : i <= length[k] => Has(k, i), length[k] # None
        PROVE  Whole(k) \subseteq objects
    <3>1. length[k] \in Index
      BY <2>1, <2>2, LengthInIndex
    <3>2. 0 <= length[k] /\ \A i \in 1 .. length[k] : i \in Index /\ i <= length[k]
      BY <2>1, <3>1 DEF Index
    <3>3. Head(k) \in objects /\ \A i \in 1 .. length[k] : <<k, i>> \in objects
      BY <2>1, <2>2, <3>2 DEF Has, Head
    <3>4. QED BY <3>3 DEF Whole, Parts
  <2>3. ASSUME row[k] # None, k \notin going PROVE Whole(k) \subseteq objects
    BY <2>1, <2>2, <2>3 DEF KeySound, Saved, Unused
  <2>4. ASSUME clean, Head(k) \in objects PROVE Whole(k) \subseteq objects
    BY <2>1, <2>2, <2>4 DEF KeySound, Shown, Unused, Has, Head
  <2>5. QED BY <2>3, <2>4 DEF Whole
<1>2. QED BY <1>1, Invariance, PTL

\* Unless a failed call had an effect or a clean-up call failed, an idle store
\* holds no object without a metadata row.
THEOREM NothingStrays == Spec => []NoStrays
<1>1. IInv => NoStrays
  <2> SUFFICES ASSUME IInv, clean, Quiet, NEW n \in objects
               PROVE  row[n[1]] # None
    BY DEF NoStrays
  <2>1. PICK k \in Keys, i \in Index : n = <<k, i>>
    BY DEF IInv, TypeOK, Names, Index
  <2>2. \A p \in Procs : ~Puts(p, k)
    BY DEF Quiet, Puts, PutPcs
  <2>3. row[k] # None
    BY <2>1, <2>2 DEF IInv, KeySound, Held, Has
  <2>4. QED BY <2>1, <2>3
<1>2. QED BY <1>1, Invariance, PTL

\* A failed download alone never makes a result "missing" while its logical
\* object is there.
THEOREM MissingSaidTruly == Spec => []MissingIsAbsent
<1>1. IInv => MissingIsAbsent
  BY PartsNatural DEF IInv, KeySound, Said, MissingIsAbsent, Has, Head
<1>2. QED BY <1>1, Invariance, PTL

=============================================================================
