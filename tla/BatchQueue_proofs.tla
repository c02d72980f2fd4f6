------------------------- MODULE BatchQueue_proofs -------------------------
(***************************************************************************)
(* What every step of the batch queue keeps, for any files, limits and     *)
(* bounds: the table is fresh, results are what is stored, and a batch     *)
(* stays within its limit.                                                 *)
(***************************************************************************)
EXTENDS BatchQueue, FiniteSetTheorems, SequenceTheorems, TLAPS

\* Items keep the order in which they came, and none is in the queue twice.
Sorted == \A j, k \in DOMAIN queue : j < k => queue[j] < queue[k]

\* One file is compressed at a time: the one whose answer is awaited.
Compressing ==
  \A i \in DOMAIN items :
    items[i].status = "Compressing" <=> awaited # None /\ awaited.item = i

\* A run is of files of the queue, which nothing removes before it ends.
RunOfQueue ==
  /\ ~running => pending = {}
  /\ running => /\ awaited.item \in ToSet(queue) /\ pending \subseteq ToSet(queue)
                /\ awaited.batch = batch /\ awaited.total = total
  /\ \A i \in pending : items[i].status \in {"Queued", "Error"}

\* What waits to be sent has not been sent before.
Fresh(i) == i \in pending \/ items[i].status = "Queued"
SentOnce ==
  /\ \A r \in rows \cup serving :
       r.batch <= batch /\ r.item \in DOMAIN items /\ ~Fresh(r.item)
  /\ \A r, s \in rows : r.item = s.item => r = s
  /\ \A p, q \in serving : p.item = q.item => p = q
  /\ \A p \in serving, r \in rows : p.item # r.item

\* An answer is to the request that is awaited, and tells what became of it.
AnswerTrue ==
  /\ awaited = None => reply = None
  /\ awaited # None =>
       /\ reply = None <=> awaited \in serving
       /\ reply = "ok" => [item |-> awaited.item, batch |-> awaited.batch] \in rows
       /\ \A p \in serving : p.item = awaited.item => p = awaited

\* The server works on one more file for each loss.
LateWork == Cardinality(serving \ {awaited}) <= lost

\* Items that are stored, or may be yet, without the page hearing of it: those
\* that are not done, but for the one whose answer may still say so.
StraysIn(its, sent) == {r.item : r \in {s \in sent : its[s.item].status # "Done"}}
Late ==
  {s \in rows \cup serving :
     awaited # None /\ s.item = awaited.item => reply = "error"}

\* There is a loss or a wrong error for each of them, and what is done has been
\* a result of its batch.
FewUnheard ==
  /\ Cardinality(StraysIn(items, Late)) <= lost + slips
  /\ \A p \in serving : items[p.item].status # "Done"
  /\ running => \A r \in rows :
       r.batch = batch /\ items[r.item].status = "Done" => r \in ToSet(results)
  /\ ~running /\ panel # None => \A r \in rows :
       r.batch = panel.batch /\ items[r.item].status = "Done" =>
         r \in ToSet(panel.results)

ResultsStored ==
  /\ ToSet(results) \subseteq rows
  /\ {r.item : r \in ToSet(results)} =
       {i \in ToSet(queue) : items[i].status = "Done"}
  /\ panel # None => results # <<>>

\* Each batch is of files that were in the queue together when it started, and
\* their bytes are the total that its requests carry.
StartedWith(b, started) ==
  /\ \A r \in rows :
       r.batch = b => r.item \in started /\ Bytes(started) <= BatchMax
  /\ \A p \in serving :
       p.batch = b => p.item \in started /\ p.total = Bytes(started)
  /\ running /\ b = batch =>
       /\ awaited.item \in started /\ pending \subseteq started
       /\ total = Bytes(started)
TotalsTrue ==
  \A b \in 1 .. MaxRuns : \E started \in SUBSET DOMAIN items :
    StartedWith(b, started)

IInv ==
  /\ TypeOK /\ IsFiniteSet(serving) /\ Sorted /\ Compressing /\ RunOfQueue
  /\ SentOnce /\ AnswerTrue /\ LateWork /\ FewUnheard /\ ResultsStored
  /\ TotalsTrue /\ RowsFresh

-----------------------------------------------------------------------------

(***************************************************************************)
(* What drawing the table and adding up bytes do                           *)
(***************************************************************************)

\* Drawing changes no file, and no status but that of a file it rejects.
LEMMA DrawnKeeps ==
  ASSUME NEW its \in Seq(Item), NEW q
  PROVE  /\ Drawn(its, q) \in Seq(Item) /\ Len(Drawn(its, q)) = Len(its)
         /\ DOMAIN Drawn(its, q) = DOMAIN its
         /\ \A i \in DOMAIN its :
              /\ Drawn(its, q)[i].file = its[i].file
              /\ Drawn(its, q)[i].status \in Statuses
              /\ \/ Drawn(its, q)[i].status = its[i].status
                 \/ /\ its[i].status = "Queued"
                    /\ Drawn(its, q)[i].status = "Error"
<1> DEFINE d == Drawn(its, q)
<1>1. DOMAIN its = 1 .. Len(its) /\ Len(its) \in Nat
  OBVIOUS
<1>2. \A i \in DOMAIN its : its[i] \in Item
  OBVIOUS
<1>3. d = [i \in DOMAIN its |-> d[i]] /\ DOMAIN d = DOMAIN its
  BY DEF Drawn
<1>4. ASSUME NEW i \in DOMAIN its
      PROVE  /\ d[i] \in Item /\ d[i].file = its[i].file
             /\ \/ d[i].status = its[i].status
                \/ its[i].status = "Queued" /\ d[i].status = "Error"
  <2>1. its[i] \in Item
    BY <1>2
  <2>2. \/ d[i] = its[i]
        \/ its[i].status = "Queued" /\ d[i] = [its[i] EXCEPT !.status = "Error"]
    BY DEF Drawn
  <2>3. CASE d[i] = its[i]
    BY <2>1, <2>3
  <2>4. CASE /\ its[i].status = "Queued"
             /\ d[i] = [its[i] EXCEPT !.status = "Error"]
    BY <2>1, <2>4 DEF Item, Statuses
  <2> QED
    BY <2>2, <2>3, <2>4
<1> HIDE DEF d
<1>5. d \in [1 .. Len(its) -> Item]
  BY <1>1, <1>3, <1>4
<1>6. d \in Seq(Item) /\ Len(d) = Len(its)
  BY <1>1, <1>5
<1> QED
  BY <1>3, <1>4, <1>6 DEF d, Item

\* The bytes of some items are a number, which depends on their files only and
\* is no smaller for more items.
LEMMA BytesFinite ==
  ASSUME TypeOK, NEW W \in SUBSET DOMAIN items
  PROVE  IsFiniteSet(UNION {{i} \X (1 .. Size[items[i].file]) : i \in W})
<1> DEFINE part(i) == {i} \X (1 .. Size[items[i].file])
           parts == {part(i) : i \in W}
<1>1. IsFiniteSet(W)
  BY FS_Subset, FS_Interval DEF TypeOK
<1>2. ASSUME NEW i \in W PROVE IsFiniteSet(part(i))
  <2>1. items[i] \in Item
    BY DEF TypeOK
  <2>2. Size[items[i].file] \in Int /\ 1 \in Int
    BY <2>1, SizesNatural DEF Item
  <2>3. IsFiniteSet({i}) /\ IsFiniteSet(1 .. Size[items[i].file])
    BY <2>2, FS_Singleton, FS_Interval
  <2> QED
    BY <2>3, FS_Product
<1>3. IsFiniteSet(parts)
  <2>1. [i \in W |-> part(i)] \in Surjection(W, parts)
    BY DEF Surjection
  <2> HIDE DEF parts
  <2> QED
    BY <1>1, <2>1, FS_Surjection
<1> QED
  BY <1>2, <1>3, FS_UNION

LEMMA BytesNat ==
  ASSUME TypeOK, NEW W \in SUBSET DOMAIN items
  PROVE  Bytes(W) \in Nat
BY BytesFinite, FS_CardinalityType DEF Bytes

LEMMA BytesMonotone ==
  ASSUME TypeOK, NEW W \in SUBSET DOMAIN items, NEW V \in SUBSET W
  PROVE  Bytes(V) <= Bytes(W)
<1> DEFINE all(U) == UNION {{i} \X (1 .. Size[items[i].file]) : i \in U}
<1>1. all(V) \in SUBSET all(W)
  OBVIOUS
<1>2. IsFiniteSet(all(W))
  BY BytesFinite
<1> HIDE DEF all
<1>3. Cardinality(all(V)) <= Cardinality(all(W))
  BY <1>1, <1>2, FS_Subset
<1> QED
  BY <1>3 DEF Bytes, all

LEMMA BytesSame ==
  ASSUME NEW W, \A i \in W : items'[i].file = items[i].file
  PROVE  Bytes(W)' = Bytes(W)
<1>1. {{i} \X (1 .. Size[items[i].file]) : i \in W}' =
      {{i} \X (1 .. Size[items[i].file]) : i \in W}
  OBVIOUS
<1> QED
  BY <1>1 DEF Bytes

\* What the start of a batch is said to hold is the same after a step that
\* keeps the files, the rows and the requests of that batch, and its run.
LEMMA StartKept ==
  ASSUME NEW b, NEW W \in SUBSET DOMAIN items, StartedWith(b, W),
         \A i \in W : items'[i].file = items[i].file,
         \A r \in rows' : r.batch = b => r \in rows,
         \A p \in serving' : p.batch = b => p \in serving,
         running' /\ b = batch' =>
           /\ running /\ b = batch /\ total' = total
           /\ awaited'.item \in W /\ pending' \subseteq W
  PROVE  StartedWith(b, W)'
<1>1. Bytes(W)' = Bytes(W)
  BY BytesSame
<1> QED
  BY <1>1 DEF StartedWith

\* A table drawn anew is fresh.
LEMMA DrawnFresh ==
  ASSUME NEW its, NEW q, NEW run, Render(its, q, run), running' = run
  PROVE  RowsFresh'
BY DEF Render, RowsFresh, Queued

\* There are no more items that the page will not hear of than losses and
\* wrong errors, nor rows that are of them.
LEMMA StraysFinite ==
  ASSUME IInv
  PROVE  /\ IsFiniteSet(StraysIn(items, Late)) /\ lost + slips \in Nat
         /\ Cardinality(StraysIn(items, Late)) <= lost + slips
         /\ Cardinality(StraysIn(items, Late)) \in Nat
<1>1. \A r \in rows \cup serving : r.item \in DOMAIN items
  BY DEF IInv, SentOnce
<1>2. StraysIn(items, Late) \in SUBSET DOMAIN items
  BY <1>1 DEF StraysIn, Late
<1>3. IsFiniteSet(DOMAIN items)
  <2>1. items \in Seq(Item)
    BY DEF IInv, TypeOK
  <2>2. DOMAIN items = 1 .. Len(items) /\ Len(items) \in Nat
    BY <2>1
  <2> QED
    BY <2>2, FS_Interval
<1>4. IsFiniteSet(StraysIn(items, Late))
  BY <1>2, <1>3, FS_Subset
<1>5. lost + slips \in Nat
  BY BoundsNatural DEF IInv, TypeOK
<1> QED
  BY <1>4, <1>5, FS_CardinalityType DEF IInv, FewUnheard

LEMMA StraysFew ==
  ASSUME IInv, NEW S \in SUBSET StraysIn(items, Late)
  PROVE  Cardinality(S) <= lost + slips /\ Cardinality(S) \in Nat
<1>1. /\ IsFiniteSet(S) /\ Cardinality(S) <= Cardinality(StraysIn(items, Late))
  BY StraysFinite, FS_Subset
<1> QED
  BY <1>1, StraysFinite, FS_CardinalityType

LEMMA OneMoreStray ==
  ASSUME IInv, NEW i, NEW S \in SUBSET (StraysIn(items, Late) \cup {i})
  PROVE  Cardinality(S) <= lost + slips + 1 /\ Cardinality(S) \in Nat
<1> DEFINE strays == StraysIn(items, Late)
<1>1. /\ IsFiniteSet(strays \cup {i})
      /\ \/ Cardinality(strays \cup {i}) = Cardinality(strays) + 1
         \/ Cardinality(strays \cup {i}) = Cardinality(strays)
  BY StraysFinite, FS_AddElement
<1>2. /\ IsFiniteSet(S) /\ Cardinality(S) <= Cardinality(strays \cup {i})
      /\ Cardinality(S) \in Nat
  BY <1>1, FS_Subset, FS_CardinalityType
<1> QED
  BY <1>1, <1>2, StraysFinite

LEMMA FewRows ==
  ASSUME IInv, NEW R \in SUBSET rows, \A r \in R : r.item \in StraysIn(items, Late)
  PROVE  Cardinality(R) <= lost + slips
<1> DEFINE strays == StraysIn(items, Late)
           f == [r \in R |-> r.item]
<1>1. f \in Injection(R, strays)
  BY DEF Injection, IsInjective, IInv, SentOnce
<1>2. IsFiniteSet(R) /\ Cardinality(R) <= Cardinality(strays)
  <2> HIDE DEF f
  <2> QED
    BY <1>1, StraysFinite, FS_Injection
<1> QED
  BY <1>2, StraysFinite, FS_CardinalityType

(***************************************************************************)
(* The handlers that add to the queue or take from it                      *)
(***************************************************************************)

LEMMA EditKeeps ==
  ASSUME IInv, NEW its \in Seq(Item), NEW q \in Seq(DOMAIN its),
         Len(its) <= MaxItems, DOMAIN items \subseteq DOMAIN its,
         \A i \in DOMAIN items : its[i] = items[i],
         \A i \in DOMAIN its \ DOMAIN items : its[i].status = "Queued",
         \A j, k \in DOMAIN q : j < k => q[j] < q[k],
         running => ToSet(queue) \subseteq ToSet(q) /\ results' = results,
         \/ results' = results /\ panel' = panel
         \/ results' = <<>> /\ panel' = None,
         {r.item : r \in ToSet(results')} =
           {i \in ToSet(q) : its[i].status = "Done"},
         Render(its, q, running),
         UNCHANGED <<cfg, running, batch, pending, total, awaited, server>>
  PROVE  IInv'
<1> USE DEF server
<1>1. /\ items' = Drawn(its, q) /\ queue' = q
      /\ DOMAIN items' = DOMAIN its
      /\ \A i \in DOMAIN its :
           /\ items'[i].file = its[i].file
           /\ \/ items'[i].status = its[i].status
              \/ its[i].status = "Queued" /\ items'[i].status = "Error"
  BY DrawnKeeps DEF Render
<1>2. TypeOK'
  <2>1. items' \in Seq(Item) /\ Len(items') <= MaxItems
    BY <1>1, DrawnKeeps
  <2>2. DOMAIN its \subseteq Ids
    BY BoundsNatural DEF Ids
  <2>3. shown' \in [rows : Seq(DOMAIN items'), open : SUBSET Ids, canRun : BOOLEAN]
    <3>1. shown' = [rows |-> q, open |-> Queued(Drawn(its, q), q),
                    canRun |-> ~running /\ Queued(Drawn(its, q), q) # {}]
      BY DEF Render
    <3>2. Queued(Drawn(its, q), q) \subseteq Ids
      BY <2>2 DEF Queued, ToSet
    <3> QED
      BY <1>1, <3>1, <3>2
  <2>4. results' \in Seq(Result) /\ panel' \in Panel \cup {None}
    <3>1. results \in Seq(Result) /\ panel \in Panel \cup {None}
      BY DEF IInv, TypeOK
    <3>2. <<>> \in Seq(Result)
      OBVIOUS
    <3> QED
      BY <3>1, <3>2
  <2>5. queue' \in Seq(DOMAIN items') /\ pending' \subseteq DOMAIN items'
    BY <1>1 DEF IInv, TypeOK
  <2> QED
    BY <2>1, <2>3, <2>4, <2>5 DEF IInv, TypeOK
<1>3. IsFiniteSet(serving') /\ Sorted' /\ RowsFresh' /\ LateWork'
  BY <1>1, DrawnFresh DEF IInv, Sorted, LateWork
<1>4. Compressing'
  <2>1. \A i \in DOMAIN its \ DOMAIN items : awaited = None \/ awaited.item # i
    BY DEF IInv, Compressing, RunOfQueue, TypeOK, ToSet
  <2> QED
    BY <1>1, <2>1 DEF IInv, Compressing
<1>5. RunOfQueue'
  <2>1. \A i \in pending : i \in DOMAIN items /\ items[i].status \in {"Queued", "Error"}
    BY DEF IInv, TypeOK, RunOfQueue
  <2> QED
    BY <1>1, <2>1 DEF IInv, RunOfQueue
<1>6. SentOnce'
  <2>1. \A r \in rows \cup serving :
          r.batch <= batch /\ r.item \in DOMAIN items /\ ~Fresh(r.item)
    BY DEF IInv, SentOnce
  <2>2. ASSUME NEW r \in rows \cup serving
        PROVE  r.batch <= batch /\ r.item \in DOMAIN items' /\ ~Fresh(r.item)'
    BY <1>1, <2>1 DEF Fresh
  <2> QED
    BY <2>2 DEF IInv, SentOnce
<1>7. AnswerTrue' 
  BY DEF IInv, AnswerTrue
<1>8. FewUnheard'
  <2>1. \A r \in rows \cup serving : r.item \in DOMAIN items
    BY DEF IInv, SentOnce
  <2>2. \A i \in DOMAIN items :
          items'[i].status = "Done" <=> items[i].status = "Done"
    BY <1>1
  <2>3. StraysIn(items, Late)' = StraysIn(items, Late)
    BY <2>1, <2>2 DEF StraysIn, Late
  <2> QED
    BY <2>1, <2>2, <2>3 DEF IInv, FewUnheard
<1>9. ResultsStored'
  <2>1. {i \in ToSet(q) : its[i].status = "Done"} =
        {i \in ToSet(queue') : items'[i].status = "Done"}
    BY <1>1 DEF ToSet
  <2>2. ToSet(<<>>) = {}
    BY DEF ToSet
  <2> QED
    BY <2>1, <2>2 DEF IInv, ResultsStored
<1>10. TotalsTrue'
  <2> SUFFICES ASSUME NEW b \in 1 .. MaxRuns
               PROVE  \E W \in SUBSET DOMAIN items' : StartedWith(b, W)'
    BY DEF TotalsTrue
  <2>1. PICK W \in SUBSET DOMAIN items : StartedWith(b, W)
    BY DEF IInv, TotalsTrue
  <2>2. running /\ b = batch => awaited.item \in W /\ pending \subseteq W
    BY <2>1 DEF StartedWith
  <2>3. StartedWith(b, W)'
    <3>1. \A i \in W : items'[i].file = items[i].file
      BY <1>1
    <3>2. /\ \A r \in rows' : r.batch = b => r \in rows
          /\ \A p \in serving' : p.batch = b => p \in serving
      OBVIOUS
    <3>3. running' /\ b = batch' =>
            /\ running /\ b = batch /\ total' = total
            /\ awaited'.item \in W /\ pending' \subseteq W
      BY <2>2
    <3> QED
      BY ZenonT(60), <2>1, <3>1, <3>2, <3>3, StartKept
  <2> QED
    BY <1>1, <2>3
<1> QED
  BY <1>2, <1>3, <1>4, <1>5, <1>6, <1>7, <1>8, <1>9, <1>10 DEF IInv

LEMMA AddKeeps ==
  ASSUME IInv, NEW f \in Files, AddFile(f)
  PROVE  IInv'
<1> DEFINE n == Len(items)
           new == [file |-> f, status |-> "Queued"]
           its == Append(items, new)
           q == Append(queue, n + 1)
<1>1. /\ items \in Seq(Item) /\ n \in Nat /\ n + 1 <= MaxItems
      /\ DOMAIN items = 1 .. n
      /\ queue \in Seq(1 .. n)
  BY BoundsNatural DEF IInv, TypeOK, AddFile
<1>2. /\ its \in Seq(Item) /\ Len(its) = n + 1 /\ DOMAIN its = 1 .. (n + 1)
      /\ \A i \in 1 .. n : its[i] = items[i]
      /\ its[n + 1] = new
  <2>1. new \in Item
    BY DEF Item, Statuses
  <2> QED
    BY <1>1, <2>1
<1>3. /\ q \in Seq(1 .. (n + 1))
      /\ Len(queue) \in Nat /\ Len(q) = Len(queue) + 1
      /\ q[Len(q)] = n + 1
      /\ \A j \in 1 .. Len(queue) : q[j] = queue[j] /\ q[j] \in 1 .. n
      /\ DOMAIN queue = 1 .. Len(queue) /\ DOMAIN q = 1 .. (Len(queue) + 1)
  BY <1>1
<1>4. \A j, k \in DOMAIN q : j < k => q[j] < q[k]
  BY <1>1, <1>3 DEF IInv, Sorted
<1>5. ToSet(q) = ToSet(queue) \cup {n + 1}
  <2> HIDE DEF q, its
  <2>1. /\ DOMAIN q = DOMAIN queue \cup {Len(queue) + 1}
        /\ q[Len(queue) + 1] = n + 1
        /\ \A j \in DOMAIN queue : q[j] = queue[j]
    BY <1>3
  <2> QED
    BY <2>1 DEF ToSet
<1>6. Render(its, q, running)
  BY DEF AddFile
<1>7. {r.item : r \in ToSet(results)} = {i \in ToSet(q) : its[i].status = "Done"}
  <2>1. \A i \in ToSet(queue) : i \in 1 .. n
    BY <1>1 DEF ToSet
  <2>2. its[n + 1].status = "Queued"
    BY <1>2
  <2> QED
    BY <1>2, <1>5, <2>1, <2>2 DEF IInv, ResultsStored
<1>8. \A i \in DOMAIN its \ DOMAIN items : its[i].status = "Queued"
  BY <1>1, <1>2
<1>9. /\ DOMAIN items \subseteq DOMAIN its
      /\ \A i \in DOMAIN items : its[i] = items[i]
      /\ Len(its) <= MaxItems /\ q \in Seq(DOMAIN its)
  BY <1>1, <1>2, <1>3
<1>10. UNCHANGED <<cfg, results, running, batch, pending, total, awaited,
                   panel, server>>
  BY DEF AddFile
<1> HIDE DEF its, q
<1> QED
  BY <1>2, <1>4, <1>5, <1>6, <1>7, <1>8, <1>9, <1>10, EditKeeps

LEMMA RejectKeeps ==
  ASSUME IInv, NEW f \in Files, RejectFile(f)
  PROVE  IInv'
<1>1. /\ items \in Seq(Item) /\ Len(items) <= MaxItems
      /\ queue \in Seq(DOMAIN items)
      /\ {r.item : r \in ToSet(results)} =
           {i \in ToSet(queue) : items[i].status = "Done"}
      /\ \A j, k \in DOMAIN queue : j < k => queue[j] < queue[k]
  BY DEF IInv, TypeOK, ResultsStored, Sorted
<1> QED
  BY <1>1, EditKeeps DEF RejectFile

LEMMA ClearKeeps ==
  ASSUME IInv, Clear
  PROVE  IInv'
<1>1. /\ items \in Seq(Item) /\ Len(items) <= MaxItems
      /\ <<>> \in Seq(DOMAIN items)
      /\ ToSet(<<>>) = {} /\ DOMAIN <<>> = {}
  BY DEF IInv, TypeOK, ToSet
<1>2. {r.item : r \in ToSet(results')} =
        {i \in ToSet(<<>>) : items[i].status = "Done"}
  BY <1>1 DEF Clear
<1> QED
  BY <1>1, <1>2, EditKeeps DEF Clear

\* Taking a row from the table keeps the order of the others.
LEMMA RemoveAtIs ==
  ASSUME NEW S, NEW q \in Seq(S), NEW k \in 1 .. Len(q),
         NEW r, r = RemoveAt(q, k)
  PROVE  /\ r \in Seq(S) /\ Len(r) = Len(q) - 1
         /\ \A j \in 1 .. Len(r) : /\ j < k => r[j] = q[j]
                                   /\ ~(j < k) => r[j] = q[j + 1]
<1> DEFINE low == SubSeq(q, 1, k - 1)
           high == SubSeq(q, k + 1, Len(q))
<1>1. k \in 1 .. Len(q) /\ Len(q) \in Nat
  OBVIOUS
<1>2. /\ low \in Seq(S) /\ Len(low) = k - 1
      /\ \A j \in 1 .. (k - 1) : low[j] = q[j]
  BY <1>1
<1>3. /\ high \in Seq(S) /\ Len(high) = Len(q) - k
      /\ \A j \in 1 .. (Len(q) - k) : high[j] = q[k + j]
  BY <1>1
<1> HIDE DEF low, high
<1>4. /\ low \o high \in Seq(S) /\ Len(low \o high) = Len(q) - 1
      /\ \A j \in 1 .. (Len(q) - 1) :
           (low \o high)[j] = IF j < k THEN low[j] ELSE high[j - (k - 1)]
  <2>1. /\ low \o high \in Seq(S) /\ Len(low \o high) = Len(low) + Len(high)
        /\ \A j \in 1 .. Len(low) + Len(high) : (low \o high)[j] =
             IF j <= Len(low) THEN low[j] ELSE high[j - Len(low)]
    BY <1>2, <1>3, ConcatProperties
  <2>2. Len(low) + Len(high) = Len(q) - 1
    BY <1>1, <1>2, <1>3
  <2>3. ASSUME NEW j \in 1 .. (Len(q) - 1)
        PROVE  (low \o high)[j] = IF j < k THEN low[j] ELSE high[j - (k - 1)]
    <3>1. j <= k - 1 <=> j < k
      BY <1>1, <2>3
    <3> QED
      BY <1>2, <2>1, <2>2, <3>1
  <2> QED
    BY <2>1, <2>2, <2>3
<1>5. \A j \in 1 .. (Len(q) - 1) :
        (low \o high)[j] = IF j < k THEN q[j] ELSE q[j + 1]
  <2> SUFFICES ASSUME NEW j \in 1 .. (Len(q) - 1)
               PROVE  (low \o high)[j] = IF j < k THEN q[j] ELSE q[j + 1]
    OBVIOUS
  <2>1. CASE j < k
    BY <1>1, <1>2, <1>4, <2>1
  <2>2. CASE ~(j < k)
    <3>1. j - (k - 1) \in 1 .. (Len(q) - k) /\ k + (j - (k - 1)) = j + 1
      BY <1>1, <2>2
    <3> QED
      BY <1>3, <1>4, <2>2, <3>1
  <2> QED
    BY <2>1, <2>2
<1> QED
  BY <1>4, <1>5 DEF RemoveAt, low, high

LEMMA RemoveKeeps ==
  ASSUME IInv, NEW k \in Ids, RemoveFile(k)
  PROVE  IInv'
<1> DEFINE q == RemoveAt(queue, k)
<1>1. /\ items \in Seq(Item) /\ Len(items) <= MaxItems
      /\ queue \in Seq(DOMAIN items) /\ DOMAIN items = 1 .. Len(items)
      /\ DOMAIN queue = 1 .. Len(queue) /\ Len(queue) \in Nat /\ k \in Nat
      /\ k \in DOMAIN queue /\ items[queue[k]].status = "Queued"
  BY SMTT(30) DEF IInv, TypeOK, RemoveFile, RowsFresh, Ids
<1>2. /\ q \in Seq(DOMAIN items) /\ Len(q) = Len(queue) - 1
      /\ \A j \in 1 .. Len(q) : /\ j < k => q[j] = queue[j]
                                /\ ~(j < k) => q[j] = queue[j + 1]
      /\ DOMAIN q = 1 .. Len(q) /\ Len(q) \in Nat /\ k \in 1 .. Len(queue)
  <2>1. /\ queue \in Seq(DOMAIN items) /\ k \in 1 .. Len(queue)
        /\ q = RemoveAt(queue, k)
    BY <1>1
  <2> HIDE DEF q, IInv, RemoveFile
  <2>2. /\ q \in Seq(DOMAIN items) /\ Len(q) = Len(queue) - 1
        /\ \A j \in 1 .. Len(q) : /\ j < k => q[j] = queue[j]
                                  /\ ~(j < k) => q[j] = queue[j + 1]
    BY <2>1, RemoveAtIs
  <2>3. DOMAIN q = 1 .. Len(q) /\ Len(q) \in Nat
    BY <2>2
  <2>4. k \in 1 .. Len(queue)
    BY <1>1
  <2> QED
    BY <2>2, <2>3, <2>4
<1>n. /\ Len(queue) \in Nat /\ k \in 1 .. Len(queue)
      /\ Len(q) = Len(queue) - 1 /\ DOMAIN q = 1 .. Len(q)
  BY <1>1, <1>2
<1> HIDE DEF q
<1>3. /\ \A j, i \in 1 .. Len(queue) : j < i => queue[j] < queue[i]
      /\ \A j \in 1 .. Len(queue) : queue[j] \in Nat
  <2>1. Sorted
    BY DEF IInv
  <2>2. \A j \in 1 .. Len(queue) : queue[j] \in 1 .. Len(items)
    <3>1. queue \in Seq(1 .. Len(items)) /\ Len(items) \in Nat
      BY <1>1
    <3> QED
      BY <3>1
  <2>3. DOMAIN queue = 1 .. Len(queue)
    BY <1>1
  <2>4. \A j, i \in 1 .. Len(queue) : j < i => queue[j] < queue[i]
    BY <2>1, <2>3 DEF Sorted
  <2>5. \A j \in 1 .. Len(items) : j \in Nat
    OBVIOUS
  <2> QED
    BY <2>2, <2>4, <2>5
<1>4. ASSUME NEW j \in DOMAIN q, NEW i \in DOMAIN q, j < i
      PROVE  q[j] < q[i]
  <2>1. /\ j \in 1 .. Len(q) /\ i \in 1 .. Len(q)
        /\ j \in 1 .. Len(queue) /\ j + 1 \in 1 .. Len(queue)
        /\ i \in 1 .. Len(queue) /\ i + 1 \in 1 .. Len(queue)
    BY <1>n
  <2>2. /\ j < k => q[j] = queue[j]
        /\ ~(j < k) => q[j] = queue[j + 1]
        /\ i < k => q[i] = queue[i]
        /\ ~(i < k) => q[i] = queue[i + 1]
    BY <1>2, <2>1
  <2>3. j + 1 < i + 1 /\ j < i + 1 /\ (i < k => j < k)
    BY <1>4, <1>n, <2>1
  <2> QED
    BY <1>3, <1>4, <2>1, <2>2, <2>3
<1>5. ToSet(q) = ToSet(queue) \ {queue[k]}
  <2>1. ASSUME NEW x \in ToSet(q) PROVE x \in ToSet(queue) \ {queue[k]}
    <3>1. PICK j \in 1 .. Len(q) : x = q[j]
      BY <1>2, <2>1 DEF ToSet
    <3>2. /\ j \in DOMAIN queue /\ j + 1 \in DOMAIN queue
          /\ j \in 1 .. Len(queue) /\ j + 1 \in 1 .. Len(queue)
      BY <1>1, <1>n
    <3>3. CASE j < k
      <4>1. queue[j] < queue[k] /\ x = queue[j] /\ queue[j] \in Nat /\ queue[k] \in Nat
        BY <1>1, <1>2, <1>3, <3>1, <3>2, <3>3
      <4> QED
        BY <3>2, <4>1 DEF ToSet
    <3>4. CASE ~(j < k)
      <4>1. /\ queue[k] < queue[j + 1] /\ x = queue[j + 1]
            /\ queue[j + 1] \in Nat /\ queue[k] \in Nat
        BY <1>1, <1>2, <1>3, <3>1, <3>2, <3>4
      <4> QED
        BY <3>2, <4>1 DEF ToSet
    <3> QED
      BY <3>3, <3>4
  <2>2. ASSUME NEW x \in ToSet(queue), x # queue[k] PROVE x \in ToSet(q)
    <3>1. PICK j \in 1 .. Len(queue) : x = queue[j]
      BY <1>1 DEF ToSet
    <3>2. CASE j < k
      <4>1. j \in DOMAIN q /\ q[j] = x
        BY SMTT(40), <1>1, <1>2, <3>1, <3>2
      <4> QED
        BY <4>1 DEF ToSet
    <3>3. CASE ~(j < k)
      <4>1. j - 1 \in 1 .. Len(q) /\ ~(j - 1 < k) /\ (j - 1) + 1 = j
        BY SMTT(40), <1>1, <1>2, <2>2, <3>1, <3>3
      <4>2. j - 1 \in DOMAIN q /\ q[j - 1] = x
        BY <1>2, <3>1, <4>1
      <4> QED
        BY <4>2 DEF ToSet
    <3> QED
      BY <3>2, <3>3
  <2> QED
    BY <2>1, <2>2
<1>6. {r.item : r \in ToSet(results)} = {i \in ToSet(q) : items[i].status = "Done"}
  BY <1>1, <1>5 DEF IInv, ResultsStored
<1>7. Render(items, q, running) /\ ~running
  BY DEF RemoveFile, q
<1>8. UNCHANGED <<cfg, results, running, batch, pending, total, awaited,
                  panel, server>>
  BY DEF RemoveFile
<1> QED
  BY <1>1, <1>2, <1>4, <1>6, <1>7, <1>8, EditKeeps

(***************************************************************************)
(* The handlers that end in next()                                         *)
(***************************************************************************)

\* What next() finds: nothing is being compressed, the answer before is entered
\* in its and res, and the server still works on busy.
Between(its, todo, res, b, bytes, busy, l) ==
  /\ its \in Seq(Item) /\ DOMAIN its = DOMAIN items
  /\ \A i \in DOMAIN its : /\ its[i].file = items[i].file
                           /\ its[i].status # "Compressing"
  /\ todo \subseteq ToSet(queue)
  /\ \A i \in todo : its[i].status \in {"Queued", "Error"}
  /\ res \in Seq(Result) /\ ToSet(res) \subseteq rows
  /\ {r.item : r \in ToSet(res)} = {i \in ToSet(queue) : its[i].status = "Done"}
  /\ panel # None => res # <<>>
  /\ b \in 1 .. MaxRuns /\ bytes \in Nat
  /\ busy \subseteq Request /\ IsFiniteSet(busy) /\ Cardinality(busy) <= l
  /\ l \in 0 .. MaxLost /\ lost <= l
  /\ \A r \in rows \cup busy : /\ r.batch <= b /\ r.item \in DOMAIN its
                               /\ r.item \notin todo
                               /\ its[r.item].status # "Queued"
  /\ \A r, s \in rows : r.item = s.item => r = s
  /\ \A p, q \in busy : p.item = q.item => p = q
  /\ \A p \in busy, r \in rows : p.item # r.item
  /\ Cardinality(StraysIn(its, rows \cup busy)) <= l + slips
  /\ \A p \in busy : its[p.item].status # "Done"
  /\ \A r \in rows :
       r.batch = b /\ its[r.item].status = "Done" => r \in ToSet(res)
  /\ \A c \in 1 .. MaxRuns : \E W \in SUBSET DOMAIN items :
       /\ \A r \in rows : r.batch = c => r.item \in W /\ Bytes(W) <= BatchMax
       /\ \A p \in busy : p.batch = c => p.item \in W /\ p.total = Bytes(W)
       /\ c = b => todo \subseteq W /\ bytes = Bytes(W)

LEMMA EndKeeps ==
  ASSUME TypeOK, Sorted,
         NEW its, NEW res, NEW b, NEW bytes, NEW busy, NEW l,
         Between(its, {}, res, b, bytes, busy, l),
         running' = FALSE, pending' = {}, awaited' = None,
         Render(its, queue, FALSE),
         panel' = IF res = <<>> THEN panel ELSE [results |-> res, batch |-> b],
         serving' = busy, results' = res, reply' = None, batch' = b,
         total' = bytes, lost' = l, UNCHANGED <<cfg, rows, slips>>
  PROVE  IInv'
<1>1. /\ its \in Seq(Item) /\ DOMAIN its = DOMAIN items
      /\ items' = Drawn(its, queue) /\ queue' = queue
  BY DEF Between, Render
<1>2. /\ items' \in Seq(Item) /\ Len(items') = Len(its)
      /\ DOMAIN items' = DOMAIN items
      /\ \A i \in DOMAIN items :
           /\ items'[i].file = items[i].file
           /\ items'[i].status # "Compressing"
           /\ its[i].status # "Queued" => items'[i].status = its[i].status
           /\ items'[i].status = "Done" <=> its[i].status = "Done"
           /\ items'[i].status = "Queued" => its[i].status = "Queued"
  <2>1. \A i \in DOMAIN its : /\ its[i].file = items[i].file
                              /\ its[i].status # "Compressing"
    BY DEF Between
  <2> QED
    BY <1>1, <2>1, DrawnKeeps
<1>3. TypeOK'
  <2>1. Len(items') <= MaxItems /\ DOMAIN items \subseteq Ids
    <3>1. items \in Seq(Item) /\ Len(items) <= MaxItems
      BY DEF TypeOK
    <3>2. Len(its) = Len(items) /\ DOMAIN items = 1 .. Len(items)
      BY <1>1, <3>1
    <3> QED
      BY <1>2, <3>1, <3>2, BoundsNatural DEF Ids
  <2>2. shown' \in [rows : Seq(DOMAIN items'), open : SUBSET Ids, canRun : BOOLEAN]
    <3>1. shown' = [rows |-> queue, open |-> Queued(Drawn(its, queue), queue),
                    canRun |-> ~FALSE /\ Queued(Drawn(its, queue), queue) # {}]
      BY DEF Render
    <3>2. queue \in Seq(DOMAIN items)
      BY DEF TypeOK
    <3>3. Queued(Drawn(its, queue), queue) \subseteq Ids
      BY <2>1, <3>2 DEF Queued, ToSet
    <3> QED
      BY <1>2, <3>1, <3>2, <3>3
  <2>3. panel' \in Panel \cup {None}
    BY DEF TypeOK, Panel, Between
  <2>4. /\ cfg \in BOOLEAN /\ queue \in Seq(DOMAIN items) /\ rows \subseteq Result
    BY DEF TypeOK
  <2>5. queue' \in Seq(DOMAIN items')
    BY <1>1, <1>2, <2>4
  <2>6. /\ res \in Seq(Result) /\ b \in 0 .. MaxRuns /\ bytes \in Nat
        /\ busy \subseteq Request /\ l \in 0 .. MaxLost
    BY DEF Between
  <2> QED
    BY <1>2, <2>1, <2>2, <2>3, <2>4, <2>5, <2>6 DEF TypeOK
<1>4. IsFiniteSet(serving') /\ Sorted' /\ RowsFresh'
  BY <1>1, DrawnFresh DEF Between, Sorted
<1>5. LateWork'
  <2>1. busy \ {None} \in SUBSET busy
    OBVIOUS
  <2>2. /\ IsFiniteSet(busy) /\ Cardinality(busy) <= l
        /\ Cardinality(busy \ {None}) <= Cardinality(busy)
        /\ Cardinality(busy \ {None}) \in Nat /\ Cardinality(busy) \in Nat /\ l \in Nat
    BY <2>1, FS_Subset, FS_CardinalityType, BoundsNatural DEF Between
  <2> QED
    BY <2>2 DEF LateWork
<1>6. Compressing' /\ RunOfQueue' /\ AnswerTrue'
  BY <1>2 DEF Compressing, RunOfQueue, AnswerTrue
<1>7. SentOnce'
  <2>1. ASSUME NEW r \in rows \cup busy
        PROVE  r.batch <= b /\ r.item \in DOMAIN items' /\ ~Fresh(r.item)'
    <3>1. r.batch <= b /\ r.item \in DOMAIN its /\ its[r.item].status # "Queued"
      BY DEF Between
    <3> QED
      BY <1>1, <1>2, <3>1 DEF Fresh
  <2> QED
    BY <2>1 DEF SentOnce, Between
<1>8. FewUnheard'
  <2>1. \A r \in rows \cup busy : r.item \in DOMAIN items
    BY <1>1 DEF Between
  <2>2. Late' = rows \cup busy
    BY DEF Late
  <2>3. StraysIn(items, Late)' = StraysIn(its, rows \cup busy)
    BY <1>2, <2>1, <2>2 DEF StraysIn
  <2>4. ASSUME panel' # None, NEW r \in rows, r.batch = panel'.batch,
               items'[r.item].status = "Done"
        PROVE  r \in ToSet(panel'.results)
    <3>1. res # <<>> /\ panel' = [results |-> res, batch |-> b]
      BY <2>4 DEF Between
    <3> QED
      BY <1>2, <2>1, <2>4, <3>1 DEF Between
  <2>5. \A p \in busy : items'[p.item].status # "Done"
    BY <1>2, <2>1 DEF Between
  <2>6. Cardinality(StraysIn(its, rows \cup busy)) <= l + slips
    BY DEF Between
  <2> QED
    BY <2>3, <2>4, <2>5, <2>6 DEF FewUnheard
<1>9. ResultsStored'
  <2>1. \A i \in ToSet(queue) : i \in DOMAIN items
    BY DEF TypeOK, ToSet
  <2>2. {i \in ToSet(queue') : items'[i].status = "Done"} =
        {i \in ToSet(queue) : its[i].status = "Done"}
    BY <1>1, <1>2, <2>1
  <2> QED
    BY <2>2 DEF ResultsStored, Between
<1>10. TotalsTrue'
  <2> SUFFICES ASSUME NEW c \in 1 .. MaxRuns
               PROVE  \E W \in SUBSET DOMAIN items' : StartedWith(c, W)'
    BY DEF TotalsTrue
  <2>1. PICK W \in SUBSET DOMAIN items :
          /\ \A r \in rows : r.batch = c => r.item \in W /\ Bytes(W) <= BatchMax
          /\ \A p \in busy : p.batch = c => p.item \in W /\ p.total = Bytes(W)
    BY DEF Between
  <2>2. Bytes(W)' = Bytes(W)
    BY <1>2, BytesSame
  <2>3. StartedWith(c, W)'
    BY <2>1, <2>2 DEF StartedWith
  <2> QED
    BY <1>2, <2>3
<1> QED
  BY <1>3, <1>4, <1>5, <1>6, <1>7, <1>8, <1>9, <1>10 DEF IInv

LEMMA NextKeeps ==
  ASSUME TypeOK, Sorted,
         NEW its, NEW todo, NEW res, NEW b, NEW bytes, NEW busy, NEW l,
         Between(its, todo, res, b, bytes, busy, l),
         NEW i \in todo, running' = TRUE, pending' = todo \ {i},
         awaited' = [item |-> i, batch |-> b, total |-> bytes],
         serving' = busy \cup {awaited'},
         Render([its EXCEPT ![i].status = "Compressing"], queue, TRUE),
         panel' = panel, results' = res, reply' = None, batch' = b,
         total' = bytes, lost' = l, UNCHANGED <<cfg, rows, slips>>
  PROVE  IInv'
<1> DEFINE sent == [its EXCEPT ![i].status = "Compressing"]
<1>1. /\ its \in Seq(Item) /\ DOMAIN its = DOMAIN items
      /\ i \in DOMAIN items /\ i \in ToSet(queue)
      /\ queue \in Seq(DOMAIN items)
      /\ \A j \in DOMAIN items : /\ its[j].file = items[j].file
                                 /\ its[j].status # "Compressing"
  <2>1. queue \in Seq(DOMAIN items)
    BY DEF TypeOK
  <2>2. \A j \in ToSet(queue) : j \in DOMAIN items
    BY <2>1 DEF ToSet
  <2> QED
    BY <2>1, <2>2 DEF Between
<1>2. /\ sent \in Seq(Item) /\ DOMAIN sent = DOMAIN its
      /\ Len(sent) = Len(its)
      /\ \A j \in DOMAIN its : /\ sent[j].file = its[j].file
                               /\ j # i => sent[j] = its[j]
      /\ sent[i].status = "Compressing"
  <2>1. its[i] \in Item
    BY <1>1
  <2>2. [its[i] EXCEPT !.status = "Compressing"] \in Item
    BY <2>1 DEF Item, Statuses
  <2>3. sent = [its EXCEPT ![i] = [its[i] EXCEPT !.status = "Compressing"]]
    BY <1>1
  <2>4. sent \in Seq(Item) /\ DOMAIN sent = DOMAIN its /\ Len(sent) = Len(its)
    BY <1>1, <2>2, <2>3
  <2>5. sent[i] = [its[i] EXCEPT !.status = "Compressing"]
    BY <1>1, <2>3
  <2> QED
    BY <1>1, <2>1, <2>3, <2>4, <2>5 DEF Item
<1>3. items' = Drawn(sent, queue) /\ queue' = queue
  BY DEF Render
<1> HIDE DEF sent
<1>4. /\ items' \in Seq(Item) /\ Len(items') = Len(its)
      /\ DOMAIN items' = DOMAIN items
      /\ items'[i].status = "Compressing"
      /\ \A j \in DOMAIN items :
           /\ items'[j].file = items[j].file
           /\ j # i =>
                /\ items'[j].status # "Compressing"
                /\ its[j].status # "Queued" => items'[j].status = its[j].status
                /\ items'[j].status = "Done" <=> its[j].status = "Done"
                /\ items'[j].status = "Queued" => its[j].status = "Queued"
                /\ its[j].status = "Queued" =>
                     items'[j].status \in {"Queued", "Error"}
  <2>1. /\ Drawn(sent, queue) \in Seq(Item)
        /\ Len(Drawn(sent, queue)) = Len(sent)
        /\ DOMAIN Drawn(sent, queue) = DOMAIN sent
    BY <1>2, DrawnKeeps
  <2>2. \A j \in DOMAIN sent :
          /\ items'[j].file = sent[j].file
          /\ \/ items'[j].status = sent[j].status
             \/ sent[j].status = "Queued" /\ items'[j].status = "Error"
    BY <1>2, <1>3, DrawnKeeps
  <2>3. items'[i].status = "Compressing"
    BY <1>1, <1>2, <2>2
  <2>4. ASSUME NEW j \in DOMAIN items
        PROVE  /\ items'[j].file = items[j].file
               /\ j # i => \/ items'[j].status = its[j].status
                           \/ /\ its[j].status = "Queued"
                              /\ items'[j].status = "Error"
    BY <1>1, <1>2, <2>2
  <2> QED
    BY <1>1, <1>2, <1>3, <2>1, <2>3, <2>4
<1>5. its[i].status \in {"Queued", "Error"}
  BY DEF Between
<1>6. /\ awaited' # None /\ awaited'.item = i /\ awaited'.batch = b
      /\ awaited'.total = bytes /\ awaited' \in Request
  <2>1. i \in Ids /\ b \in 1 .. MaxRuns /\ bytes \in Nat
    <3>1. items \in Seq(Item) /\ Len(items) <= MaxItems
      BY DEF TypeOK
    <3>2. i \in 1 .. Len(items)
      BY <1>1, <3>1
    <3> QED
      BY <3>1, <3>2, BoundsNatural DEF Ids, Between
  <2>2. awaited' \in Request
    BY <2>1 DEF Request
  <2> QED
    BY <2>2, NoneFresh
<1>7. \A r \in rows \cup busy :
        /\ r.batch <= b /\ r.item \in DOMAIN items /\ r.item \notin todo
        /\ r.item # i /\ its[r.item].status # "Queued"
  BY <1>1 DEF Between
<1>8. TypeOK'
  <2>1. Len(items') <= MaxItems /\ DOMAIN items \subseteq Ids
    <3>1. items \in Seq(Item) /\ Len(items) <= MaxItems
      BY DEF TypeOK
    <3>2. Len(its) = Len(items) /\ DOMAIN items = 1 .. Len(items)
      BY <1>1, <3>1
    <3> QED
      BY <1>4, <3>1, <3>2, BoundsNatural DEF Ids
  <2>2. shown' \in [rows : Seq(DOMAIN items'), open : SUBSET Ids, canRun : BOOLEAN]
    <3>1. shown' = [rows |-> queue, open |-> Queued(Drawn(sent, queue), queue),
                    canRun |-> ~TRUE /\ Queued(Drawn(sent, queue), queue) # {}]
      BY DEF Render, sent
    <3>2. Queued(Drawn(sent, queue), queue) \subseteq Ids
      BY <1>1, <2>1 DEF Queued, ToSet
    <3> QED
      BY <1>1, <1>4, <3>1, <3>2
  <2>3. /\ cfg \in BOOLEAN /\ rows \subseteq Result /\ panel \in Panel \cup {None}
    BY DEF TypeOK
  <2>4. /\ queue' \in Seq(DOMAIN items')
    BY <1>1, <1>3, <1>4
  <2>5. /\ res \in Seq(Result) /\ b \in 0 .. MaxRuns /\ bytes \in Nat
        /\ busy \subseteq Request /\ l \in 0 .. MaxLost
    BY DEF Between
  <2>6. pending' \subseteq DOMAIN items'
    <3>1. todo \subseteq ToSet(queue)
      BY DEF Between
    <3> QED
      BY <1>1, <1>4, <3>1 DEF ToSet
  <2> QED
    BY <1>4, <1>6, <2>1, <2>2, <2>3, <2>4, <2>5, <2>6 DEF TypeOK
<1>9. IsFiniteSet(serving') /\ Sorted' /\ RowsFresh'
  <2>1. IsFiniteSet(busy)
    BY DEF Between
  <2>2. IsFiniteSet(busy \cup {awaited'})
    BY <2>1, FS_AddElement
  <2>3. Render(sent, queue, TRUE)
    BY DEF sent
  <2>4. RowsFresh'
    BY <2>3, DrawnFresh
  <2> QED
    BY <1>3, <2>2, <2>4 DEF Sorted
<1>10. LateWork'
  <2>1. serving' \ {awaited'} \in SUBSET busy
    OBVIOUS
  <2>2. /\ IsFiniteSet(busy) /\ Cardinality(busy) <= l
        /\ Cardinality(serving' \ {awaited'}) <= Cardinality(busy)
        /\ Cardinality(serving' \ {awaited'}) \in Nat /\ Cardinality(busy) \in Nat /\ l \in Nat
    BY <2>1, FS_Subset, FS_CardinalityType, BoundsNatural DEF Between
  <2> QED
    BY <2>2 DEF LateWork
<1>11. Compressing'
  BY <1>1, <1>4, <1>6 DEF Compressing
<1>12. RunOfQueue'
  <2>1. /\ todo \subseteq ToSet(queue)
        /\ \A j \in todo : its[j].status \in {"Queued", "Error"}
    BY DEF Between
  <2>2. \A j \in todo : j \in DOMAIN items
    BY <1>1, <2>1 DEF ToSet
  <2>3. \A j \in todo \ {i} : items'[j].status \in {"Queued", "Error"}
    BY <1>4, <2>1, <2>2
  <2> QED
    BY <1>1, <1>3, <1>6, <2>1, <2>3 DEF RunOfQueue
<1>13. SentOnce'
  <2>1. ASSUME NEW r \in rows \cup serving'
        PROVE  r.batch <= b /\ r.item \in DOMAIN items' /\ ~Fresh(r.item)'
    <3>1. CASE r \in rows \cup busy
      BY <1>4, <1>7, <3>1 DEF Fresh
    <3>2. CASE r = awaited'
      <4>1. b <= b
        BY DEF Between
      <4> QED
        BY <1>1, <1>4, <1>6, <3>2, <4>1 DEF Fresh
    <3> QED
      BY <3>1, <3>2
  <2>2. /\ \A r, s \in rows : r.item = s.item => r = s
        /\ \A p, q \in busy : p.item = q.item => p = q
        /\ \A p \in busy, r \in rows : p.item # r.item
    BY DEF Between
  <2>3. /\ \A p, q \in serving' : p.item = q.item => p = q
        /\ \A p \in serving', r \in rows : p.item # r.item
    BY <1>6, <1>7, <2>2
  <2> QED
    BY <2>1, <2>2, <2>3 DEF SentOnce
<1>14. AnswerTrue'
  <2>1. /\ awaited' \in serving'
        /\ \A p \in serving' : p.item = awaited'.item => p = awaited'
    BY <1>6, <1>7
  <2> QED
    BY <1>6, <2>1, NoneFresh DEF AnswerTrue
<1>15. FewUnheard'
  <2>1. \A r \in rows \cup busy : items'[r.item].status = "Done" <=>
                                   its[r.item].status = "Done"
    BY <1>4, <1>7
  <2>2. Late' = rows \cup busy
    BY <1>6, <1>7, NoneFresh DEF Late
  <2>3. StraysIn(items, Late)' = StraysIn(its, rows \cup busy)
    BY <2>1, <2>2 DEF StraysIn
  <2>4. \A p \in serving' : items'[p.item].status # "Done"
    BY <1>4, <1>6, <2>1 DEF Between
  <2>5. \A r \in rows : r.batch = b /\ items'[r.item].status = "Done" =>
                         r \in ToSet(res)
    BY <2>1 DEF Between
  <2>6. Cardinality(StraysIn(its, rows \cup busy)) <= l + slips
    BY DEF Between
  <2> QED
    BY <2>3, <2>4, <2>5, <2>6 DEF FewUnheard
<1>16. ResultsStored'
  <2>1. \A j \in ToSet(queue) : j \in DOMAIN items
    BY <1>1 DEF ToSet
  <2>2. {j \in ToSet(queue') : items'[j].status = "Done"} =
        {j \in ToSet(queue) : its[j].status = "Done"}
    BY <1>3, <1>4, <1>5, <2>1
  <2> QED
    BY <2>2 DEF ResultsStored, Between
<1>17. TotalsTrue'
  <2> SUFFICES ASSUME NEW c \in 1 .. MaxRuns
               PROVE  \E W \in SUBSET DOMAIN items' : StartedWith(c, W)'
    BY DEF TotalsTrue
  <2>1. PICK W \in SUBSET DOMAIN items :
          /\ \A r \in rows : r.batch = c => r.item \in W /\ Bytes(W) <= BatchMax
          /\ \A p \in busy : p.batch = c => p.item \in W /\ p.total = Bytes(W)
          /\ c = b => todo \subseteq W /\ bytes = Bytes(W)
    BY DEF Between
  <2>2. Bytes(W)' = Bytes(W)
    BY <1>4, BytesSame
  <2>3. StartedWith(c, W)'
    BY <1>6, <2>1, <2>2 DEF StartedWith
  <2> QED
    BY <1>4, <2>3
<1> QED
  BY <1>8, <1>9, <1>10, <1>11, <1>12, <1>13, <1>14, <1>15, <1>16, <1>17 DEF IInv

LEMMA SendKeeps ==
  ASSUME TypeOK, Sorted,
         NEW its, NEW todo, NEW res, NEW b, NEW bytes, NEW busy, NEW l,
         Between(its, todo, res, b, bytes, busy, l),
         SendNext(its, todo, res, b, bytes, busy),
         results' = res, reply' = None, batch' = b,
         total' = bytes, lost' = l, UNCHANGED <<cfg, rows, slips>>
  PROVE  IInv'
<1>1. CASE /\ todo = {}
           /\ running' = FALSE /\ pending' = {} /\ awaited' = None
           /\ Render(its, queue, FALSE)
           /\ panel' = IF res = <<>> THEN panel
                       ELSE [results |-> res, batch |-> b]
           /\ serving' = busy
  BY <1>1, EndKeeps
<1>2. CASE \E i \in todo :
             /\ running' = TRUE /\ pending' = todo \ {i}
             /\ awaited' = [item |-> i, batch |-> b, total |-> bytes]
             /\ serving' = busy \cup {awaited'}
             /\ Render([its EXCEPT ![i].status = "Compressing"], queue, TRUE)
             /\ UNCHANGED panel
  BY <1>2, NextKeeps
<1> QED
  BY <1>1, <1>2 DEF SendNext

LEMMA RunKeeps ==
  ASSUME IInv, Run
  PROVE  IInv'
<1> DEFINE W == ToSet(queue)
           todo == Queued(items, queue)
<1>1. /\ ~running /\ batch < MaxRuns /\ awaited = None /\ lost \in 0 .. MaxLost
      /\ batch \in 0 .. MaxRuns /\ items \in Seq(Item) /\ queue \in Seq(DOMAIN items)
      /\ serving \subseteq Request /\ IsFiniteSet(serving) /\ results \in Seq(Result)
  BY DEF IInv, TypeOK, Run
<1>2. W \in SUBSET DOMAIN items /\ todo \subseteq W
  BY <1>1 DEF ToSet, Queued
<1>3. Bytes(W) \in Nat
  BY <1>2, BytesNat DEF IInv
<1>4. Cardinality(serving) <= lost
  <2>1. serving \ {awaited} = serving
    BY <1>1, NoneFresh
  <2> QED
    BY <2>1 DEF IInv, LateWork
<1>5. \A i \in DOMAIN items : items[i].status # "Compressing"
  BY <1>1 DEF IInv, Compressing
<1>6. \A r \in rows \cup serving :
        /\ r.batch <= batch /\ r.item \in DOMAIN items /\ r.item \notin todo
        /\ items[r.item].status # "Queued"
  BY DEF IInv, SentOnce, Fresh, Queued
<1>7. \A r \in rows \cup serving : r.batch \in 1 .. MaxRuns
  BY DEF IInv, TypeOK, Request, Result
<1>8. \A r \in rows \cup serving : r.batch < batch + 1 /\ r.batch # batch + 1
  BY <1>1, <1>6, <1>7, BoundsNatural
<1>9. batch + 1 \in 1 .. MaxRuns /\ lost <= lost
  BY <1>1, BoundsNatural
<1>10. /\ Cardinality(StraysIn(items, rows \cup serving)) <= lost + slips
       /\ \A p \in serving : items[p.item].status # "Done"
  <2>1. Late = rows \cup serving
    BY <1>1 DEF Late
  <2> QED
    BY <2>1 DEF IInv, FewUnheard
<1>11. ASSUME NEW c \in 1 .. MaxRuns
       PROVE  \E V \in SUBSET DOMAIN items :
         /\ \A r \in rows : r.batch = c => r.item \in V /\ Bytes(V) <= BatchMax
         /\ \A p \in serving : p.batch = c => p.item \in V /\ p.total = Bytes(V)
         /\ c = batch + 1 => todo \subseteq V /\ Bytes(W) = Bytes(V)
  <2>1. CASE c = batch + 1
    BY <1>2, <1>8, <2>1
  <2>2. CASE c # batch + 1
    <3>1. PICK V \in SUBSET DOMAIN items : StartedWith(c, V)
      BY DEF IInv, TotalsTrue
    <3> QED
      BY <2>2, <3>1 DEF StartedWith
  <2> QED
    BY <2>1, <2>2
<1>12. \A i \in todo : items[i].status \in {"Queued", "Error"}
  BY DEF Queued
<1>13. /\ ToSet(results) \subseteq rows
       /\ {r.item : r \in ToSet(results)} =
            {i \in ToSet(queue) : items[i].status = "Done"}
       /\ panel # None => results # <<>>
  BY DEF IInv, ResultsStored
<1>14. /\ \A r, s \in rows : r.item = s.item => r = s
       /\ \A p, q \in serving : p.item = q.item => p = q
       /\ \A p \in serving, r \in rows : p.item # r.item
  BY DEF IInv, SentOnce
<1>15. SendNext(items, todo, results, batch + 1, Bytes(W), serving)
  BY DEF Run
<1>16. /\ batch' = batch + 1 /\ total' = Bytes(W)
       /\ UNCHANGED <<cfg, results, reply, rows, lost, slips>>
  BY DEF Run
<1>17. reply' = None
  BY <1>1, <1>16 DEF IInv, AnswerTrue
<1> HIDE DEF todo, W
<1>18. Between(items, todo, results, batch + 1, Bytes(W), serving, lost)
  <2>1. \A r \in rows \cup serving : r.batch <= batch + 1
    BY <1>1, <1>7, <1>8
  <2>2. todo \subseteq ToSet(queue)
    BY <1>2 DEF W
  <2> QED
    BY <1>1, <1>3, <1>4, <1>5, <1>6, <1>8, <1>9, <1>10, <1>11, <1>12, <1>13,
       <1>14, <2>1, <2>2 DEF Between
<1>19. TypeOK /\ Sorted
  BY DEF IInv
<1> QED
  BY <1>15, <1>16, <1>17, <1>18, <1>19, SendKeeps

\* The awaited file is done or in error, and the others as they were.
LEMMA FinishedIs ==
  ASSUME IInv, awaited # None, NEW ok \in BOOLEAN
  PROVE  /\ Finished(ok) \in Seq(Item)
         /\ DOMAIN Finished(ok) = DOMAIN items
         /\ awaited.item \in DOMAIN items
         /\ Finished(ok)[awaited.item].status = IF ok THEN "Done" ELSE "Error"
         /\ \A i \in DOMAIN items :
              /\ Finished(ok)[i].file = items[i].file
              /\ Finished(ok)[i].status # "Compressing"
              /\ i # awaited.item => Finished(ok)[i].status = items[i].status
<1> DEFINE a == awaited.item
           st == IF ok THEN "Done" ELSE "Error"
           its == [items EXCEPT ![a].status = st]
<1>1. /\ items \in Seq(Item) /\ queue \in Seq(DOMAIN items) /\ running
      /\ a \in ToSet(queue)
  BY DEF IInv, TypeOK, RunOfQueue
<1>2. a \in DOMAIN items
  BY <1>1 DEF ToSet
<1>3. items[a] \in Item /\ st \in Statuses /\ st # "Compressing"
  BY <1>1, <1>2 DEF Statuses
<1> HIDE DEF a, st
<1>4. [items[a] EXCEPT !.status = st] \in Item
  BY <1>3 DEF Item
<1>5. its = [items EXCEPT ![a] = [items[a] EXCEPT !.status = st]]
  BY <1>2
<1>6. its \in Seq(Item) /\ DOMAIN its = DOMAIN items
  BY <1>1, <1>2, <1>4, <1>5
<1>7. /\ its[a] = [items[a] EXCEPT !.status = st]
      /\ \A i \in DOMAIN items : i # a => its[i] = items[i]
  BY <1>2, <1>5
<1>8. \A i \in DOMAIN items : items[i].status = "Compressing" <=> i = a
  BY DEF IInv, Compressing, a
<1>9. its[a].status = st /\ its[a].file = items[a].file
  BY <1>3, <1>7 DEF Item
<1>10. Finished(ok) = its
  BY DEF Finished, a, st
<1> HIDE DEF its
<1> QED
  BY <1>2, <1>3, <1>6, <1>7, <1>8, <1>9, <1>10 DEF a, st

LEMMA HeardBetween ==
  ASSUME IInv, awaited # None, NEW ok \in BOOLEAN, NEW res, NEW busy, NEW l,
         ok => /\ [item |-> awaited.item, batch |-> awaited.batch] \in rows
               /\ res = Append(results, [item |-> awaited.item,
                                         batch |-> awaited.batch]),
         ~ok => res = results,
         busy \subseteq serving, Cardinality(busy) <= l,
         l \in 0 .. MaxLost, lost <= l,
         Cardinality(StraysIn(Finished(ok), rows \cup busy)) <= l + slips
  PROVE  Between(Finished(ok), pending, res, awaited.batch, total, busy, l)
<1> DEFINE its == Finished(ok)
           a == awaited.item
           new == [item |-> a, batch |-> awaited.batch]
<1>1. /\ running /\ items \in Seq(Item) /\ queue \in Seq(DOMAIN items)
      /\ serving \subseteq Request /\ IsFiniteSet(serving)
      /\ results \in Seq(Result) /\ rows \subseteq Result /\ total \in Nat
      /\ awaited \in Request /\ lost \in Nat
  BY SMTT(30), BoundsNatural DEF IInv, TypeOK
<1>2. /\ its \in Seq(Item) /\ DOMAIN its = DOMAIN items /\ a \in DOMAIN items
      /\ its[a].status = IF ok THEN "Done" ELSE "Error"
      /\ \A i \in DOMAIN items : /\ its[i].file = items[i].file
                                 /\ its[i].status # "Compressing"
                                 /\ i # a => its[i].status = items[i].status
  BY FinishedIs
<1>3. /\ a \in ToSet(queue) /\ pending \subseteq ToSet(queue)
      /\ awaited.batch = batch
      /\ \A i \in pending : items[i].status \in {"Queued", "Error"}
  BY <1>1 DEF IInv, RunOfQueue
<1>4. \A i \in DOMAIN items : items[i].status = "Compressing" <=> i = a
  BY DEF IInv, Compressing
<1>5. \A i \in ToSet(queue) : i \in DOMAIN items
  BY <1>1 DEF ToSet
<1> HIDE DEF its
<1>6. \A i \in pending : i # a /\ its[i].status \in {"Queued", "Error"}
  BY <1>2, <1>3, <1>4, <1>5
<1>7. /\ ToSet(results) \subseteq rows
      /\ {r.item : r \in ToSet(results)} =
           {i \in ToSet(queue) : items[i].status = "Done"}
      /\ panel # None => results # <<>>
  BY DEF IInv, ResultsStored
<1>8. /\ res \in Seq(Result) /\ ToSet(res) \subseteq rows
      /\ {r.item : r \in ToSet(res)} =
           {i \in ToSet(queue) : its[i].status = "Done"}
      /\ panel # None => res # <<>>
      /\ ToSet(results) \subseteq ToSet(res)
      /\ ok => new \in ToSet(res)
  <2>1. CASE ok
    <3>1. new \in Result /\ res = Append(results, new)
      BY <1>1, <2>1
    <3>2. /\ res \in Seq(Result) /\ res # <<>>
          /\ DOMAIN res = DOMAIN results \cup {Len(results) + 1}
          /\ res[Len(results) + 1] = new
          /\ \A j \in DOMAIN results : res[j] = results[j]
      BY SMTT(30), <1>1, <3>1
    <3>3. ToSet(res) = ToSet(results) \cup {new}
      BY <3>2 DEF ToSet
    <3>4. {r.item : r \in ToSet(res)} = {r.item : r \in ToSet(results)} \cup {a}
      BY <3>3
    <3>5. {i \in ToSet(queue) : its[i].status = "Done"} =
          {i \in ToSet(queue) : items[i].status = "Done"} \cup {a}
      BY <1>2, <1>3, <1>5, <2>1
    <3> QED
      BY <1>7, <2>1, <3>2, <3>3, <3>4, <3>5
  <2>2. CASE ~ok
    <3>1. {i \in ToSet(queue) : its[i].status = "Done"} =
          {i \in ToSet(queue) : items[i].status = "Done"}
      BY <1>2, <1>3, <1>4, <1>5, <2>2
    <3> QED
      BY <1>1, <1>7, <2>2, <3>1
  <2> QED
    BY <2>1, <2>2
<1>9. \A r \in rows \cup serving :
        /\ r.batch <= batch /\ r.item \in DOMAIN items /\ r.item \notin pending
        /\ items[r.item].status # "Queued"
  BY DEF IInv, SentOnce, Fresh
<1>10. \A r \in rows \cup serving : its[r.item].status # "Queued"
  BY <1>2, <1>9
<1>11. /\ \A r, s \in rows : r.item = s.item => r = s
       /\ \A p, q \in serving : p.item = q.item => p = q
       /\ \A p \in serving, r \in rows : p.item # r.item
  BY DEF IInv, SentOnce
<1>12. ASSUME NEW r \in rows, r.batch = batch, its[r.item].status = "Done"
       PROVE  r \in ToSet(res)
  <2>1. CASE r.item = a
    BY <1>2, <1>8, <1>11, <1>12, <2>1
  <2>2. CASE r.item # a
    <3>1. items[r.item].status = "Done"
      BY <1>2, <1>9, <1>12, <2>2
    <3> QED
      BY <1>1, <1>8, <1>12, <3>1 DEF IInv, FewUnheard
  <2> QED
    BY <2>1, <2>2
<1>19. ASSUME NEW p \in busy PROVE its[p.item].status # "Done"
  <2>1. items[p.item].status # "Done" /\ p.item \in DOMAIN items
    BY <1>9 DEF IInv, FewUnheard
  <2>2. ok => p.item # a
    BY <1>11
  <2> QED
    BY <1>2, <2>1, <2>2
<1>20. Cardinality(StraysIn(its, rows \cup busy)) <= l + slips
  BY DEF its
<1>13. ASSUME NEW c \in 1 .. MaxRuns
       PROVE  \E W \in SUBSET DOMAIN items :
         /\ \A r \in rows : r.batch = c => r.item \in W /\ Bytes(W) <= BatchMax
         /\ \A p \in busy : p.batch = c => p.item \in W /\ p.total = Bytes(W)
         /\ c = batch => pending \subseteq W /\ total = Bytes(W)
  <2>1. PICK W \in SUBSET DOMAIN items : StartedWith(c, W)
    BY DEF IInv, TotalsTrue
  <2> QED
    BY <1>1, <2>1 DEF StartedWith
<1>14. IsFiniteSet(busy)
  BY <1>1, FS_Subset
<1>15. batch \in 1 .. MaxRuns
  BY <1>1, <1>3 DEF Request
<1>16. \A r \in rows \cup busy :
         /\ r.batch <= batch /\ r.item \in DOMAIN its /\ r.item \notin pending
         /\ its[r.item].status # "Queued"
  BY <1>2, <1>9, <1>10
<1>17. /\ busy \subseteq Request
       /\ \A p, q \in busy : p.item = q.item => p = q
       /\ \A p \in busy, r \in rows : p.item # r.item
  BY <1>1, <1>11
<1> HIDE DEF a, new
<1>18. Between(its, pending, res, batch, total, busy, l)
  BY <1>1, <1>2, <1>3, <1>6, <1>8, <1>11, <1>12, <1>13, <1>14, <1>15, <1>16,
     <1>17, <1>19, <1>20 DEF Between
<1> QED
  BY <1>3, <1>18 DEF its

LEMMA HearKeeps ==
  ASSUME IInv, Hear
  PROVE  IInv'
<1> DEFINE ok == reply = "ok"
           new == [item |-> awaited.item, batch |-> awaited.batch]
           res == IF ok THEN Append(results, new) ELSE results
<1>1. /\ TypeOK /\ Sorted /\ LateWork /\ AnswerTrue
      /\ awaited # None /\ reply # None
  BY DEF IInv, Hear
<1>2. /\ reply \in {"ok", "error"} /\ serving \subseteq Request
      /\ lost \in 0 .. MaxLost
  BY <1>1 DEF TypeOK
<1>3. awaited \notin serving
  BY <1>1 DEF AnswerTrue
<1>4. Cardinality(serving) <= lost
  <2>1. serving \ {awaited} = serving
    BY <1>3
  <2> QED
    BY <1>1, <2>1 DEF LateWork
<1>5. ok => new \in rows
  BY <1>1, <1>2 DEF AnswerTrue
<1>10. Cardinality(StraysIn(Finished(ok), rows \cup serving)) <= lost + slips
  <2>1. /\ DOMAIN Finished(ok) = DOMAIN items
        /\ Finished(ok)[awaited.item].status = IF ok THEN "Done" ELSE "Error"
        /\ \A i \in DOMAIN items : i # awaited.item =>
             Finished(ok)[i].status = items[i].status
    BY <1>1, FinishedIs
  <2>2. /\ awaited.item \in DOMAIN items => items[awaited.item].status # "Done"
        /\ \A r \in rows \cup serving : r.item \in DOMAIN items
    BY <1>1 DEF IInv, Compressing, SentOnce
  <2>3. ~ok => reply = "error"
    BY <1>2
  <2> HIDE DEF ok
  <2>4. StraysIn(Finished(ok), rows \cup serving) \in SUBSET StraysIn(items, Late)
    BY <2>1, <2>2, <2>3 DEF StraysIn, Late
  <2> QED
    BY <2>4, StraysFew
<1>6. lost <= lost
  BY <1>2, BoundsNatural
<1>7. Between(Finished(ok), pending, res, awaited.batch, total, serving, lost)
  <2>1. ok \in BOOLEAN
    OBVIOUS
  <2> HIDE DEF ok
  <2>2. /\ ok => /\ new \in rows /\ res = Append(results, new)
        /\ ~ok => res = results
    BY <1>5
  <2> HIDE DEF res
  <2> QED
    BY <1>1, <1>2, <1>4, <1>6, <1>10, <2>1, <2>2, HeardBetween
<1>8. /\ SendNext(Finished(ok), pending, res, awaited.batch, total, serving)
      /\ results' = res /\ reply' = None
      /\ UNCHANGED <<cfg, batch, total, rows, lost, slips>>
  BY DEF Hear
<1>9. batch = awaited.batch
  BY <1>1 DEF IInv, RunOfQueue, TypeOK
<1> HIDE DEF ok, res
<1> QED
  BY <1>1, <1>7, <1>8, <1>9, SendKeeps

LEMMA LostKeeps ==
  ASSUME IInv, NEW reached \in BOOLEAN, AnswerLost(reached)
  PROVE  IInv'
<1> DEFINE busy == IF reached THEN serving ELSE serving \ {awaited}
<1>1. /\ TypeOK /\ Sorted /\ awaited # None /\ lost < MaxLost
      /\ lost \in 0 .. MaxLost /\ IsFiniteSet(serving)
      /\ Cardinality(serving \ {awaited}) <= lost
  BY DEF IInv, TypeOK, AnswerLost, LateWork
<1>2. Cardinality(busy) <= lost + 1
  <2>1. /\ Cardinality(serving) \in Nat /\ Cardinality(serving \ {awaited}) \in Nat
        /\ \/ Cardinality(serving \ {awaited}) = Cardinality(serving) - 1
           \/ Cardinality(serving \ {awaited}) = Cardinality(serving)
    BY <1>1, FS_CardinalityType, FS_RemoveElement
  <2> QED
    BY <1>1, <2>1, BoundsNatural
<1>3. /\ busy \subseteq serving /\ lost + 1 \in 0 .. MaxLost /\ lost <= lost + 1
      /\ FALSE \in BOOLEAN
  BY <1>1, BoundsNatural
<1>4. /\ SendNext(Finished(FALSE), pending, results, awaited.batch, total, busy)
      /\ lost' = lost + 1 /\ reply' = None
      /\ UNCHANGED <<cfg, results, batch, total, rows, slips>>
  BY DEF AnswerLost
<1> HIDE DEF busy
<1>7. Cardinality(StraysIn(Finished(FALSE), rows \cup busy)) <= lost + 1 + slips
  <2>1. /\ DOMAIN Finished(FALSE) = DOMAIN items
        /\ \A i \in DOMAIN items : i # awaited.item =>
             Finished(FALSE)[i].status = items[i].status
    BY <1>1, FinishedIs
  <2>2. \A r \in rows \cup serving : r.item \in DOMAIN items
    BY DEF IInv, SentOnce
  <2>3. StraysIn(Finished(FALSE), rows \cup busy) \in
          SUBSET (StraysIn(items, Late) \cup {awaited.item})
    BY <1>3, <2>1, <2>2 DEF StraysIn, Late
  <2> DEFINE n == Cardinality(StraysIn(Finished(FALSE), rows \cup busy))
  <2>4. n <= lost + slips + 1 /\ n \in Nat
    BY <2>3, OneMoreStray
  <2>5. lost \in Nat /\ slips \in Nat
    BY <1>1, BoundsNatural DEF IInv, TypeOK
  <2> HIDE DEF n
  <2>6. n <= lost + 1 + slips
    BY <2>4, <2>5
  <2> QED
    BY <2>6 DEF n
<1>5. Between(Finished(FALSE), pending, results, awaited.batch, total, busy,
              lost + 1)
  BY <1>1, <1>2, <1>3, <1>7, HeardBetween
<1>6. batch = awaited.batch
  BY <1>1 DEF IInv, RunOfQueue, TypeOK
<1> QED
  BY <1>1, <1>4, <1>5, <1>6, SendKeeps

(***************************************************************************)
(* The server, the start, and the theorems                                 *)
(***************************************************************************)

LEMMA ServeKeeps ==
  ASSUME IInv, NEW req \in serving, Serve(req)
  PROVE  IInv'
<1> DEFINE row == [item |-> req.item, batch |-> req.batch]
<1>1. PICK what \in {"ok", "error"}, stored \in BOOLEAN :
        /\ Answer(req, what)
        /\ what = "ok" => stored
        /\ stored => Acceptable(req) /\ rows' = rows \cup {row}
        /\ ~stored => rows' = rows
        /\ slips' = IF stored /\ what = "error" THEN slips + 1 ELSE slips
        /\ stored /\ what = "error" => slips < MaxSlips
        /\ UNCHANGED <<page, lost>>
  BY DEF Serve, Store, StoreUnheard, Refuse
<1>2. /\ UNCHANGED <<cfg, items, queue, results, running, batch, pending, total,
                     awaited, shown, panel, lost>>
      /\ serving' = serving \ {req}
      /\ reply' = IF req = awaited THEN what ELSE reply
      /\ rows \subseteq rows' /\ rows' \subseteq rows \cup {row}
  BY <1>1 DEF page, Answer
<1>3. /\ TypeOK /\ IsFiniteSet(serving) /\ Sorted /\ Compressing /\ RunOfQueue
      /\ SentOnce /\ AnswerTrue /\ LateWork /\ FewUnheard /\ ResultsStored
      /\ TotalsTrue /\ RowsFresh
  BY DEF IInv
<1>4. /\ req \in Request /\ row \in Result
      /\ row.item = req.item /\ row.batch = req.batch
  BY <1>3 DEF TypeOK, Request, Result
<1>5. TypeOK'
  <2>1. slips' \in 0 .. MaxSlips
    BY <1>1, <1>3, BoundsNatural DEF TypeOK
  <2> QED
    BY <1>1, <1>2, <1>3, <1>4, <2>1 DEF TypeOK
<1>6. IsFiniteSet(serving') /\ Sorted' /\ Compressing' /\ RunOfQueue' /\ RowsFresh'
  BY <1>2, <1>3, FS_RemoveElement DEF Sorted, Compressing, RunOfQueue, RowsFresh
<1>7. LateWork'
  <2>1. serving' \ {awaited} \in SUBSET (serving \ {awaited})
    BY <1>2
  <2>2. IsFiniteSet(serving \ {awaited})
    BY <1>3, FS_RemoveElement
  <2>3. /\ Cardinality(serving' \ {awaited}) <= Cardinality(serving \ {awaited})
        /\ Cardinality(serving' \ {awaited}) \in Nat
        /\ Cardinality(serving \ {awaited}) \in Nat
    BY <2>1, <2>2, FS_Subset, FS_CardinalityType
  <2>4. lost \in Nat
    BY <1>3, BoundsNatural DEF TypeOK
  <2> QED
    BY <1>2, <1>3, <2>3, <2>4 DEF LateWork
<1>8. /\ \A r \in rows : r.item # req.item
      /\ \A p \in serving : p.item = req.item => p = req
      /\ req.batch <= batch /\ req.item \in DOMAIN items /\ ~Fresh(req.item)
  BY <1>3 DEF SentOnce
<1>9. SentOnce'
  <2>1. \A r \in rows' \cup serving' :
          r.batch <= batch /\ r.item \in DOMAIN items /\ ~Fresh(r.item)
    BY <1>2, <1>3, <1>4, <1>8 DEF SentOnce
  <2>2. \A r \in rows' \cup serving' :
          r.batch <= batch' /\ r.item \in DOMAIN items' /\ ~Fresh(r.item)'
    BY <1>2, <2>1 DEF Fresh
  <2>3. \A r, s \in rows' : r.item = s.item => r = s
    BY <1>2, <1>3, <1>4, <1>8 DEF SentOnce
  <2>4. \A p, q \in serving' : p.item = q.item => p = q
    BY <1>2, <1>3 DEF SentOnce
  <2>5. \A p \in serving', r \in rows' : p.item # r.item
    BY <1>2, <1>3, <1>4, <1>8 DEF SentOnce
  <2> QED
    BY <2>2, <2>3, <2>4, <2>5 DEF SentOnce
<1>10. AnswerTrue'
  <2>1. CASE req = awaited
    <3>1. awaited # None /\ awaited \notin serving' /\ reply' = what
      BY <1>2, <1>4, <2>1, NoneFresh
    <3>2. what = "ok" => row \in rows'
      BY <1>1
    <3>3. \A p \in serving' : p.item = awaited.item => p = awaited
      BY <1>2, <1>8, <2>1
    <3> QED
      BY <1>2, <2>1, <3>1, <3>2, <3>3, NoneFresh DEF AnswerTrue
  <2>2. CASE req # awaited
    <3>1. reply' = reply /\ (awaited \in serving' <=> awaited \in serving)
      BY <1>2, <2>2
    <3>2. awaited # None => req.item # awaited.item
      BY <1>3, <2>2 DEF AnswerTrue
    <3> QED
      BY <1>2, <1>3, <1>4, <3>1, <3>2 DEF AnswerTrue
  <2> QED
    BY <2>1, <2>2
<1>11. Cardinality(StraysIn(items, Late)') <= lost + slips'
  <2>1. /\ lost \in Nat /\ slips \in Nat
        /\ slips' = slips \/ slips' = slips + 1
    BY <1>1, <1>3, BoundsNatural DEF TypeOK
  <2>2. CASE req = awaited /\ stored /\ what = "error"
    <3>1. StraysIn(items, Late)' \in SUBSET (StraysIn(items, Late) \cup {row.item})
      BY <1>2, <1>4, <2>2 DEF StraysIn, Late
    <3>2. Cardinality(StraysIn(items, Late)') <= lost + slips + 1
      BY <3>1, OneMoreStray
    <3> QED
      BY <1>1, <2>1, <2>2, <3>2
  <2>3. CASE req # awaited
    <3>1. reply' = reply /\ Late' \subseteq Late \cup {row}
      BY <1>2, <2>3 DEF Late
    <3>2. awaited # None => req.item # awaited.item
      BY <1>3, <2>3 DEF AnswerTrue
    <3>3. req \in Late
      BY <3>2 DEF Late
    <3>4. StraysIn(items, Late)' \in SUBSET StraysIn(items, Late)
      BY <1>2, <1>4, <3>1, <3>3 DEF StraysIn
    <3> QED
      BY <2>1, <3>4, StraysFew
  <2>4. CASE req = awaited /\ ~(stored /\ what = "error")
    <3>1. \A r \in rows' \cup serving' : r.item = awaited.item => reply' = "ok"
      BY <1>1, <1>2, <1>8, <2>4
    <3>2. \A r \in rows' \cup serving' :
            r.item # awaited.item => r \in rows \cup serving
      BY <1>2, <1>4, <2>4
    <3>3. StraysIn(items, Late)' \in SUBSET StraysIn(items, Late)
      BY <1>2, <1>4, <2>4, <3>1, <3>2, NoneFresh DEF StraysIn, Late
    <3> QED
      BY <2>1, <3>3, StraysFew
  <2> QED
    BY <2>2, <2>3, <2>4
<1>12. FewUnheard'
  <2>1. items[row.item].status # "Done"
    BY <1>3, <1>4 DEF FewUnheard
  <2>2. \A r \in rows' : items[r.item].status = "Done" => r \in rows
    BY <1>2, <2>1
  <2> QED
    BY <1>2, <1>3, <1>11, <2>2 DEF FewUnheard
<1>13. ResultsStored'
  BY <1>2, <1>3 DEF ResultsStored
<1>14. TotalsTrue'
  <2> SUFFICES ASSUME NEW b \in 1 .. MaxRuns
               PROVE  \E W \in SUBSET DOMAIN items' : StartedWith(b, W)'
    BY DEF TotalsTrue
  <2>1. PICK W \in SUBSET DOMAIN items : StartedWith(b, W)
    BY <1>3 DEF TotalsTrue
  <2>2. Bytes(W)' = Bytes(W)
    BY <1>2, BytesSame
  <2>3. ASSUME NEW r \in rows', r.batch = b
        PROVE  r.item \in W /\ Bytes(W) <= BatchMax
    <3>1. CASE r \in rows
      BY <2>1, <2>3, <3>1 DEF StartedWith
    <3>2. CASE r \notin rows
      <4>1. r = row /\ Acceptable(req)
        BY <1>1, <1>2, <2>3, <3>2
      <4>2. req.item \in W /\ req.total = Bytes(W) /\ req.total <= BatchMax
        BY <1>4, <2>1, <2>3, <4>1 DEF StartedWith, Acceptable
      <4> QED
        BY <1>4, <4>1, <4>2
    <3> QED
      BY <3>1, <3>2
  <2>4. StartedWith(b, W)'
    BY <1>2, <2>1, <2>2, <2>3 DEF StartedWith
  <2> QED
    BY <1>2, <2>4
<1> QED
  BY <1>5, <1>6, <1>7, <1>9, <1>10, <1>12, <1>13, <1>14 DEF IInv

\* The configuration changes nothing but what is valid from now on.
LEMMA ConfigKeeps ==
  ASSUME IInv, cfg' \in BOOLEAN,
         UNCHANGED <<items, queue, results, running, batch, pending, total,
                     awaited, shown, panel, server>>
  PROVE  IInv'
<1>1. UNCHANGED <<items, queue, results, running, batch, pending, total,
                  awaited, shown, panel, serving, reply, rows, lost, slips>>
  BY DEF server
<1>2. TypeOK' /\ IsFiniteSet(serving') /\ Sorted' /\ Compressing' /\ RunOfQueue'
  BY <1>1 DEF IInv, TypeOK, Sorted, Compressing, RunOfQueue
<1>3. SentOnce' /\ AnswerTrue' /\ LateWork' /\ RowsFresh'
  BY <1>1 DEF IInv, SentOnce, Fresh, AnswerTrue, LateWork, RowsFresh
<1>4. FewUnheard' /\ ResultsStored'
  <2>1. StraysIn(items, Late)' = StraysIn(items, Late)
    BY <1>1 DEF StraysIn, Late
  <2> QED
    BY <1>1, <2>1 DEF IInv, FewUnheard, ResultsStored
<1>5. TotalsTrue'
  <2> SUFFICES ASSUME NEW b \in 1 .. MaxRuns
               PROVE  \E W \in SUBSET DOMAIN items' : StartedWith(b, W)'
    BY DEF TotalsTrue
  <2>1. PICK W \in SUBSET DOMAIN items : StartedWith(b, W)
    BY DEF IInv, TotalsTrue
  <2>2. StartedWith(b, W)'
    BY <1>1, <2>1, BytesSame DEF StartedWith
  <2> QED
    BY <1>1, <2>2
<1> QED
  BY <1>2, <1>3, <1>4, <1>5 DEF IInv

LEMMA InitIInv == Init => IInv
<1> SUFFICES ASSUME Init PROVE IInv
  OBVIOUS
<1>1. /\ DOMAIN items = {} /\ ToSet(queue) = {} /\ ToSet(results) = {}
      /\ DOMAIN queue = {} /\ Len(items) = 0
  BY DEF Init, ToSet
<1>2. TypeOK
  <2>1. items \in Seq(Item) /\ queue \in Seq(DOMAIN items) /\ results \in Seq(Result)
    BY DEF Init
  <2>2. shown \in [rows : Seq(DOMAIN items), open : SUBSET Ids, canRun : BOOLEAN]
    BY DEF Init
  <2>3. /\ cfg \in BOOLEAN /\ running \in BOOLEAN /\ awaited = None
        /\ ~running /\ pending = {} /\ panel = None /\ serving = {} /\ rows = {}
        /\ reply = None /\ batch = 0 /\ total = 0
        /\ lost = 0 /\ slips = 0
    BY DEF Init
  <2>4. /\ 0 \in 0 .. MaxRuns /\ 0 \in Nat /\ 0 \in 0 .. MaxLost
        /\ 0 \in 0 .. MaxSlips /\ 0 <= MaxItems
    BY BoundsNatural
  <2> QED
    BY <1>1, <2>1, <2>2, <2>3, <2>4 DEF TypeOK
<1>3. IsFiniteSet(serving) /\ Cardinality(serving \ {awaited}) = 0
  <2>1. serving = {} /\ serving \ {awaited} = {}
    BY DEF Init
  <2> QED
    BY <2>1, FS_EmptySet
<1>4. Sorted /\ Compressing /\ RunOfQueue /\ SentOnce /\ AnswerTrue
  BY <1>1 DEF Sorted, Compressing, RunOfQueue, SentOnce, AnswerTrue, Init
<1>5. LateWork /\ FewUnheard /\ ResultsStored /\ RowsFresh
  <2>1. 0 <= lost /\ 0 <= lost + slips
    BY DEF Init
  <2>2. StraysIn(items, Late) = {}
    BY DEF StraysIn, Late, Init
  <2>3. Cardinality(StraysIn(items, Late)) = 0
    BY <2>2, FS_EmptySet
  <2> QED
    BY <1>1, <1>3, <2>1, <2>3 DEF LateWork, FewUnheard, ResultsStored, RowsFresh, Init
<1>6. TotalsTrue
  BY <1>1 DEF TotalsTrue, StartedWith, Init
<1> QED
  BY <1>2, <1>3, <1>4, <1>5, <1>6 DEF IInv

LEMMA NextIInv == IInv /\ [Next]_vars => IInv'
<1> SUFFICES ASSUME IInv, [Next]_vars PROVE IInv'
  OBVIOUS
<1>1. CASE ConfigArrives
  BY <1>1, ConfigKeeps DEF ConfigArrives
<1>2. ASSUME NEW f \in Files, AddFile(f) PROVE IInv'
  BY <1>2, AddKeeps
<1>3. ASSUME NEW f \in Files, RejectFile(f) PROVE IInv'
  BY <1>3, RejectKeeps
<1>4. ASSUME NEW k \in Ids, RemoveFile(k) PROVE IInv'
  BY <1>4, RemoveKeeps
<1>5. CASE Clear
  BY <1>5, ClearKeeps
<1>6. CASE Run
  BY <1>6, RunKeeps
<1>7. CASE Hear
  BY <1>7, HearKeeps
<1>8. ASSUME NEW reached \in BOOLEAN, AnswerLost(reached) PROVE IInv'
  BY <1>8, LostKeeps
<1>9. ASSUME NEW req \in serving, Serve(req) PROVE IInv'
  BY <1>9, ServeKeeps
<1>10. CASE UNCHANGED vars
  <2>1. UNCHANGED <<items, queue, results, running, batch, pending, total,
                    awaited, shown, panel, server>> /\ cfg' = cfg
    BY <1>10 DEF vars, page
  <2>2. cfg \in BOOLEAN
    BY DEF IInv, TypeOK
  <2> QED
    BY <2>1, <2>2, ConfigKeeps
<1> QED
  BY <1>1, <1>2, <1>3, <1>4, <1>5, <1>6, <1>7, <1>8, <1>9, <1>10 DEF Next

\* Every reachable state satisfies the invariant.
LEMMA SpecIInv == Init /\ [][Next]_vars => []IInv
BY InitIInv, NextIInv, PTL

\* The state keeps its types: what is queued is a file that was dropped, and a
\* request is of one of them.
THEOREM TypeCorrect == FairSpec => []TypeOK
<1>1. IInv => TypeOK
  BY DEF IInv
<1> QED
  BY <1>1, SpecIInv, PTL DEF FairSpec

\* For any files and limits, what the user can click is what there is: the
\* rows drawn, their remove links and the run button follow the queue through
\* every handler (renderQueue is called wherever the queue changes).
THEOREM TableFresh == FairSpec => []RowsFresh
<1>1. IInv => RowsFresh
  BY DEF IInv
<1> QED
  BY <1>1, SpecIInv, PTL DEF FairSpec

\* For any files and limits, and any number of lost answers and of files stored
\* but answered with an error, no file is stored twice by running again, the
\* results are files that are stored, and the page fails to know of, or exports
\* without showing, at most one file for each such answer (queue.js next,
\* api_batch).
THEOREM ResultsAreTrue == FairSpec => []ResultsTrue
<1>1. IInv => ResultsTrue
  <2> SUFFICES ASSUME IInv PROVE ResultsTrue
    OBVIOUS
  <2>1. running <=> awaited # None
    BY DEF IInv, TypeOK
  <2>2. \A r, s \in rows : r.item = s.item => r = s
    BY DEF IInv, SentOnce
  <2>3. Cardinality(Unheard) <= lost + slips
    <3>1. \A r \in Unheard : r.item \in StraysIn(items, Late)
      BY <2>1 DEF Unheard, StraysIn, Late
    <3>2. Unheard \in SUBSET rows
      BY DEF Unheard
    <3> QED
      BY <3>1, <3>2, FewRows
  <2>4. ExportShown
    <3> DEFINE R == {r \in rows : r.batch = panel.batch} \ ToSet(panel.results)
    <3> SUFFICES ASSUME panel # None, ~running
                 PROVE  Cardinality(R) <= lost + slips
      BY DEF ExportShown
    <3>1. \A r \in R : items[r.item].status # "Done"
      BY DEF IInv, FewUnheard
    <3>2. \A r \in R : r.item \in StraysIn(items, Late)
      BY <2>1, <3>1 DEF StraysIn, Late
    <3>3. R \in SUBSET rows
      OBVIOUS
    <3> QED
      BY <3>2, <3>3, FewRows
  <2> QED
    BY <2>2, <2>3, <2>4 DEF IInv, ResultsStored, ResultsTrue
<1> QED
  BY <1>1, SpecIInv, PTL DEF FairSpec

\* For any files and limits, the server works on one file and one more for each
\* lost answer, and what is stored under one batch id fits the batch limit,
\* although the total is the page's word (queue.js runQueue, size_error).
THEOREM LimitsAreKept == FairSpec => []LimitsKept
<1>1. IInv => LimitsKept
  <2> SUFFICES ASSUME IInv PROVE LimitsKept
    OBVIOUS
  <2>1. OneAtATime
    <3>1. /\ IsFiniteSet(serving) /\ lost \in Nat
          /\ Cardinality(serving \ {awaited}) <= lost
      BY BoundsNatural DEF IInv, TypeOK, LateWork
    <3>2. /\ Cardinality(serving) \in Nat
          /\ \/ Cardinality(serving \ {awaited}) = Cardinality(serving) - 1
             \/ Cardinality(serving \ {awaited}) = Cardinality(serving)
      BY <3>1, FS_CardinalityType, FS_RemoveElement
    <3> QED
      BY <3>1, <3>2 DEF OneAtATime
  <2>2. ASSUME NEW b \in 1 .. MaxRuns
        PROVE  Bytes({r.item : r \in {s \in rows : s.batch = b}}) <= BatchMax
    <3> DEFINE ids == {r.item : r \in {s \in rows : s.batch = b}}
    <3>1. PICK W \in SUBSET DOMAIN items : StartedWith(b, W)
      BY <2>2 DEF IInv, TotalsTrue
    <3>2. ids \subseteq W
      BY <3>1 DEF StartedWith
    <3>3. CASE ids = {}
      <4>1. {{i} \X (1 .. Size[items[i].file]) : i \in ids} = {}
        BY <3>3
      <4>2. UNION {{i} \X (1 .. Size[items[i].file]) : i \in ids} = {}
        BY <4>1
      <4> HIDE DEF ids
      <4>3. Bytes(ids) = 0
        BY <4>2, FS_EmptySet DEF Bytes
      <4> QED
        BY <4>3, BoundsNatural DEF ids
    <3>4. CASE ids # {}
      <4>1. Bytes(W) <= BatchMax
        BY <3>1, <3>4 DEF StartedWith
      <4> HIDE DEF ids
      <4>2. Bytes(ids) <= Bytes(W) /\ Bytes(ids) \in Nat /\ Bytes(W) \in Nat
        BY <3>2, BytesMonotone, BytesNat DEF IInv
      <4> QED
        BY <4>1, <4>2, BoundsNatural DEF ids
    <3> QED
      BY <3>3, <3>4
  <2> QED
    BY <2>1, <2>2 DEF LimitsKept, BatchWithinLimit
<1> QED
  BY <1>1, SpecIInv, PTL DEF FairSpec

=============================================================================
