-------------------------- MODULE Workspace_proofs --------------------------
(***************************************************************************)
(* What holds of the requests of Workspace whatever the texts, the names,  *)
(* the paths and the damage.                                               *)
(*                                                                         *)
(* The cache keeps to its bounds although threads race in _stash.  Tokens  *)
(* leave it oldest first, so it always holds an interval of tokens that    *)
(* ends with the newest, although a thread may hold on to a key that       *)
(* another has popped.  A thread that is going to evict saw more than      *)
(* MaxKeep entries when it decided to, and each takes one at most, so      *)
(* MaxKeep less the other threads always stay.                             *)
(* And a cache that is too full is always somebody's business: a thread is *)
(* about to check its size, or holds a size or a key that is still true.   *)
(*                                                                         *)
(* Verdicts are true and damage is refused, because damage leaves traces   *)
(* of what the file was: one cell at a time it never makes a digest, nor a *)
(* body where an envelope has a length or an archive its manifest.  So a   *)
(* file remains, under any number of damages, an envelope of its original  *)
(* (WrapShape), an archive of its items (PackShape) or a bare container    *)
(* whose original is the only one the history knows (BareShape, Knows).    *)
(*                                                                         *)
(* What was saved can be read: for one text the round trip before saving   *)
(* says so; for an archive it follows from how pack lays the payloads out  *)
(* (PackCells), which is where the recursive functions of the model must   *)
(* be unrolled (RecursionLemmas).                                          *)
(***************************************************************************)
EXTENDS Workspace, RecursionLemmas, FiniteSetTheorems

Evicting == {t \in Threads : pc[t] \in {"iter", "next", "pop"}}

\* A thread that will reduce the cache, or look at its size again.
Watching(t) == \/ pc[t] \in {"check", "iter"}
               \/ pc[t] = "next" /\ seen[t] = Cardinality(cache)
               \/ pc[t] = "pop" /\ seen[t] \in cache

Typed    == /\ last \in Nat
            /\ pc \in [Threads -> Pcs]
            /\ seen \in [Threads -> Nat \cup {None}]
Interval == \E low \in 0 .. last : cache = low + 1 .. last
Marked   == \A t \in Threads : pc[t] = "pop" =>
              seen[t] \in 1 .. last /\ \A j \in cache : seen[t] <= j
Enough   == \/ Evicting = {} /\ cache = 1 .. last
            \/ Cardinality(cache) - Cardinality(Evicting)
                 >= MaxKeep + 1 - Cardinality(Threads)
Watched  == Cardinality(cache) > MaxKeep => \E t \in Threads : Watching(t)

CInv == Typed /\ Interval /\ Marked /\ Enough /\ Watched

(***************************************************************************)
(* Counting                                                                *)
(***************************************************************************)
LEMMA KeepNumbers ==
  /\ Cardinality(Threads) \in Nat /\ MaxKeep \in Nat
  /\ MaxKeep >= Cardinality(Threads) /\ None \notin Nat
  BY ThreadsFinite, KeepNatural, KeepEnough, FS_CardinalityType

LEMMA IntervalSize ==
  ASSUME NEW l \in Nat, NEW low \in 0 .. l
  PROVE  Cardinality(low + 1 .. l) = l - low
<1>1. low + 1 \in Int /\ l \in Int
  OBVIOUS
<1>2. Cardinality(low + 1 .. l) = IF low + 1 > l THEN 0 ELSE l - (low + 1) + 1
  BY <1>1, FS_Interval
<1>3. (IF low + 1 > l THEN 0 ELSE l - (low + 1) + 1) = l - low
  OBVIOUS
<1>4. QED BY <1>2, <1>3

LEMMA ThreadCount ==
  ASSUME NEW S \in SUBSET Threads
  PROVE  /\ IsFiniteSet(S) /\ Cardinality(S) \in Nat
         /\ Cardinality(S) <= Cardinality(Threads)
  BY ThreadsFinite, FS_Subset, FS_CardinalityType

LEMMA EvictingCount ==
  /\ IsFiniteSet(Evicting) /\ Cardinality(Evicting) \in Nat
  /\ IsFiniteSet(Evicting') /\ Cardinality(Evicting') \in Nat
  /\ Cardinality(Evicting') <= Cardinality(Threads)
<1>1. Evicting \in SUBSET Threads /\ Evicting' \in SUBSET Threads
  BY DEF Evicting
<1>2. QED BY <1>1, ThreadCount

Moved(t, where) ==
  /\ pc' = [pc EXCEPT ![t] = where]
  /\ \A u \in Threads : u # t => seen'[u] = seen[u]

LEMMA EvictingMoved ==
  ASSUME Typed, NEW t \in Threads, NEW where, Moved(t, where)
  PROVE  Evicting' = IF where \in {"iter", "next", "pop"} THEN Evicting \cup {t}
                                                       ELSE Evicting \ {t}
  BY DEF Typed, Evicting, Moved

LEMMA RaiseMoves ==
  ASSUME Typed, NEW t \in Threads, Raise(t)
  PROVE  /\ Moved(t, "idle") /\ cache' = cache /\ last' = last
         /\ seen' \in [Threads -> Nat \cup {None}]
  BY DEF Typed, Raise, Goto, Moved

(***************************************************************************)
(* The steps of _stash                                                     *)
(***************************************************************************)

\* A thread moves without touching the cache: into the eviction only when
\* there are too many entries, and away from it only when its view is stale.
LEMMA CacheUntouched ==
  ASSUME CInv, NEW t \in Threads, NEW where \in Pcs, Moved(t, where),
         cache' = cache, last' = last, seen' \in [Threads -> Nat \cup {None}],
         where = "pop" => seen'[t] \in 1 .. last /\ \A j \in cache : seen'[t] <= j,
         where \in {"iter", "next", "pop"} =>
           t \in Evicting \/ Cardinality(cache) > MaxKeep,
         Watching(t) /\ Cardinality(cache) > MaxKeep => Watching(t)'
  PROVE  CInv'
<1>1. Typed' /\ Interval'
  BY DEF CInv, Typed, Interval, Moved
<1>2. Marked'
  BY DEF CInv, Typed, Marked, Moved
<1>3. PICK low \in 0 .. last : cache = low + 1 .. last
  BY DEF CInv, Interval
<1>4. last \in Nat /\ Cardinality(cache) = last - low
  BY <1>3, IntervalSize DEF CInv, Typed
<1>5. Enough'
  <2>1. CASE where \in {"iter", "next", "pop"}
    <3>1. Evicting' = Evicting \cup {t}
      BY <2>1, EvictingMoved DEF CInv
    <3>2. CASE t \in Evicting
      <4>1. Evicting' = Evicting
        BY <3>1, <3>2
      <4>2. QED BY <4>1 DEF CInv, Enough
    <3>3. CASE t \notin Evicting
      <4>1. Cardinality(cache) > MaxKeep
        BY <2>1, <3>3
      <4>2. Cardinality(cache) - Cardinality(Evicting') >= MaxKeep + 1 - Cardinality(Threads)
        BY <1>4, <4>1, EvictingCount, KeepNumbers
      <4>3. QED BY <4>2, <1>1 DEF Enough, Moved
    <3>4. QED BY <3>2, <3>3
  <2>2. CASE where \notin {"iter", "next", "pop"}
    <3>1. Evicting' = Evicting \ {t}
      BY <2>2, EvictingMoved DEF CInv
    <3>2. /\ Cardinality(Evicting') \in Nat /\ Cardinality(Evicting) \in Nat
          /\ Cardinality(Evicting') <= Cardinality(Evicting)
      BY <3>1, EvictingCount, FS_RemoveElement
    <3>3. CASE Evicting = {} /\ cache = 1 .. last
      BY <3>1, <3>3 DEF Enough
    <3>4. CASE Cardinality(cache) - Cardinality(Evicting)
                 >= MaxKeep + 1 - Cardinality(Threads)
      <4>1. Cardinality(cache) - Cardinality(Evicting')
              >= MaxKeep + 1 - Cardinality(Threads)
        BY <1>4, <3>2, <3>4, KeepNumbers
      <4>2. QED BY <4>1 DEF Enough
    <3>5. QED BY <3>3, <3>4 DEF CInv, Enough
  <2>3. QED BY <2>1, <2>2
<1>6. Watched'
  <2> SUFFICES ASSUME Cardinality(cache) > MaxKeep PROVE \E u \in Threads : Watching(u)'
    BY DEF Watched
  <2>1. PICK u \in Threads : Watching(u)
    BY DEF CInv, Watched
  <2>2. CASE u = t
    BY <2>1, <2>2
  <2>3. CASE u # t
    <3>1. pc'[u] = pc[u] /\ seen'[u] = seen[u]
      BY <2>3 DEF CInv, Typed, Moved
    <3>2. QED BY <2>1, <3>1 DEF Watching
  <2>4. QED BY <2>2, <2>3
<1>7. QED BY <1>1, <1>2, <1>5, <1>6 DEF CInv

LEMMA BeginKept ==
  ASSUME CInv, NEW t \in Threads, NEW n, Begin(t, n)
  PROVE  CInv'
<1>1. Moved(t, "insert") /\ cache' = cache /\ last' = last /\ seen' = seen
  BY DEF Begin, Goto, Moved
<1>2. ~Watching(t)
  BY DEF Begin, Watching
<1>3. "insert" \in Pcs /\ seen' \in [Threads -> Nat \cup {None}]
  BY <1>1 DEF Pcs, CInv, Typed
<1>4. QED BY <1>1, <1>2, <1>3, CacheUntouched

LEMMA InsertKept ==
  ASSUME CInv, NEW t \in Threads, Insert(t)
  PROVE  CInv'
<1>1. /\ Moved(t, "check") /\ cache' = cache \cup {last + 1} /\ last' = last + 1
      /\ seen' = seen /\ pc[t] = "insert"
  BY DEF Insert, Goto, Moved
<1>2. PICK low \in 0 .. last : cache = low + 1 .. last
  BY DEF CInv, Interval
<1>3. last \in Nat
  BY DEF CInv, Typed
<1>4. low \in 0 .. last' /\ cache' = low + 1 .. last'
  BY <1>1, <1>2, <1>3
<1>5. Typed' /\ Interval'
  BY <1>1, <1>3, <1>4 DEF CInv, Typed, Interval, Moved, Pcs
<1>6. Marked'
  <2> SUFFICES ASSUME NEW u \in Threads, pc'[u] = "pop"
               PROVE  seen[u] \in 1 .. last + 1 /\ \A j \in cache' : seen[u] <= j
    BY <1>1 DEF Marked
  <2>1. pc[u] = "pop"
    BY <1>1 DEF CInv, Typed, Moved
  <2>2. seen[u] \in 1 .. last /\ \A j \in cache : seen[u] <= j
    BY <2>1 DEF CInv, Marked
  <2>3. QED BY <1>1, <1>3, <2>2
<1>7. Evicting' = Evicting
  BY <1>1, EvictingMoved DEF CInv, Evicting
<1>8. Cardinality(cache) = last - low /\ Cardinality(cache') = (last + 1) - low
  <2>1. last + 1 \in Nat /\ low \in 0 .. last + 1
    BY <1>2, <1>3
  <2>2. Cardinality(low + 1 .. last) = last - low
    BY <1>2, <1>3, IntervalSize
  <2>3. Cardinality(low + 1 .. last + 1) = (last + 1) - low
    BY <2>1, IntervalSize
  <2>4. cache' = low + 1 .. last + 1
    BY <1>1, <1>4
  <2>5. Cardinality(cache') = (last + 1) - low
    BY <2>3, <2>4
  <2>6. Cardinality(cache) = last - low
    BY <1>2, <2>2
  <2>7. QED BY <2>5, <2>6
<1>9. Enough'
  <2>1. CASE Evicting = {} /\ cache = 1 .. last
    <3>1. cache' = 1 .. last'
      BY <1>1, <1>3, <2>1
    <3>2. QED BY <1>7, <2>1, <3>1 DEF Enough
  <2>2. CASE Cardinality(cache) - Cardinality(Evicting) >= MaxKeep + 1 - Cardinality(Threads)
    <3>1. Cardinality(cache') - Cardinality(Evicting) >= MaxKeep + 1 - Cardinality(Threads)
      BY <1>3, <1>8, <2>2, EvictingCount, KeepNumbers
    <3>2. QED BY <1>7, <3>1 DEF Enough
  <2>3. QED BY <2>1, <2>2 DEF CInv, Enough
<1>10. Watched'
  <2>1. Watching(t)'
    BY <1>1 DEF CInv, Typed, Moved, Watching
  <2>2. QED BY <2>1 DEF Watched
<1>11. QED BY <1>5, <1>6, <1>9, <1>10 DEF CInv

LEMMA CheckLenKept ==
  ASSUME CInv, NEW t \in Threads, CheckLen(t)
  PROVE  CInv'
<1>1. /\ cache' = cache /\ last' = last /\ seen' = seen /\ pc[t] = "check"
      /\ seen' \in [Threads -> Nat \cup {None}]
  BY DEF CheckLen, CInv, Typed
<1>2. CASE Cardinality(cache) > MaxKeep
  <2>1. Moved(t, "iter") /\ "iter" \in Pcs
    BY <1>2 DEF CheckLen, Goto, Moved, Pcs
  <2>2. Watching(t)'
    BY <2>1 DEF CInv, Typed, Moved, Watching
  <2>3. QED BY <1>1, <1>2, <2>1, <2>2, CacheUntouched
<1>3. CASE ~(Cardinality(cache) > MaxKeep)
  <2>1. PICK where \in {"insert", "answer"} : Moved(t, where)
    BY <1>3 DEF CheckLen, Goto, Moved
  <2>2. where \in Pcs
    BY DEF Pcs
  <2>3. QED BY <1>1, <1>3, <2>1, <2>2, CacheUntouched
<1>4. QED BY <1>2, <1>3

LEMMA IterateKept ==
  ASSUME CInv, NEW t \in Threads, Iterate(t)
  PROVE  CInv'
<1>1. PICK low \in 0 .. last : cache = low + 1 .. last
  BY DEF CInv, Interval
<1>2. Cardinality(cache) \in Nat
  BY <1>1, IntervalSize DEF CInv, Typed
<1>3. /\ Moved(t, "next") /\ cache' = cache /\ last' = last
      /\ seen' \in [Threads -> Nat \cup {None}] /\ "next" \in Pcs
      /\ t \in Evicting /\ seen'[t] = Cardinality(cache)
  BY <1>2 DEF CInv, Typed, Iterate, Goto, Moved, Pcs, Evicting
<1>4. Watching(t)'
  BY <1>3 DEF CInv, Typed, Moved, Watching
<1>5. QED BY <1>3, <1>4, CacheUntouched

LEMMA FirstKept ==
  ASSUME CInv, NEW t \in Threads, First(t)
  PROVE  CInv'
<1>0. t \in Evicting /\ pc[t] = "next"
  BY DEF First, Evicting
<1>1. CASE Cardinality(cache) = seen[t]
  <2>1. PICK low \in 0 .. last : cache = low + 1 .. last
    BY DEF CInv, Interval
  <2>2. last \in Nat /\ Cardinality(cache) = last - low
    BY <2>1, IntervalSize DEF CInv, Typed
  <2>3. Cardinality(Evicting) \in Nat /\ Cardinality(Evicting) > 0
    BY <1>0, EvictingCount, FS_EmptySet
  <2>4. Cardinality(cache) > 0
    BY <1>0, <2>2, <2>3, KeepNumbers DEF CInv, Enough
  <2>5. low + 1 \in cache /\ \A j \in cache : low + 1 <= j
    BY <2>1, <2>2, <2>4
  <2>6. Min(cache) = low + 1
    BY <2>1, <2>2, <2>5 DEF Min
  <2>7. /\ Moved(t, "pop") /\ cache' = cache /\ last' = last /\ "pop" \in Pcs
        /\ seen'[t] = low + 1 /\ seen' \in [Threads -> Nat \cup {None}]
    BY <1>1, <2>2, <2>6 DEF CInv, Typed, First, Goto, Moved, Pcs
  <2>8. Watching(t)'
    BY <2>5, <2>7 DEF CInv, Typed, Moved, Watching
  <2>9. low + 1 \in 1 .. last
    BY <2>1, <2>2, <2>5
  <2>10. QED BY <1>0, <2>5, <2>7, <2>8, <2>9, CacheUntouched
<1>2. CASE Cardinality(cache) # seen[t]
  <2>1. Raise(t)
    BY <1>2 DEF First
  <2>2. ~Watching(t) /\ "idle" \in Pcs
    BY <1>0, <1>2 DEF Watching, Pcs
  <2>3. QED BY <2>1, <2>2, RaiseMoves, CacheUntouched DEF CInv
<1>3. QED BY <1>1, <1>2

LEMMA PopKept ==
  ASSUME CInv, NEW t \in Threads, Pop(t)
  PROVE  CInv'
<1>0. t \in Evicting /\ pc[t] = "pop" /\ Typed
  BY DEF Pop, Evicting, CInv
<1>1. CASE seen[t] \in cache
  <2>1. PICK low \in 0 .. last : cache = low + 1 .. last
    BY DEF CInv, Interval
  <2>2. last \in Nat /\ Cardinality(cache) = last - low
    BY <2>1, IntervalSize DEF CInv, Typed
  <2>3. seen[t] = low + 1 /\ low + 1 \in 1 .. last
    <3>1. seen[t] \in low + 1 .. last /\ \A j \in low + 1 .. last : seen[t] <= j
      BY <1>0, <1>1, <2>1 DEF CInv, Marked
    <3>2. low + 1 \in low + 1 .. last
      BY <2>1, <2>2, <3>1
    <3>3. QED BY <2>1, <2>2, <3>1, <3>2
  <2>4. /\ Moved(t, "check") /\ cache' = cache \ {low + 1} /\ last' = last
        /\ seen' \in [Threads -> Nat \cup {None}]
    BY <1>1, <1>0, <2>3 DEF Typed, Pop, Goto, Moved
  <2>5. low + 1 \in 0 .. last /\ cache' = (low + 1) + 1 .. last
    BY <2>1, <2>2, <2>3, <2>4
  <2>6. Typed' /\ Interval'
    BY <1>0, <2>4, <2>5 DEF Typed, Interval, Moved, Pcs
  <2>7. Marked'
    <3> SUFFICES ASSUME NEW u \in Threads, pc'[u] = "pop"
                 PROVE  seen'[u] \in 1 .. last /\ \A j \in cache' : seen'[u] <= j
      BY <2>4 DEF Marked
    <3>1. pc[u] = "pop" /\ seen'[u] = seen[u]
      BY <1>0, <2>4 DEF Typed, Moved
    <3>2. QED BY <2>4, <3>1 DEF CInv, Marked
  <2>8. Evicting' = Evicting \ {t}
    BY <1>0, <2>4, EvictingMoved
  <2>9. Cardinality(cache') = last - (low + 1)
    BY <2>2, <2>5, IntervalSize
  <2>10. Cardinality(Evicting') = Cardinality(Evicting) - 1
         /\ Cardinality(Evicting) \in Nat
    BY <1>0, <2>8, EvictingCount, FS_RemoveElement
  <2>11. Cardinality(cache) - Cardinality(Evicting) >= MaxKeep + 1 - Cardinality(Threads)
    BY <1>0 DEF CInv, Enough
  <2>12. Enough'
    <3>1. Cardinality(cache') - Cardinality(Evicting') >= MaxKeep + 1 - Cardinality(Threads)
      BY <2>2, <2>9, <2>10, <2>11, KeepNumbers
    <3>2. QED BY <3>1 DEF Enough
  <2>13. Watched'
    <3>1. Watching(t)'
      BY <1>0, <2>4 DEF Typed, Moved, Watching
    <3>2. QED BY <3>1 DEF Watched
  <2>14. QED BY <2>6, <2>7, <2>12, <2>13 DEF CInv
<1>2. CASE seen[t] \notin cache
  <2>1. Raise(t)
    BY <1>2 DEF Pop
  <2>2. ~Watching(t) /\ "idle" \in Pcs
    BY <1>0, <1>2 DEF Watching, Pcs
  <2>3. QED BY <2>1, <2>2, RaiseMoves, CacheUntouched DEF CInv
<1>3. QED BY <1>1, <1>2

LEMMA AnswerKept ==
  ASSUME CInv, NEW t \in Threads, Answer(t)
  PROVE  CInv'
<1>1. Raise(t) /\ ~Watching(t) /\ "idle" \in Pcs
  BY DEF Answer, Watching, Pcs
<1>2. QED BY <1>1, RaiseMoves, CacheUntouched DEF CInv

(***************************************************************************)
(* The theorems                                                            *)
(***************************************************************************)
LEMMA CacheStarts == Init => CInv
<1> SUFFICES ASSUME Init PROVE CInv
  OBVIOUS
<1>1. Typed
  BY DEF Init, Typed, Pcs
<1>2. cache = 0 + 1 .. last /\ 0 \in 0 .. last /\ cache = 1 .. last /\ last = 0
  BY DEF Init
<1>3. Interval /\ Marked
  BY <1>2 DEF Interval, Marked, Init
<1>4. Evicting = {}
  BY DEF Init, Evicting
<1>5. Cardinality(cache) = 0
  BY <1>2, FS_EmptySet DEF Init
<1>6. Enough /\ Watched
  BY <1>2, <1>4, <1>5, KeepNumbers DEF Enough, Watched
<1>7. QED BY <1>1, <1>3, <1>6 DEF CInv

LEMMA CacheIdle ==
  ASSUME CInv, UNCHANGED vars
  PROVE  CInv'
<1>1. cache' = cache /\ last' = last /\ pc' = pc /\ seen' = seen
  BY DEF vars
<1>2. Evicting' = Evicting
  BY <1>1 DEF Evicting
<1>3. \A t \in Threads : Watching(t) => Watching(t)'
  BY <1>1 DEF Watching
<1>4. Typed' /\ Interval' /\ Marked'
  BY <1>1 DEF CInv, Typed, Interval, Marked
<1>5. Enough' /\ Watched'
  BY <1>1, <1>2, <1>3 DEF CInv, Enough, Watched
<1>6. QED BY <1>4, <1>5 DEF CInv

LEMMA CacheInvariance == WorkSpec => []CInv
<1>1. WorkInit => CInv
  BY CacheStarts DEF WorkInit
<1>2. ASSUME CInv, [WorkNext]_work PROVE CInv'
  <2>1. CASE UNCHANGED vars
    BY <1>2, <2>1, CacheIdle
  <2>2. ASSUME NEW t \in Threads, NEW n, Begin(t, n) PROVE CInv'
    BY <1>2, <2>2, BeginKept
  <2>3. ASSUME NEW t \in Threads, CacheStep(t) PROVE CInv'
    BY <1>2, <2>3, InsertKept, CheckLenKept, IterateKept, FirstKept, PopKept, AnswerKept
       DEF CacheStep, Evict
  <2>4. ASSUME NEW t \in Threads, NEW d, NEW n, NEW m, CompressText(t, d, n, m)
        PROVE  \E k : Begin(t, k)
    BY <2>4 DEF CompressText, Compress
  <2>5. ASSUME NEW t \in Threads, NEW m, CompressAgain(t, m) PROVE \E k : Begin(t, k)
    BY <2>5 DEF CompressAgain, Compress
  <2>6. ASSUME NEW t \in Threads, Decompress(t) \/ DecompressBatch(t) PROVE \E k : Begin(t, k)
    BY <2>6 DEF Decompress, DecompressBatch, Record
  <2>7. ASSUME NEW t \in Threads, NEW items, CreateArchive(t, items) PROVE \E k : Begin(t, k)
    BY <2>7 DEF CreateArchive
  <2>8. ASSUME NEW t \in Threads, ExtractArchive(t) PROVE \E k : Begin(t, k)
    BY <2>8 DEF ExtractArchive
  <2>9. ASSUME NEW d, NEW m, NEW known, Import(d, m, known) PROVE UNCHANGED vars
    BY <2>9 DEF Import
  <2>10. ASSUME NEW c, Damage(c) PROVE UNCHANGED vars
    BY <2>10 DEF Damage
  <2>11. UNCHANGED work => UNCHANGED vars
    BY DEF work
  <2>12. QED BY <1>2, <2>1, <2>2, <2>3, <2>4, <2>5, <2>6, <2>7, <2>8, <2>9, <2>10, <2>11
             DEF WorkNext
<1>3. QED BY <1>1, <1>2, PTL DEF WorkSpec

\* However many threads race in _stash, a cache nobody is working on holds at
\* most MAX_KEEP results, and the newest MAX_KEEP less the other threads are
\* there to be downloaded.
THEOREM CacheSafe == WorkSpec => []CacheKept
<1>1. CInv => CacheKept
  <2> SUFFICES ASSUME CInv PROVE CacheBounded /\ RecentKept
    BY DEF CacheKept
  <2>1. PICK low \in 0 .. last : cache = low + 1 .. last
    BY DEF CInv, Interval
  <2>2. last \in Nat /\ Cardinality(cache) = last - low
    BY <2>1, IntervalSize DEF CInv, Typed
  <2>3. CacheBounded
    BY <2>2, KeepNumbers DEF CInv, Watched, Watching, CacheBounded
  <2>4. ASSUME NEW k \in 1 .. last, k > last - (MaxKeep - (Cardinality(Threads) - 1))
        PROVE  k \in cache
    <3>1. Cardinality(Evicting) \in Nat
      BY EvictingCount
    <3>2. CASE cache = 1 .. last
      BY <3>2
    <3>3. CASE Cardinality(cache) - Cardinality(Evicting)
                 >= MaxKeep + 1 - Cardinality(Threads)
      BY <2>1, <2>2, <2>4, <3>1, <3>3, KeepNumbers
    <3>4. QED BY <3>2, <3>3 DEF CInv, Enough
  <2>5. QED BY <2>3, <2>4 DEF RecentKept
<1>2. QED BY <1>1, CacheInvariance, PTL

\* A container the engine restores has the length its header declares.
LEMMA InnerLength ==
  ASSUME NEW c, Inner(c) # Refused
  PROVE  Size(Inner(c)) = c[2].n
<1>1. CASE c[2].n = Size(c[3].of) /\ (c[1] \in Plain \/ Len(c) = 3)
  BY <1>1 DEF Inner
<1>2. CASE ~(c[2].n = Size(c[3].of) /\ (c[1] \in Plain \/ Len(c) = 3))
  <2>1. Inner(c) = Garbled(c[2].n)
    BY <1>2 DEF Inner
  <2>2. QED BY <2>1 DEF Garbled, Text, Size
<1>3. QED BY <1>1, <1>2

\* Whatever container an account holds, /api/decompress, which asks for the
\* declared length as well, gives it the verdict of the batch page.
THEOREM VerdictsAgree == WorkSpec => []PathsAgree
<1>1. ASSUME NEW c, Restored(c) # Refused PROVE VerifiedByApi(c) = VerifiedByBatch(c)
  <2>1. CASE c # <<>> /\ c[1] = Tag("AFC5")
    BY <2>1 DEF VerifiedByApi, VerifiedByBatch, Declared, MatchesDigest
  <2>2. CASE ~(c # <<>> /\ c[1] = Tag("AFC5"))
    <3>1. Restored(c) = Inner(c)
      BY <2>2 DEF Restored, Leading, Junk, Tag
    <3>2. Size(Restored(c)) = c[2].n
      BY <1>1, <3>1, InnerLength
    <3>3. c[1] # Tag("AFC5")
      BY <1>1, <2>2, <3>1 DEF Inner
    <3>4. QED BY <3>2, <3>3 DEF VerifiedByApi, VerifiedByBatch, Declared, MatchesDigest
  <2>3. QED BY <2>1, <2>2
<1>2. PathsAgree
  BY <1>1 DEF PathsAgree
<1>3. QED BY <1>2, PTL

(***************************************************************************)
(* Names, paths and cells                                                  *)
(***************************************************************************)

\* Without, as a sequence of longer and longer sequences.
LEMMA Withheld ==
  ASSUME NEW S, NEW s \in Seq(S), NEW drop
  PROVE  \E f \in [0 .. Len(s) -> Seq(S)] :
           /\ f[0] = <<>>
           /\ \A i \in 1 .. Len(s) :
                /\ s[i] \in drop => f[i] = f[i - 1]
                /\ s[i] \notin drop => f[i] = Append(f[i - 1], s[i])
           /\ Without(s, drop) = f[Len(s)]
<1> DEFINE n == Len(s)
           Rule(k) == [i \in 0 .. n |->
                         IF i = 0 THEN <<>>
                         ELSE IF s[i] \in drop THEN k[i - 1] ELSE Append(k[i - 1], s[i])]
           keep == CHOOSE k : k = Rule(k)
           step == [i \in 1 .. n |-> [q \in Seq(S) |->
                     IF s[i] \in drop THEN q ELSE Append(q, s[i])]]
<1>1. n \in Nat /\ \A i \in 1 .. n : s[i] \in S
  OBVIOUS
<1>2. Without(s, drop) = keep[n]
  BY DEF Without
<1> HIDE DEF n
<1>3. PICK f \in [0 .. n -> Seq(S)] :
        f[0] = <<>> /\ \A i \in 1 .. n : f[i] = step[i][f[i - 1]]
  <2> DEFINE T == Seq(S)
             a == <<>>
  <2>1. n \in Nat /\ a \in T /\ step \in [1 .. n -> [T -> T]]
    BY <1>1
  <2> HIDE DEF step, T, a
  <2>2. Recursive(T, a, n, step)
    BY <2>1, Recursion
  <2> QED BY <2>2 DEF T, a, Recursive
<1>4. \A i \in 1 .. n : f[i] = IF s[i] \in drop THEN f[i - 1] ELSE Append(f[i - 1], s[i])
  <2>1. \A i \in 1 .. n : i - 1 \in 0 .. n
    BY <1>1
  <2>2. \A i \in 1 .. n : f[i - 1] \in Seq(S)
    BY <2>1
  <2> QED BY <1>3, <2>2
<1> HIDE DEF step
<1>5. f = Rule(f)
  <2>1. ASSUME NEW i \in 0 .. n PROVE f[i] = Rule(f)[i]
    <3>1. CASE i = 0
      BY <1>3, <3>1
    <3>2. CASE i # 0
      <4>1. i \in 1 .. n
        BY <1>1, <3>2
      <4>2. Rule(f)[i] = IF s[i] \in drop THEN f[i - 1] ELSE Append(f[i - 1], s[i])
        BY <3>2
      <4> QED BY <1>4, <4>1, <4>2
    <3> QED BY <3>1, <3>2
  <2> HIDE DEF Rule
  <2>2. Rule(f) = [i \in 0 .. n |-> Rule(f)[i]]
    BY DEF Rule
  <2> QED BY <2>1, <2>2
<1>6. keep = Rule(keep)
  <2> HIDE DEF Rule
  <2> QED BY <1>5
<1>7. /\ keep[0] = <<>>
      /\ \A i \in 1 .. n : keep[i] = IF s[i] \in drop THEN keep[i - 1]
                                                      ELSE Append(keep[i - 1], s[i])
  <2> HIDE DEF keep
  <2>1. 0 \in 0 .. n /\ \A i \in 1 .. n : i \in 0 .. n /\ i # 0
    BY <1>1
  <2> QED BY <1>6, <2>1
<1> HIDE DEF keep
<1> DEFINE E == {k \in Nat : k <= n => keep[k] = f[k]}
<1>8. 0 \in E
  BY <1>3, <1>7
<1>9. ASSUME NEW k \in Nat, k \in E PROVE k + 1 \in E
  <2> SUFFICES ASSUME k + 1 <= n PROVE keep[k + 1] = f[k + 1]
    OBVIOUS
  <2>1. k + 1 \in 1 .. n /\ (k + 1) - 1 = k /\ k <= n
    BY <1>1
  <2> QED BY <1>4, <1>7, <1>9, <2>1
<1>10. Nat \subseteq E
  <2> HIDE DEF E
  <2> QED BY <1>8, <1>9, Induction
<1>11. keep[n] = f[n]
  <2>1. n \in E
    <3> HIDE DEF E
    <3> QED BY <1>1, <1>10
  <2> QED BY <1>1, <2>1
<1> QED BY <1>2, <1>3, <1>4, <1>11 DEF n

LEMMA WithoutType ==
  ASSUME NEW S, NEW s \in Seq(S), NEW drop
  PROVE  /\ Without(s, drop) \in Seq(S \ drop)
         /\ (\A i \in 1 .. Len(s) : s[i] \notin drop) => Without(s, drop) = s
<1> DEFINE n == Len(s)
<1>1. n \in Nat /\ \A i \in 1 .. n : s[i] \in S
  OBVIOUS
<1>2. PICK f \in [0 .. n -> Seq(S)] :
        /\ f[0] = <<>>
        /\ \A i \in 1 .. n : /\ s[i] \in drop => f[i] = f[i - 1]
                             /\ s[i] \notin drop => f[i] = Append(f[i - 1], s[i])
        /\ Without(s, drop) = f[n]
  BY Withheld
<1> HIDE DEF n
<1> DEFINE E == {k \in Nat : k <= n => f[k] \in Seq(S \ drop)}
<1>3. 0 \in E
  <2>1. <<>> \in Seq(S \ drop)
    BY EmptySeq
  <2> QED BY <1>2, <2>1
<1>4. ASSUME NEW k \in Nat, k \in E PROVE k + 1 \in E
  <2> SUFFICES ASSUME k + 1 <= n PROVE f[k + 1] \in Seq(S \ drop)
    OBVIOUS
  <2>1. k + 1 \in 1 .. n /\ (k + 1) - 1 = k /\ k <= n
    BY <1>1
  <2>2. f[k] \in Seq(S \ drop) /\ s[k + 1] \in S
    BY <1>1, <1>4, <2>1
  <2>3. CASE s[k + 1] \in drop
    BY <1>2, <2>1, <2>2, <2>3
  <2>4. CASE s[k + 1] \notin drop
    <3>1. f[k + 1] = Append(f[k], s[k + 1])
      BY <1>2, <2>1, <2>4
    <3>2. s[k + 1] \in S \ drop
      BY <2>2, <2>4
    <3> QED BY <2>2, <3>1, <3>2, AppendProperties
  <2> QED BY <2>3, <2>4
<1>5. Nat \subseteq E
  <2> HIDE DEF E
  <2> QED BY <1>3, <1>4, Induction
<1>6. Without(s, drop) \in Seq(S \ drop)
  <2>1. n \in E
    <3> HIDE DEF E
    <3> QED BY <1>1, <1>5
  <2> QED BY <1>1, <1>2, <2>1
<1> HIDE DEF E
<1>7. ASSUME \A i \in 1 .. n : s[i] \notin drop PROVE Without(s, drop) = s
  <2> DEFINE Same(q, k) == Len(q) = k /\ \A i \in 1 .. k : q[i] = s[i]
             F == {k \in Nat : k <= n => Same(f[k], k)}
  <2>1. 0 \in F
    <3>1. Len(<<>>) = 0
      OBVIOUS
    <3>2. Same(<<>>, 0)
      BY <3>1
    <3> QED BY <1>2, <3>2
  <2>2. ASSUME NEW k \in Nat, k \in F PROVE k + 1 \in F
    <3> HIDE DEF Same
    <3> SUFFICES ASSUME k + 1 <= n PROVE Same(f[k + 1], k + 1)
      OBVIOUS
    <3>1. k + 1 \in 1 .. n /\ (k + 1) - 1 = k /\ k <= n /\ k \in 0 .. n
      BY <1>1
    <3>2. f[k + 1] = Append(f[k], s[k + 1]) /\ s[k + 1] \in S /\ f[k] \in Seq(S)
      BY <1>1, <1>2, <1>7, <3>1
    <3>3. Same(f[k], k)
      BY <2>2, <3>1
    <3> DEFINE q == f[k]
               x == s[k + 1]
    <3> HIDE DEF q, x
    <3>4. /\ Len(Append(q, x)) = Len(q) + 1 /\ Append(q, x)[Len(q) + 1] = x
          /\ \A i \in 1 .. Len(q) : Append(q, x)[i] = q[i]
      BY <3>2, AppendProperties DEF q, x
    <3>5. Len(q) = k /\ \A i \in 1 .. k : q[i] = s[i]
      BY <3>3 DEF q, Same
    <3>6. Len(Append(q, x)) = k + 1 /\ Append(q, x)[k + 1] = s[k + 1]
      BY <3>4, <3>5 DEF x
    <3>7. \A i \in 1 .. k + 1 : i = k + 1 \/ i \in 1 .. k
      OBVIOUS
    <3>8. \A i \in 1 .. k + 1 : Append(q, x)[i] = s[i]
      BY <3>4, <3>5, <3>6, <3>7
    <3> QED BY <3>2, <3>6, <3>8 DEF q, x, Same
  <2>3. Nat \subseteq F
    <3> HIDE DEF F
    <3> QED BY <2>1, <2>2, Induction
  <2> HIDE DEF Same
  <2>4. Same(f[n], n)
    <3>1. n \in F
      <4> HIDE DEF F
      <4> QED BY <1>1, <2>3
    <3> QED BY <1>1, <3>1
  <2>5. f[n] \in Seq(S)
    BY <1>1
  <2> QED BY <1>2, <2>4, <2>5, SeqEqual DEF Same, n
<1> QED BY <1>6, <1>7 DEF n

LEMMA Part ==
  ASSUME NEW S, NEW s \in Seq(S), NEW i \in Nat \ {0}, NEW j \in 0 .. Len(s)
  PROVE  SubSeq(s, i, j) \in Seq(S)
<1>1. i \in Int /\ j \in Int /\ Len(s) \in Nat
  OBVIOUS
<1>2. \A k \in i .. j : k \in 1 .. Len(s)
  BY <1>1
<1>3. \A k \in i .. j : s[k] \in S
  BY <1>2, ElementOfSeq
<1> QED BY <1>1, <1>3, SubSeqProperties

LEMMA BasenameType ==
  ASSUME NEW S, NEW s \in Seq(S)
  PROVE  Basename(s) \in Seq(S)
<1> DEFINE n == Len(s)
           cuts == {i \in DOMAIN s : s[i] = "/"}
<1>1. n \in Nat /\ DOMAIN s = 1 .. n /\ n \in 0 .. n
  OBVIOUS
<1>2. CASE cuts = {}
  BY <1>2 DEF Basename
<1>3. CASE cuts # {}
  <2>1. cuts \in SUBSET (0 .. n) /\ cuts \in SUBSET (1 .. n)
    BY <1>1
  <2> DEFINE cut == CHOOSE i \in cuts : \A j \in cuts : j <= i
  <2>2. Basename(s) = From(s, 1 + cut)
    BY <1>3 DEF Basename
  <2> HIDE DEF cuts, n
  <2>3. cut \in cuts
    BY <1>1, <1>3, <2>1, GreatestNumber
  <2> HIDE DEF cut
  <2>4. 1 + cut \in Nat \ {0}
    <3>1. cut \in 1 .. n
      BY <2>1, <2>3
    <3> QED BY <1>1, <3>1
  <2>5. SubSeq(s, 1 + cut, Len(s)) \in Seq(S)
    BY <1>1, <2>4, Part DEF n
  <2> QED BY <2>2, <2>5 DEF From
<1> QED BY <1>2, <1>3

LEMMA StripType ==
  ASSUME NEW S, NEW s \in Seq(S)
  PROVE  Strip(s) \in Seq(S)
<1> DEFINE n == Len(s)
           ink == {i \in DOMAIN s : s[i] # " "}
<1>1. n \in Nat /\ DOMAIN s = 1 .. n /\ <<>> \in Seq(S)
  OBVIOUS
<1>2. CASE ink = {}
  BY <1>1, <1>2 DEF Strip
<1>3. CASE ink # {}
  <2>0. ink \in SUBSET (1 .. n)
    BY <1>1
  <2>1. ink \in SUBSET (0 .. n) /\ ink \in SUBSET Nat /\ ink \in SUBSET (1 .. n)
    <3> HIDE DEF ink, n
    <3> QED BY <1>1, <2>0
  <2> DEFINE low == CHOOSE i \in ink : \A j \in ink : i <= j
             high == CHOOSE i \in ink : \A j \in ink : j <= i
  <2>2. Strip(s) = SubSeq(s, low, high)
    BY <1>3 DEF Strip
  <2> HIDE DEF ink, n
  <2>3. low \in ink
    BY <1>3, <2>1, LeastNumber
  <2>4. high \in ink
    BY <1>1, <1>3, <2>1, GreatestNumber
  <2> HIDE DEF low, high
  <2>5. low \in Nat \ {0} /\ high \in 0 .. n
    BY <1>1, <2>1, <2>3, <2>4
  <2> QED BY <2>2, <2>5, Part DEF n
<1> QED BY <1>2, <1>3

Octets(S) == {Chr(x) : x \in S \cup {"u1", "u2"}}

LEMMA Utf8Type ==
  ASSUME NEW S, NEW name \in Seq(S)
  PROVE  Utf8(name) \in Seq(Octets(S)) /\ (name = <<>> => Utf8(name) = <<>>)
<1> DEFINE n == Len(name)
           O == Octets(S)
           ss == [i \in DOMAIN name |->
                    IF name[i] = "u" THEN <<Chr("u1"), Chr("u2")>> ELSE <<Chr(name[i])>>]
<1>1. n \in Nat /\ DOMAIN name = 1 .. n /\ \A i \in 1 .. n : name[i] \in S
  OBVIOUS
<1>2. Utf8(name) = FlattenSeq(ss)
  BY DEF Utf8
<1>3. Chr("u1") \in O /\ Chr("u2") \in O /\ \A x \in S : Chr(x) \in O
  BY DEF Octets
<1> HIDE DEF O, n
<1>4. <<Chr("u1"), Chr("u2")>> \in Seq(O) /\ \A x \in S : <<Chr(x)>> \in Seq(O)
  BY <1>3
<1>5. ss \in [1 .. n -> Seq(O)]
  BY <1>1, <1>4
<1> HIDE DEF ss
<1>6. ss \in Seq(Seq(O)) /\ Len(ss) = n
  BY <1>1, <1>5
<1>7. PICK f \in [0 .. Len(ss) -> Seq(O)] : f[0] = <<>> /\ FlattenSeq(ss) = f[Len(ss)]
  BY <1>6, Flattened
<1>8. FlattenSeq(ss) \in Seq(O)
  BY <1>1, <1>6, <1>7
<1>9. name = <<>> => n = 0
  BY DEF n
<1> QED BY <1>2, <1>6, <1>7, <1>8, <1>9 DEF O

\* safe_name answers with a name.
LEMMA SafeNameType ==
  ASSUME NEW S, NEW s \in Seq(S)
  PROVE  SafeName(s) \in Seq(S)
<1> DEFINE clean == Without(Strip(Basename(s)), {"^"})
           n == Len(clean)
           fits == {k \in 0 .. n : Len(Utf8(SubSeq(clean, 1, k))) <= MaxName}
           cut == CHOOSE k \in fits : \A j \in fits : j <= k
<1>1. SafeName(s) = SubSeq(clean, 1, cut)
  BY DEF SafeName
<1>2. clean \in Seq(S)
  <2>1. Strip(Basename(s)) \in Seq(S)
    BY BasenameType, StripType
  <2>2. clean \in Seq(S \ {"^"})
    <3> DEFINE q == Strip(Basename(s))
    <3> HIDE DEF q
    <3>1. Without(q, {"^"}) \in Seq(S \ {"^"})
      BY <2>1, WithoutType DEF q
    <3> QED BY <3>1 DEF q
  <2> HIDE DEF clean
  <2> QED BY <2>2, SeqMonotonic
<1> HIDE DEF clean
<1>3. n \in Nat
  BY <1>2
<1>4. 0 \in fits
  <2>1. 1 \in Int /\ 0 \in Int /\ 0 < 1 /\ <<>> \in Seq(S)
    OBVIOUS
  <2>2. SubSeq(clean, 1, 0) = <<>>
    BY <2>1, SubSeqEmpty
  <2>3. Utf8(<<>>) = <<>>
    BY <2>1, Utf8Type
  <2>4. Len(Utf8(SubSeq(clean, 1, 0))) = 0
    BY <2>2, <2>3, EmptySeq
  <2> HIDE DEF n
  <2> QED BY <1>3, <2>4, NameBytes
<1>5. fits \in SUBSET (0 .. n) /\ fits # {}
  BY <1>4
<1>6. cut \in fits
  <2> HIDE DEF fits, n
  <2> QED BY <1>3, <1>5, GreatestNumber
<1>7. cut \in 0 .. n
  <2> HIDE DEF fits
  <2> QED BY <1>5, <1>6
<1> HIDE DEF cut
<1> QED BY <1>1, <1>2, <1>7, Part

IsSeq(c) == Len(c) \in Nat /\ c = [i \in 1 .. Len(c) |-> c[i]]

LEMMA SeqIsSeq ==
  ASSUME NEW S, NEW c \in Seq(S)
  PROVE  IsSeq(c)
<1>1. Len(c) \in Nat /\ c \in [1 .. Len(c) -> S]
  BY LenProperties
<1> QED BY <1>1 DEF IsSeq

LEMMA IsSeqSeq ==
  ASSUME NEW c, IsSeq(c)
  PROVE  /\ c \in Seq({c[i] : i \in 1 .. Len(c)})
         /\ Len(c) \in Nat /\ DOMAIN c = 1 .. Len(c)
<1> DEFINE n == Len(c)
           S == {c[i] : i \in 1 .. Len(c)}
<1>1. n \in Nat /\ c = [i \in 1 .. n |-> c[i]]
  BY DEF IsSeq
<1>2. \A i \in 1 .. n : c[i] \in S
  OBVIOUS
<1> HIDE DEF S, n
<1>3. c \in [1 .. n -> S]
  BY <1>1, <1>2
<1>4. c \in Seq(S)
  BY <1>1, <1>3, SeqDef
<1> QED BY <1>1, <1>4 DEF n, S

\* What wrap writes before the name and the payload.
LEMMA WrapCells ==
  ASSUME NEW S, NEW filename \in Seq(S), NEW data, NEW magic,
         NEW f, f = Wrap(data, Payload(magic, data), filename)
  PROVE  /\ f = File(f.cells) /\ IsSeq(f.cells) /\ Len(f.cells) >= 8
         /\ f.cells[1] = Tag("AFC5") /\ f.cells[3].t = "num" /\ f.cells[7] = Sha(data)
         /\ f.cells[6].n \in Nat
<1> DEFINE payload == Payload(magic, data)
           name == Utf8(SafeName(filename))
           x1 == Tag("AFC5")
           x2 == Num(1)
           x3 == Num(IF name = <<>> THEN 0 ELSE 1)
           x4 == Num(Size(data))
           x5 == Num(Len(payload))
           x6 == Num(Len(name))
           x7 == Sha(data)
           x8 == Sha(payload)
           head == <<x1, x2, x3, x4, x5, x6, x7, x8>>
           K == {x1, x2, x3, x4, x5, x6, x7, x8} \cup Octets(S)
                  \cup {magic, Num(Size(data)), Body(data)}
<1>1. f = File((head \o name) \o payload)
  BY DEF Wrap
<1>2. name \in Seq(Octets(S))
  BY SafeNameType, Utf8Type
<1>3. payload \in Seq({magic, Num(Size(data)), Body(data)})
  BY DEF Payload
<1>4. x3.t = "num"
  BY DEF Num
<1> HIDE DEF name, payload, x1, x2, x3, x4, x5, x6, x7, x8
<1>5. name \in Seq(K) /\ payload \in Seq(K)
  BY <1>2, <1>3, SeqMonotonic
<1>6. /\ head \in Seq(K) /\ Len(head) = 8 /\ head[1] = x1 /\ head[3] = x3 /\ head[7] = x7
      /\ head[6] = x6
  <2> DEFINE K8 == {x1, x2, x3, x4, x5, x6, x7, x8}
  <2>1. head \in Seq(K8)
    OBVIOUS
  <2> HIDE DEF K8
  <2>2. K8 \subseteq K
    BY DEF K8
  <2> HIDE DEF K
  <2>3. head \in Seq(K)
    <3> HIDE DEF head
    <3> QED BY <2>1, <2>2, SeqMonotonic
  <2> QED BY <2>3
<1> HIDE DEF head, K
<1> DEFINE q == head \o name
           c == q \o payload
<1>7. /\ q \in Seq(K) /\ Len(name) \in Nat /\ Len(q) = 8 + Len(name)
      /\ \A i \in 1 .. 8 + Len(name) : q[i] = IF i <= 8 THEN head[i] ELSE name[i - 8]
  <2>1. /\ head \o name \in Seq(K) /\ Len(head \o name) = Len(head) + Len(name)
        /\ \A i \in 1 .. Len(head) + Len(name) :
             (head \o name)[i] = IF i <= Len(head) THEN head[i] ELSE name[i - Len(head)]
    BY <1>5, <1>6, ConcatProperties
  <2>2. Len(name) \in Nat
    BY <1>5, LenProperties
  <2> QED BY <1>6, <2>1, <2>2
<1> HIDE DEF q
<1>8. /\ c \in Seq(K) /\ Len(payload) \in Nat /\ Len(c) = Len(q) + Len(payload)
      /\ \A i \in 1 .. Len(q) + Len(payload) :
           c[i] = IF i <= Len(q) THEN q[i] ELSE payload[i - Len(q)]
  <2>1. Len(payload) \in Nat
    BY <1>5, LenProperties
  <2>2. /\ q \o payload \in Seq(K) /\ Len(q \o payload) = Len(q) + Len(payload)
        /\ \A i \in 1 .. Len(q) + Len(payload) :
             (q \o payload)[i] = IF i <= Len(q) THEN q[i] ELSE payload[i - Len(q)]
    BY <1>5, <1>7, ConcatProperties
  <2> QED BY <2>1, <2>2
<1> HIDE DEF c
<1>9. \A i \in 1 .. 8 : c[i] = head[i]
  <2>1. \A i \in 1 .. 8 : i \in 1 .. Len(q) + Len(payload) /\ i <= Len(q)
                          /\ i \in 1 .. 8 + Len(name) /\ i <= 8
    BY <1>7, <1>8
  <2> QED BY SMTT(30), <1>7, <1>8, <2>1
<1>10. c[1] = x1 /\ c[3] = x3 /\ c[7] = x7 /\ c[6] = x6
  BY <1>6, <1>9
<1>14. x6.n \in Nat
  BY <1>7 DEF x6, Num
<1>11. Len(c) >= 8
  BY <1>7, <1>8
<1>12. f = File(c) /\ f.cells = c
  BY <1>1 DEF File, c, q
<1>13. IsSeq(c)
  BY <1>8, SeqIsSeq
<1> QED BY <1>4, <1>10, <1>11, <1>12, <1>13, <1>14 DEF x1, x7

(***************************************************************************)
(* Damage                                                                  *)
(***************************************************************************)

\* The ways to damage a file.
LEMMA DamageCases ==
  ASSUME NEW c, NEW d \in Damaged(c)
  PROVE  \/ \E k \in 0 .. Len(c) - 1 : d = SubSeq(c, 1, k)
         \/ d = Append(c, Junk)
         \/ \E j \in DOMAIN c : \E x \in Altered(c[j]) \cup {Junk} : d = [c EXCEPT ![j] = x]
         \/ /\ Len(c) > 5 /\ c[6].t = "num"
            /\ \E x : d = [c EXCEPT ![5] = x, ![6] = Num(c[6].n + 1)]
<1> DEFINE Cuts == {SubSeq(c, 1, k) : k \in 0 .. Len(c) - 1}
           Changes == UNION {{[c EXCEPT ![i] = x] : x \in Altered(c[i]) \cup {Junk}} :
                             i \in DOMAIN c}
           Shifts == IF Len(c) > 5 /\ c[5].t = "num" /\ c[6].t = "num" /\ c[5].n > 0
                       THEN {[c EXCEPT ![5] = Num(@.n - 1), ![6] = Num(@.n + 1)]} ELSE {}
<1>1. d \in Shifts
        => /\ Len(c) > 5 /\ c[6].t = "num"
           /\ d = [c EXCEPT ![5] = Num(c[5].n - 1), ![6] = Num(c[6].n + 1)]
  OBVIOUS
<1>2. d \in Shifts => /\ Len(c) > 5 /\ c[6].t = "num"
                      /\ \E x : d = [c EXCEPT ![5] = x, ![6] = Num(c[6].n + 1)]
  <2> HIDE DEF Shifts
  <2> QED BY <1>1
<1>3. d \in Changes => \E j \in DOMAIN c : \E x \in Altered(c[j]) \cup {Junk} :
                          d = [c EXCEPT ![j] = x]
  OBVIOUS
<1>4. d \in Cuts => \E k \in 0 .. Len(c) - 1 : d = SubSeq(c, 1, k)
  OBVIOUS
<1>5. d \in Cuts \cup {Append(c, Junk)} \cup Changes \cup Shifts
  BY DEF Damaged
<1> HIDE DEF Cuts, Changes, Shifts
<1> QED BY <1>2, <1>3, <1>4, <1>5

\* Every cell of a damaged file but the two lengths is the one that was there,
\* what became of it, or junk.
LEMMA DamagedCells ==
  ASSUME NEW c, IsSeq(c), NEW d \in Damaged(c)
  PROVE  /\ IsSeq(d)
         /\ \A i \in 1 .. Len(d) : i \notin {5, 6} =>
              \/ d[i] = Junk
              \/ i \in 1 .. Len(c) /\ (d[i] = c[i] \/ d[i] \in Altered(c[i]))
<1> DEFINE S == {c[i] : i \in 1 .. Len(c)}
           n == Len(c)
           Kin(e) == \A i \in 1 .. Len(e) : i \notin {5, 6} =>
                       \/ e[i] = Junk
                       \/ i \in 1 .. n /\ (e[i] = c[i] \/ e[i] \in Altered(c[i]))
<1>1. c \in Seq(S) /\ n \in Nat /\ DOMAIN c = 1 .. n
  BY IsSeqSeq
<1> HIDE DEF S
<1>2. ASSUME NEW k \in 0 .. Len(c) - 1, d = SubSeq(c, 1, k) PROVE IsSeq(d) /\ Kin(d)
  <2>1. \A i \in 1 .. k : i \in 1 .. n
    BY <1>1
  <2>2. \A i \in 1 .. k : c[i] \in S
    BY <1>1, <2>1, ElementOfSeq
  <2>3. 1 \in Int /\ k \in Int
    BY <1>1
  <2>4. /\ d \in Seq(S) /\ Len(d) = (IF 1 <= k THEN k - 1 + 1 ELSE 0)
        /\ \A i \in 1 .. k - 1 + 1 : d[i] = c[1 + i - 1]
    BY <1>2, <2>2, <2>3, SubSeqProperties
  <2>5. Len(d) = k /\ \A i \in 1 .. k : d[i] = c[i]
    <3>1. (1 <= k => Len(d) = k) /\ (~(1 <= k) => Len(d) = 0 /\ k = 0)
      BY <1>1, <2>4
    <3>2. \A i \in 1 .. k : i \in 1 .. k - 1 + 1 /\ 1 + i - 1 = i
      BY <1>1
    <3> QED BY <2>4, <3>1, <3>2
  <2> HIDE DEF n
  <2> QED BY <2>1, <2>4, <2>5, SeqIsSeq
<1>3. ASSUME d = Append(c, Junk) PROVE IsSeq(d) /\ Kin(d)
  <2> DEFINE T == S \cup {Junk}
  <2>1. c \in Seq(T) /\ Junk \in T
    BY <1>1, SeqMonotonic
  <2> HIDE DEF T
  <2>2. /\ d \in Seq(T) /\ Len(d) = n + 1 /\ d[n + 1] = Junk
        /\ \A i \in 1 .. n : d[i] = c[i]
    BY <1>3, <2>1, AppendProperties
  <2> HIDE DEF n
  <2>3. \A i \in 1 .. n + 1 : i = n + 1 \/ i \in 1 .. n
    BY <1>1
  <2> QED BY <2>2, <2>3, SeqIsSeq
<1>4. ASSUME NEW j \in DOMAIN c, NEW x \in Altered(c[j]) \cup {Junk}, d = [c EXCEPT ![j] = x]
      PROVE  IsSeq(d) /\ Kin(d)
  <2> DEFINE T == S \cup {x}
  <2>1. c \in Seq(T) /\ x \in T /\ j \in 1 .. Len(c)
    BY <1>1, SeqMonotonic
  <2> HIDE DEF T
  <2>2. /\ d \in Seq(T) /\ Len(d) = n
        /\ \A i \in 1 .. n : (i = j => d[i] = x) /\ (i # j => d[i] = c[i])
    BY <1>4, <2>1, ExceptSeq
  <2> HIDE DEF n
  <2> QED BY <2>2, SeqIsSeq
<1>5. ASSUME Len(c) > 5, NEW x, NEW y, d = [c EXCEPT ![5] = x, ![6] = y]
      PROVE  IsSeq(d) /\ Kin(d)
  <2>1. d = [i \in 1 .. n |-> IF i = 6 THEN y ELSE IF i = 5 THEN x ELSE c[i]]
    BY <1>1, <1>5
  <2> DEFINE T == S \cup {x, y}
  <2>2. \A i \in 1 .. n : c[i] \in S
    BY <1>1, ElementOfSeq
  <2> HIDE DEF n
  <2>3. d \in [1 .. n -> T] /\ \A i \in 1 .. n : i \notin {5, 6} => d[i] = c[i]
    BY <2>1, <2>2
  <2> HIDE DEF T
  <2>4. d \in Seq(T) /\ Len(d) = n
    BY <1>1, <2>3
  <2> QED BY <2>3, <2>4, SeqIsSeq
<1> HIDE DEF Kin
<1>7. IsSeq(d) /\ Kin(d)
  BY <1>2, <1>3, <1>4, <1>5, DamageCases
<1> QED BY <1>7 DEF Kin, n

\* What becomes of a cell.
LEMMA AlteredCell ==
  ASSUME NEW x, NEW y \in Altered(x)
  PROVE  /\ x.t \in {"tag", "num", "chr", "body", "manifest"}
         /\ x.t = "tag" => y \in Magics
         /\ x.t = "num" => y = Num(x.n + 1) \/ (x.n - 1 \in Nat /\ y = Num(x.n - 1))
         /\ x.t = "manifest" => \E i \in DOMAIN x.entries : \E ent \in Entries(x.entries[i]) :
                                  y = Manifest([x.entries EXCEPT ![i] = ent])
         /\ y.t = "num" => x.t = "num"
<1>1. x.t \in {"tag", "num", "chr", "body", "manifest"}
  BY DEF Altered
<1>2. x.t = "tag" => y \in Magics
  BY DEF Altered
<1>3. x.t = "num" => y = Num(x.n + 1) \/ (x.n - 1 \in Nat /\ y = Num(x.n - 1))
  BY DEF Altered
<1>4. x.t = "manifest" => \E i \in DOMAIN x.entries : \E ent \in Entries(x.entries[i]) :
                            y = Manifest([x.entries EXCEPT ![i] = ent])
  BY DEF Altered
<1>5. y.t = "num" => x.t = "num"
  <2>1. \A m \in Magics : m.t = "tag"
    BY EngineMagics DEF InnerMagics, Plain, Component, Tag
  <2>2. x.t = "chr" => y.t = "chr"
    <3>1. x.t = "chr" => Altered(x) = {Chr(" "), Chr("/"), Chr("^"), Chr("b"), Chr("u1")}
      BY DEF Altered
    <3>2. \A s : Chr(s).t = "chr"
      BY DEF Chr
    <3>3. x.t = "chr" => \E s : y = Chr(s)
      BY <3>1
    <3> QED BY <3>2, <3>3
  <2>3. x.t = "body" => y.t = "body"
    BY DEF Altered, Body
  <2>4. x.t = "manifest" => y.t = "manifest"
    BY <1>4 DEF Manifest
  <2> QED BY <1>1, <1>2, <2>1, <2>2, <2>3, <2>4
<1> QED BY <1>1, <1>2, <1>3, <1>4, <1>5

LEMMA NameLength ==
  ASSUME NEW c, IsSeq(c), NEW d \in Damaged(c),
         6 \in DOMAIN c /\ c[6].t = "num" => c[6].n \in Nat
  PROVE  6 \in DOMAIN d /\ d[6].t = "num" => d[6].n \in Nat
<1> SUFFICES ASSUME 6 \in DOMAIN d, d[6].t = "num" PROVE d[6].n \in Nat
  OBVIOUS
<1>0. Len(c) \in Nat /\ DOMAIN c = 1 .. Len(c) /\ c \in Seq({c[i] : i \in 1 .. Len(c)})
  BY IsSeqSeq
<1>1. ASSUME NEW k \in 0 .. Len(c) - 1, d = SubSeq(c, 1, k) PROVE d[6].n \in Nat
  <2>1. d = [i \in 1 .. k |-> c[i]]
    BY <1>0, <1>1
  <2> QED BY <1>0, <2>1
<1>2. ASSUME d = Append(c, Junk) PROVE d[6].n \in Nat
  <2>1. /\ Len(d) = Len(c) + 1 /\ DOMAIN d = 1 .. Len(c) + 1
        /\ \A i \in 1 .. Len(c) : d[i] = c[i]
        /\ d[Len(c) + 1] = Junk
    <3> DEFINE T == {c[i] : i \in 1 .. Len(c)} \cup {Junk}
    <3>1. c \in Seq(T) /\ Junk \in T
      BY <1>0, SeqMonotonic
    <3> HIDE DEF T
    <3>2. /\ d \in Seq(T) /\ Len(d) = Len(c) + 1 /\ d[Len(c) + 1] = Junk
          /\ \A i \in 1 .. Len(c) : d[i] = c[i]
      BY <1>2, <3>1, AppendProperties
    <3> QED BY <3>2, LenProperties
  <2>2. 6 = Len(c) + 1 \/ 6 \in 1 .. Len(c)
    BY <1>0, <2>1
  <2>3. Junk.t # "num"
    BY DEF Junk
  <2> QED BY <1>0, <2>1, <2>2, <2>3
<1>3. ASSUME NEW j \in DOMAIN c, NEW x \in Altered(c[j]) \cup {Junk}, d = [c EXCEPT ![j] = x]
      PROVE  d[6].n \in Nat
  <2>1. DOMAIN d = DOMAIN c /\ \A i \in DOMAIN c : i # j => d[i] = c[i]
    BY <1>3
  <2>2. CASE j # 6
    BY <2>1, <2>2
  <2>3. CASE j = 6
    <3>1. d[6] = x
      BY <1>3, <2>1, <2>3
    <3>2. x \in Altered(c[6])
      BY <2>3, <3>1 DEF Junk
    <3>3. c[6].t = "num" /\ c[6].n \in Nat
      BY <1>3, <2>3, <3>1, <3>2, AlteredCell
    <3>4. x.n \in Nat
      BY <3>2, <3>3, AlteredCell DEF Num
    <3> QED BY <3>1, <3>4
  <2> QED BY <2>2, <2>3
<1>4. ASSUME Len(c) > 5, c[6].t = "num", NEW x,
             d = [c EXCEPT ![5] = x, ![6] = Num(c[6].n + 1)]
      PROVE  d[6].n \in Nat
  <2>1. 6 \in DOMAIN c
    BY <1>0, <1>4
  <2>2. d[6] = Num(c[6].n + 1) /\ c[6].n \in Nat
    BY <1>4, <2>1
  <2> QED BY <2>2 DEF Num
<1> QED BY <1>1, <1>2, <1>3, <1>4, DamageCases

(***************************************************************************)
(* What the cells of a file can be, whatever damage it has suffered        *)
(***************************************************************************)

\* An envelope around x: the digest of x is there or is junk, and where a body
\* would have to begin there is no body.
WrapShape(c, x) ==
  /\ 1 \in DOMAIN c => c[1] \in InnerMagics \cup {Tag("AFC5"), Junk}
  /\ 3 \in DOMAIN c => c[3].t \in {"num", "junk"}
  /\ 6 \in DOMAIN c /\ c[6].t = "num" => c[6].n \in Nat
  /\ 7 \in DOMAIN c => c[7] \in {Sha(x), Junk}

\* The entries of a manifest of these items: their digests are right or gone.
EntriesOf(entries, items) ==
  /\ DOMAIN entries = DOMAIN items
  /\ \A i \in DOMAIN items : /\ "sha" \in DOMAIN entries[i]
                             /\ entries[i].sha \in {Sha(items[i].data), Junk}

PackShape(c, items) ==
  /\ 1 \in DOMAIN c => c[1] \in InnerMagics \cup {Tag("AFCPAK"), Junk}
  /\ 3 \in DOMAIN c =>
       \/ c[3] = Junk
       \/ c[3].t = "manifest" /\ EntriesOf(c[3].entries, items)

BareShape(c) == 1 \in DOMAIN c => c[1] \in InnerMagics \cup {Junk}

LEMMA Distinct ==
  /\ \A x : Junk # Sha(x) /\ Sha(x).t = "sha"
  /\ \A x, y : Sha(x) = Sha(y) => x = y
  /\ Junk.t = "junk"
  /\ \A m \in InnerMagics : m.t = "tag" /\ m # Tag("AFC5") /\ m # Tag("AFCPAK")
  /\ Tag("AFC5") # Tag("AFCPAK") /\ \A m : Junk # Tag(m) /\ Tag(m).t = "tag"
<1>1. \A x : Sha(x).t = "sha" /\ Sha(x).of = x
  BY DEF Sha
<1>2. Junk.t = "junk"
  BY DEF Junk
<1>3. \A m : Tag(m).t = "tag" /\ Tag(m).m = m
  BY DEF Tag
<1>4. ASSUME NEW m \in InnerMagics
      PROVE  m.t = "tag" /\ m # Tag("AFC5") /\ m # Tag("AFCPAK")
  <2>1. PICK a \in {"AFC1", "AFC2", "AFC3", "AFC4", "AFC6"} : m = Tag(a)
    BY DEF InnerMagics, Plain, Component
  <2> QED BY <1>3, <2>1
<1>5. \A x : Junk # Sha(x)
  BY <1>1, <1>2
<1>6. \A x, y : Sha(x) = Sha(y) => x = y
  BY <1>1
<1>7. \A m : Junk # Tag(m)
  BY <1>2, <1>3
<1>8. Tag("AFC5") # Tag("AFCPAK")
  BY <1>3
<1> QED BY <1>1, <1>2, <1>3, <1>4, <1>5, <1>6, <1>7, <1>8

LEMMA WrapDamaged ==
  ASSUME NEW x, NEW c, IsSeq(c), WrapShape(c, x), NEW d \in Damaged(c)
  PROVE  IsSeq(d) /\ WrapShape(d, x)
<1>1. /\ IsSeq(d)
      /\ \A i \in {1, 3, 7} : i \in DOMAIN d =>
           \/ d[i] = Junk
           \/ i \in DOMAIN c /\ (d[i] = c[i] \/ d[i] \in Altered(c[i]))
  <2>1. IsSeq(d) /\ \A i \in 1 .. Len(d) : i \notin {5, 6} =>
              \/ d[i] = Junk
              \/ i \in 1 .. Len(c) /\ (d[i] = c[i] \/ d[i] \in Altered(c[i]))
    BY DamagedCells
  <2>2. DOMAIN d = 1 .. Len(d) /\ DOMAIN c = 1 .. Len(c)
    BY <2>1, IsSeqSeq
  <2> QED BY <2>1, <2>2
<1>2. ASSUME 1 \in DOMAIN d PROVE d[1] \in InnerMagics \cup {Tag("AFC5"), Junk}
  <2>1. CASE 1 \in DOMAIN c /\ d[1] \in Altered(c[1])
    <3>1. c[1].t = "tag"
      BY <2>1, AlteredCell, Distinct DEF WrapShape
    <3> QED BY <2>1, <3>1, AlteredCell, EngineMagics
  <2> QED BY <1>1, <1>2, <2>1 DEF WrapShape
<1>3. ASSUME 3 \in DOMAIN d PROVE d[3].t \in {"num", "junk"}
  <2>1. CASE 3 \in DOMAIN c /\ d[3] \in Altered(c[3])
    <3>1. c[3].t = "num"
      BY <2>1, AlteredCell DEF WrapShape
    <3> QED BY <2>1, <3>1, AlteredCell DEF Num
  <2> QED BY <1>1, <1>3, <2>1, Distinct DEF WrapShape
<1>4. ASSUME 7 \in DOMAIN d PROVE d[7] \in {Sha(x), Junk}
  <2>1. ~(7 \in DOMAIN c /\ d[7] \in Altered(c[7]))
    BY AlteredCell, Distinct DEF WrapShape
  <2> QED BY <1>1, <1>4, <2>1 DEF WrapShape
<1>5. 6 \in DOMAIN d /\ d[6].t = "num" => d[6].n \in Nat
  BY NameLength DEF WrapShape
<1> QED BY <1>1, <1>2, <1>3, <1>4, <1>5 DEF WrapShape

LEMMA EntryDamaged ==
  ASSUME NEW x, NEW ent, "sha" \in DOMAIN ent, ent.sha \in {x, Junk}, NEW e \in Entries(ent)
  PROVE  "sha" \in DOMAIN e /\ e.sha \in {x, Junk}
  BY DEF Entries

LEMMA PackDamaged ==
  ASSUME NEW items, NEW c, IsSeq(c), PackShape(c, items), NEW d \in Damaged(c)
  PROVE  IsSeq(d) /\ PackShape(d, items)
<1>1. /\ IsSeq(d)
      /\ \A i \in {1, 3} : i \in DOMAIN d =>
           \/ d[i] = Junk
           \/ i \in DOMAIN c /\ (d[i] = c[i] \/ d[i] \in Altered(c[i]))
  <2>1. IsSeq(d) /\ \A i \in 1 .. Len(d) : i \notin {5, 6} =>
              \/ d[i] = Junk
              \/ i \in 1 .. Len(c) /\ (d[i] = c[i] \/ d[i] \in Altered(c[i]))
    BY DamagedCells
  <2>2. DOMAIN d = 1 .. Len(d) /\ DOMAIN c = 1 .. Len(c)
    BY <2>1, IsSeqSeq
  <2> QED BY <2>1, <2>2
<1>2. ASSUME 1 \in DOMAIN d PROVE d[1] \in InnerMagics \cup {Tag("AFCPAK"), Junk}
  <2>1. CASE 1 \in DOMAIN c /\ d[1] \in Altered(c[1])
    <3>1. c[1].t = "tag"
      BY <2>1, AlteredCell, Distinct DEF PackShape
    <3> QED BY <2>1, <3>1, AlteredCell, EngineMagics
  <2> QED BY <1>1, <1>2, <2>1 DEF PackShape
<1>3. ASSUME 3 \in DOMAIN c, d[3] \in Altered(c[3])
      PROVE  d[3].t = "manifest" /\ EntriesOf(d[3].entries, items)
  <2>1. c[3].t = "manifest" /\ EntriesOf(c[3].entries, items)
    BY <1>3, AlteredCell, Distinct DEF PackShape
  <2> DEFINE old == c[3].entries
  <2>2. PICK i \in DOMAIN old : \E ent \in Entries(old[i]) :
               d[3] = Manifest([old EXCEPT ![i] = ent])
    BY <1>3, <2>1, AlteredCell
  <2>3. PICK ent \in Entries(old[i]) : d[3] = Manifest([old EXCEPT ![i] = ent])
    BY <2>2
  <2>4. d[3].t = "manifest" /\ d[3].entries = [old EXCEPT ![i] = ent]
    BY <2>3 DEF Manifest
  <2> HIDE DEF old
  <2>5. EntriesOf(old, items)
    BY <2>1 DEF old
  <2>6. "sha" \in DOMAIN ent /\ ent.sha \in {Sha(items[i].data), Junk}
    BY <2>5, EntryDamaged DEF EntriesOf
  <2>7. /\ DOMAIN d[3].entries = DOMAIN old /\ d[3].entries[i] = ent
        /\ \A j \in DOMAIN old : j # i => d[3].entries[j] = old[j]
    BY <2>4
  <2> QED BY <2>4, <2>5, <2>6, <2>7 DEF EntriesOf
<1>4. ASSUME 3 \in DOMAIN d
      PROVE  d[3] = Junk \/ (d[3].t = "manifest" /\ EntriesOf(d[3].entries, items))
  BY <1>1, <1>3, <1>4 DEF PackShape
<1> QED BY <1>1, <1>2, <1>4 DEF PackShape

LEMMA BareDamaged ==
  ASSUME NEW c, IsSeq(c), BareShape(c), NEW d \in Damaged(c)
  PROVE  IsSeq(d) /\ BareShape(d)
<1>1. /\ IsSeq(d)
      /\ 1 \in DOMAIN d =>
           \/ d[1] = Junk
           \/ 1 \in DOMAIN c /\ (d[1] = c[1] \/ d[1] \in Altered(c[1]))
  <2>1. IsSeq(d) /\ \A i \in 1 .. Len(d) : i \notin {5, 6} =>
              \/ d[i] = Junk
              \/ i \in 1 .. Len(c) /\ (d[i] = c[i] \/ d[i] \in Altered(c[i]))
    BY DamagedCells
  <2>2. DOMAIN d = 1 .. Len(d) /\ DOMAIN c = 1 .. Len(c)
    BY <2>1, IsSeqSeq
  <2> QED BY <2>1, <2>2
<1>2. ASSUME 1 \in DOMAIN d PROVE d[1] \in InnerMagics \cup {Junk}
  <2>1. CASE 1 \in DOMAIN c /\ d[1] \in Altered(c[1])
    <3>1. c[1].t = "tag"
      BY <2>1, AlteredCell, Distinct DEF BareShape
    <3> QED BY <2>1, <3>1, AlteredCell, EngineMagics
  <2> QED BY <1>1, <1>2, <2>1 DEF BareShape
<1> QED BY <1>1, <1>2 DEF BareShape

(***************************************************************************)
(* Archives                                                                *)
(***************************************************************************)

\* What /api/archive/create packs.
Packable == {[path |-> p, data |-> d, payload |-> Payload(m, d)] :
              p \in Paths, d \in Inputs, m \in Magics}

\* Each item is where its entry says, and is described by it.
Laid(c, items) ==
  /\ Len(c) >= 3 /\ c[1] = Tag("AFCPAK") /\ c[2] = Num(1) /\ c[3].t = "manifest"
  /\ DOMAIN c[3].entries = DOMAIN items
  /\ \A i \in DOMAIN items : \E o, s \in Nat :
       /\ c[3].entries[i] = [path |-> SafePath(items[i].path).parts, offset |-> o,
                             stored |-> s, sha |-> Sha(items[i].data)]
       /\ o + s <= Len(c) - 3
       /\ SubSeq(c, 4 + o, 3 + (o + s)) = items[i].payload

LEMMA PackCells ==
  ASSUME NEW items \in Seq(Packable), NEW f, f = Pack(items)
  PROVE  f = File(f.cells) /\ IsSeq(f.cells) /\ Laid(f.cells, items)
<1> DEFINE n == Len(items)
           K == Magics \cup {Num(Size(d)) : d \in Inputs} \cup {Body(d) : d \in Inputs}
           ss == [i \in DOMAIN items |-> items[i].payload]
           flat == FlattenSeq(ss)
           Rule(a) == [i \in 1 .. n + 1 |->
                         IF i = 1 THEN 0 ELSE a[i - 1] + Len(items[i - 1].payload)]
           at == CHOOSE a : a = Rule(a)
           entries == [i \in DOMAIN items |->
                         [path |-> SafePath(items[i].path).parts, offset |-> at[i],
                          stored |-> Len(items[i].payload), sha |-> Sha(items[i].data)]]
           head == <<Tag("AFCPAK"), Num(1), Manifest(entries)>>
<1>1. f = File(head \o flat)
  BY DEF Pack
<1>2. n \in Nat /\ DOMAIN items = 1 .. n /\ \A i \in 1 .. n : items[i] \in Packable
  OBVIOUS
<1>3. \A x \in Packable : x.payload \in Seq(K)
  <2> SUFFICES ASSUME NEW x \in Packable PROVE x.payload \in Seq(K)
    OBVIOUS
  <2>1. PICK d \in Inputs, m \in Magics : x.payload = Payload(m, d)
    BY DEF Packable
  <2>2. m \in K /\ Num(Size(d)) \in K /\ Body(d) \in K
    OBVIOUS
  <2> HIDE DEF K
  <2>3. <<m, Num(Size(d)), Body(d)>> \in Seq(K)
    BY <2>2
  <2> QED BY <2>1, <2>3 DEF Payload
<1> HIDE DEF n, K
<1>4. ss \in Seq(Seq(K)) /\ Len(ss) = n /\ \A i \in 1 .. n : ss[i] = items[i].payload
  <2>1. ss \in [1 .. n -> Seq(K)]
    BY <1>2, <1>3
  <2>2. \A i \in 1 .. n : ss[i] = items[i].payload
    BY <1>2
  <2> HIDE DEF ss
  <2> QED BY <1>2, <2>1, <2>2
<1> HIDE DEF ss
<1>5. PICK g \in [0 .. n -> Seq(K)] :
        /\ g[0] = <<>>
        /\ \A i \in 1 .. n : g[i] = g[i - 1] \o ss[i]
        /\ flat = g[n]
  <2>1. \E g \in [0 .. Len(ss) -> Seq(K)] :
           /\ g[0] = <<>>
           /\ \A i \in 1 .. Len(ss) : g[i] = g[i - 1] \o ss[i]
           /\ FlattenSeq(ss) = g[Len(ss)]
    BY <1>4, Flattened
  <2> QED BY <1>4, <2>1
<1>6. \A i \in 1 .. n : /\ Len(g[i - 1]) \in Nat /\ Len(ss[i]) \in Nat
                        /\ Len(g[i - 1]) + Len(ss[i]) <= Len(flat)
                        /\ SubSeq(flat, Len(g[i - 1]) + 1, Len(g[i - 1]) + Len(ss[i])) = ss[i]
  <2> HIDE DEF flat
  <2>1. g \in [0 .. Len(ss) -> Seq(K)] /\ \A j \in 1 .. Len(ss) : g[j] = g[j - 1] \o ss[j]
    BY <1>4, <1>5
  <2> SUFFICES ASSUME NEW i \in 1 .. Len(ss)
               PROVE  /\ Len(g[i - 1]) \in Nat /\ Len(ss[i]) \in Nat
                      /\ Len(g[i - 1]) + Len(ss[i]) <= Len(flat)
                      /\ SubSeq(flat, Len(g[i - 1]) + 1, Len(g[i - 1]) + Len(ss[i])) = ss[i]
    BY <1>4
  <2>2. flat = g[Len(ss)]
    BY <1>4, <1>5
  <2> QED BY <1>4, <2>1, <2>2, Pieces
<1>7. g[0] = <<>> /\ Len(g[0]) = 0 /\ \A i \in 1 .. n : Len(g[i]) = Len(g[i - 1]) + Len(ss[i])
  <2>1. \A i \in 1 .. n : g[i - 1] \in Seq(K) /\ ss[i] \in Seq(K)
    <3>1. \A i \in 1 .. n : i - 1 \in 0 .. n
      BY <1>2
    <3>2. \A i \in 1 .. n : ss[i] \in Seq(K)
      BY <1>4, ElementOfSeq
    <3> QED BY <3>1, <3>2
  <2>2. \A i \in 1 .. n : Len(g[i - 1] \o ss[i]) = Len(g[i - 1]) + Len(ss[i])
    BY <2>1, ConcatProperties
  <2> QED BY <1>5, <2>2
<1> DEFINE h == [i \in 1 .. n + 1 |-> Len(g[i - 1])]
<1>8. h = Rule(h)
  <2>1. ASSUME NEW i \in 1 .. n + 1
        PROVE  h[i] = IF i = 1 THEN 0 ELSE h[i - 1] + Len(items[i - 1].payload)
    <3>1. CASE i = 1
      <4>1. h[i] = Len(g[0])
        BY <1>2, <3>1
      <4> QED BY <1>7, <3>1, <4>1
    <3>2. CASE i # 1
      <4> DEFINE j == i - 1
      <4>1. j \in 1 .. n /\ j \in 1 .. n + 1
        BY <1>2, <3>2
      <4>2. h[i] = Len(g[j]) /\ h[j] = Len(g[j - 1])
        BY <4>1
      <4> HIDE DEF j, h
      <4>3. Len(g[j]) = Len(g[j - 1]) + Len(ss[j]) /\ ss[j] = items[j].payload
        BY <1>4, <1>7, <4>1
      <4>4. h[i] = h[j] + Len(items[j].payload)
        BY <4>2, <4>3
      <4> QED BY <3>2, <4>4 DEF j
    <3> QED BY <3>1, <3>2
  <2>2. h = [i \in 1 .. n + 1 |-> h[i]]
    OBVIOUS
  <2> HIDE DEF h
  <2> QED BY <2>1, <2>2
<1>9. at = Rule(at)
  <2> HIDE DEF Rule, h
  <2> QED BY <1>8
<1>10. \A i \in 1 .. n + 1 : at[i] = IF i = 1 THEN 0 ELSE at[i - 1] + Len(items[i - 1].payload)
  <2> HIDE DEF at
  <2> QED BY <1>9
<1> HIDE DEF at, h
<1> DEFINE E == {k \in Nat : k <= n => at[k + 1] = Len(g[k])}
<1>11. 0 \in E
  <2>1. 1 \in 1 .. n + 1
    BY <1>2
  <2>2. at[1] = 0
    BY <1>10, <2>1
  <2> QED BY <1>7, <2>2
<1>12. ASSUME NEW k \in Nat, k \in E PROVE k + 1 \in E
  <2> SUFFICES ASSUME k + 1 <= n PROVE at[(k + 1) + 1] = Len(g[k + 1])
    OBVIOUS
  <2>1. /\ (k + 1) + 1 \in 1 .. n + 1 /\ (k + 1) + 1 # 1 /\ ((k + 1) + 1) - 1 = k + 1
        /\ k + 1 \in 1 .. n /\ (k + 1) - 1 = k /\ k <= n
    BY <1>2
  <2>2. at[(k + 1) + 1] = at[k + 1] + Len(items[k + 1].payload)
    BY <1>10, <2>1
  <2>3. at[k + 1] = Len(g[k])
    BY <1>12, <2>1
  <2>4. Len(g[k + 1]) = Len(g[k]) + Len(ss[k + 1]) /\ ss[k + 1] = items[k + 1].payload
    BY <1>4, <1>7, <2>1
  <2> QED BY <2>2, <2>3, <2>4
<1>13. Nat \subseteq E
  <2> HIDE DEF E
  <2> QED BY <1>11, <1>12, Induction
<1>14. \A i \in 1 .. n : at[i] = Len(g[i - 1])
  <2> SUFFICES ASSUME NEW i \in 1 .. n PROVE at[i] = Len(g[i - 1])
    OBVIOUS
  <2>1. i - 1 \in Nat /\ i - 1 <= n /\ (i - 1) + 1 = i
    BY <1>2
  <2>2. i - 1 \in E
    <3> HIDE DEF E
    <3> QED BY <1>13, <2>1
  <2> QED BY <2>1, <2>2
<1> HIDE DEF E
<1> DEFINE K2 == {Tag("AFCPAK"), Num(1), Manifest(entries)} \cup K
<1>15. /\ head \in Seq(K2) /\ Len(head) = 3 /\ head[1] = Tag("AFCPAK") /\ head[2] = Num(1)
       /\ head[3] = Manifest(entries)
  <2> HIDE DEF entries, K
  <2> QED OBVIOUS
<1>16. flat \in Seq(K) /\ flat \in Seq(K2) /\ Len(flat) \in Nat
  <2> HIDE DEF flat, entries
  <2>0. n \in 0 .. n
    BY <1>2
  <2>1. g[n] \in Seq(K)
    BY <2>0
  <2>2. flat = g[n]
    BY <1>5
  <2>3. K \subseteq K2
    OBVIOUS
  <2> HIDE DEF K2
  <2> QED BY <2>1, <2>2, <2>3, SeqMonotonic, LenProperties
<1> HIDE DEF head, K2, flat
<1> DEFINE c == head \o flat
<1>17. /\ c \in Seq(K2) /\ Len(c) = 3 + Len(flat)
       /\ \A i \in 1 .. 3 + Len(flat) : c[i] = IF i <= 3 THEN head[i] ELSE flat[i - 3]
  <2>1. /\ head \o flat \in Seq(K2) /\ Len(head \o flat) = Len(head) + Len(flat)
        /\ \A i \in 1 .. Len(head) + Len(flat) :
             (head \o flat)[i] = IF i <= Len(head) THEN head[i] ELSE flat[i - Len(head)]
    BY <1>15, <1>16, ConcatProperties
  <2> QED BY <1>15, <2>1
<1>18. f = File(c) /\ f.cells = c
  BY <1>1 DEF File
<1> HIDE DEF c
<1>19. IsSeq(c)
  BY <1>17, SeqIsSeq
<1>20. Len(c) >= 3 /\ c[1] = Tag("AFCPAK") /\ c[2] = Num(1) /\ c[3] = Manifest(entries)
  BY <1>15, <1>16, <1>17
<1>21. c[3].t = "manifest" /\ c[3].entries = entries
  BY <1>20 DEF Manifest
<1>22. DOMAIN entries = DOMAIN items
  OBVIOUS
<1>23. ASSUME NEW i \in DOMAIN items
       PROVE \E o, s \in Nat :
               /\ entries[i] = [path |-> SafePath(items[i].path).parts, offset |-> o,
                                stored |-> s, sha |-> Sha(items[i].data)]
               /\ o + s <= Len(c) - 3
               /\ SubSeq(c, 4 + o, 3 + (o + s)) = items[i].payload
  <2> DEFINE o == Len(g[i - 1])
             s == Len(ss[i])
  <2>1. i \in 1 .. n
    BY <1>2
  <2>2. at[i] = o /\ Len(items[i].payload) = s /\ items[i].payload = ss[i]
    BY <1>4, <1>14, <2>1
  <2>3. entries[i] = [path |-> SafePath(items[i].path).parts, offset |-> o,
                      stored |-> s, sha |-> Sha(items[i].data)]
    BY <2>2
  <2>4. o \in Nat /\ s \in Nat /\ o + s <= Len(flat) /\ SubSeq(flat, o + 1, o + s) = ss[i]
    BY <1>6, <2>1
  <2> HIDE DEF o, s, entries
  <2>5. o + s <= Len(c) - 3
    BY <1>16, <1>17, <2>4
  <2>6. SubSeq(c, 4 + o, 3 + (o + s)) = SubSeq(flat, o + 1, o + s)
    <3> DEFINE p == SubSeq(c, 4 + o, 3 + (o + s))
               q == SubSeq(flat, o + 1, o + s)
               S == K2
    <3>0. K \subseteq K2
      BY DEF K2
    <3>1. \A k \in o + 1 .. o + s : k \in 1 .. Len(flat)
      BY <1>16, <2>4
    <3>2. \A k \in o + 1 .. o + s : flat[k] \in K2
      BY <1>16, <3>1, ElementOfSeq
    <3>3. \A k \in 4 + o .. 3 + (o + s) : k \in 1 .. Len(c)
      BY <1>16, <1>17, <2>4
    <3>4. \A k \in 4 + o .. 3 + (o + s) : c[k] \in K2
      BY <1>17, <3>3, ElementOfSeq
    <3> DEFINE a1 == 4 + o
               a2 == 3 + (o + s)
               b1 == o + 1
               b2 == o + s
    <3>5. a1 \in Int /\ a2 \in Int /\ b1 \in Int /\ b2 \in Int
      BY <2>4
    <3>6. (\A k \in a1 .. a2 : c[k] \in K2) /\ (\A k \in b1 .. b2 : flat[k] \in K2)
      BY <3>2, <3>4
    <3> HIDE DEF a1, a2, b1, b2
    <3>7. /\ SubSeq(c, a1, a2) \in Seq(K2)
          /\ Len(SubSeq(c, a1, a2)) = (IF a1 <= a2 THEN a2 - a1 + 1 ELSE 0)
          /\ \A k \in 1 .. a2 - a1 + 1 : SubSeq(c, a1, a2)[k] = c[a1 + k - 1]
      BY <3>5, <3>6, SubSeqProperties
    <3>8. /\ SubSeq(flat, b1, b2) \in Seq(K2)
          /\ Len(SubSeq(flat, b1, b2)) = (IF b1 <= b2 THEN b2 - b1 + 1 ELSE 0)
          /\ \A k \in 1 .. b2 - b1 + 1 : SubSeq(flat, b1, b2)[k] = flat[b1 + k - 1]
      BY <3>5, <3>6, SubSeqProperties
    <3>9. /\ a2 - a1 + 1 = s /\ b2 - b1 + 1 = s
          /\ (a1 <= a2 <=> s >= 1) /\ (b1 <= b2 <=> s >= 1)
          /\ \A k \in 1 .. s : a1 + k - 1 = (o + k) + 3 /\ b1 + k - 1 = o + k
      BY <2>4 DEF a1, a2, b1, b2
    <3>10. Len(SubSeq(c, a1, a2)) = s /\ Len(SubSeq(flat, b1, b2)) = s
      BY <2>4, <3>7, <3>8, <3>9
    <3>11. \A k \in 1 .. s : c[(o + k) + 3] = flat[o + k]
      <4> SUFFICES ASSUME NEW k \in 1 .. s PROVE c[(o + k) + 3] = flat[o + k]
        OBVIOUS
      <4>1. /\ (o + k) + 3 \in 1 .. 3 + Len(flat) /\ ~((o + k) + 3 <= 3)
            /\ ((o + k) + 3) - 3 = o + k
        BY <1>16, <2>4
      <4> QED BY <1>17, <4>1
    <3>12. \A k \in 1 .. s : SubSeq(c, a1, a2)[k] = SubSeq(flat, b1, b2)[k]
      <4> SUFFICES ASSUME NEW k \in 1 .. s
                   PROVE  SubSeq(c, a1, a2)[k] = SubSeq(flat, b1, b2)[k]
        OBVIOUS
      <4>1. k \in 1 .. a2 - a1 + 1 /\ k \in 1 .. b2 - b1 + 1
        BY <3>9
      <4>2. SubSeq(c, a1, a2)[k] = c[a1 + k - 1] /\ SubSeq(flat, b1, b2)[k] = flat[b1 + k - 1]
        BY <3>7, <3>8, <4>1
      <4> QED BY <3>9, <3>11, <4>2
    <3>13. SubSeq(c, a1, a2) = SubSeq(flat, b1, b2)
      BY <3>7, <3>8, <3>10, <3>12, SeqEqual
    <3> QED BY <3>13 DEF a1, a2, b1, b2
  <2> QED BY <2>2, <2>3, <2>4, <2>5, <2>6
<1>24. Laid(c, items)
  <2> HIDE DEF entries
  <2> QED BY <1>20, <1>21, <1>22, <1>23 DEF Laid
<1> QED BY <1>18, <1>19, <1>24

LEMMA PathKept ==
  ASSUME NEW p \in Seq(STRING), SafePath(p) # Refused,
         NEW q, q = SafePath(p).parts
  PROVE  /\ ~Settled(p) => SafePath(q) = Refused
         /\ Settled(p) => SafePath(q) = [t |-> "path", parts |-> q]
<1> DEFINE R == {p[i] : i \in 1 .. Len(p)}
           drop == {"", "."}
<1>1. p \in Seq(R) /\ Len(p) \in Nat
  <2>1. IsSeq(p)
    BY SeqIsSeq
  <2> QED BY <2>1, IsSeqSeq
<1>2. SafePath(p) = [t |-> "path", parts |-> Without(p, drop)]
      /\ ~Contains(p, "..") /\ Without(p, drop) # <<>>
  BY DEF SafePath
<1>3. q = Without(p, drop) /\ q # <<>>
  <2> HIDE DEF drop
  <2> DEFINE w == Without(p, drop)
  <2>1. SafePath(p) = [t |-> "path", parts |-> w] /\ w # <<>>
    BY <1>2
  <2> HIDE DEF w
  <2>2. q = w
    BY <2>1
  <2> QED BY <2>1, <2>2 DEF w
<1>4. ".." \notin R
  BY <1>2 DEF Contains
<1> HIDE DEF R, drop
<1>5. q \in Seq(R \ drop)
  BY <1>1, <1>3, WithoutType
<1>6. Len(q) \in Nat /\ Len(q) >= 1 /\ \A i \in 1 .. Len(q) : q[i] \in R /\ q[i] \notin drop
  BY <1>3, <1>5, EmptySeq, ElementOfSeq, LenProperties
<1>7. Without(q, drop) = q
  BY <1>5, <1>6, WithoutType
<1>8. ~Contains(q, "..") /\ q[1] # ""
  <2>1. \A i \in 1 .. Len(q) : q[i] # ".."
    BY <1>4, <1>6
  <2>2. 1 \in 1 .. Len(q)
    BY <1>6
  <2>3. "" \in drop
    BY DEF drop
  <2>4. q[1] # ""
    BY <1>6, <2>2, <2>3
  <2> QED BY <2>1, <2>4 DEF Contains
<1>9. Settled(p) <=> q[1] # "C:"
  BY DEF Settled
<1>10. SafePath(q) = IF q = <<>> \/ q[1] \in {"", "C:"} \/ Contains(q, "..")
                          \/ Without(q, drop) = <<>>
                       THEN Refused ELSE [t |-> "path", parts |-> Without(q, drop)]
  BY DEF SafePath, drop
<1> QED BY <1>3, <1>7, <1>8, <1>9, <1>10

\* What an archive with one such manifest holds can be unpacked exactly if all
\* its paths are settled, and is what was packed.
LEMMA ArchiveReadable ==
  ASSUME NEW c, IsSeq(c), NEW items \in Seq(Packable), Packs(items), Laid(c, items)
  PROVE  /\ Unpacks(c) <=> \A i \in DOMAIN items : Settled(items[i].path)
         /\ Unpacks(c) =>
              /\ Len(Members(c)) = Len(items)
              /\ \A i \in DOMAIN items :
                   /\ Members(c)[i].data = items[i].data /\ Members(c)[i].ok
                   /\ Members(c)[i].path = SafePath(items[i].path).parts
<1> DEFINE n == Len(items)
<1>1. n \in Nat /\ DOMAIN items = 1 .. n /\ \A i \in 1 .. n : items[i] \in Packable
  OBVIOUS
<1>2. HasManifest(c)
  <2>1. c # <<>> /\ Len(c) >= 3 /\ c[1] = Tag("AFCPAK") /\ c[2] = Num(1) /\ c[3].t = "manifest"
    BY EmptySeq DEF Laid
  <2>2. Leading(c) = Tag("AFCPAK") /\ c[2].t = "num" /\ c[2].n = 1
    BY <2>1 DEF Leading, Num
  <2>3. Len(c) > 1 /\ 2 + 1 <= Len(c)
    <3>1. Len(c) \in Nat
      BY IsSeqSeq
    <3> QED BY <2>1, <3>1
  <2> QED BY <2>1, <2>2, <2>3 DEF HasManifest
<1> DEFINE entries == c[3].entries
           ms == Members(c)
<1>3. DOMAIN entries = 1 .. n
  BY <1>1 DEF Laid
<1>4. ms = [i \in 1 .. n |-> Member(c, entries[i])]
  BY <1>3 DEF Members
<1>5. ASSUME NEW i \in 1 .. n
      PROVE  /\ ~Settled(items[i].path) => Member(c, entries[i]) = Refused
             /\ Settled(items[i].path) => Member(c, entries[i]) =
                  [t |-> "member", path |-> SafePath(items[i].path).parts,
                   data |-> items[i].data, ok |-> TRUE]
  <2> DEFINE p == items[i].path
             q == SafePath(p).parts
             ent == entries[i]
  <2>1. PICK o \in Nat, s \in Nat :
          /\ ent = [path |-> q, offset |-> o, stored |-> s, sha |-> Sha(items[i].data)]
          /\ o + s <= Len(c) - 3
          /\ SubSeq(c, 4 + o, 3 + (o + s)) = items[i].payload
    BY <1>1 DEF Laid
  <2>2. p \in Seq(STRING) /\ items[i].data # Refused
    <3>1. PICK d \in Inputs : items[i].path \in Paths /\ items[i].data = d
      BY <1>1 DEF Packable
    <3>2. d.t = "text"
      BY UploadsTyped
    <3> QED BY <3>1, <3>2, UploadsTyped DEF Refused
  <2>3. SafePath(p) # Refused /\ Restored(items[i].payload) = items[i].data
    BY <1>1 DEF Packs
  <2>4. /\ ~Settled(p) => SafePath(q) = Refused
        /\ Settled(p) => SafePath(q) = [t |-> "path", parts |-> q]
    BY <2>2, <2>3, PathKept
  <2> HIDE DEF p, q, ent, entries
  <2>5. /\ ent.path = q /\ ent.offset = o /\ ent.stored = s /\ ent.sha = Sha(items[i].data)
    BY <2>1
  <2> DEFINE end == ent.offset + ent.stored
             data == IF /\ SafePath(ent.path) # Refused /\ ent.offset >= 0
                        /\ end >= ent.offset /\ end <= Len(c) - 3
                       THEN Restored(SubSeq(c, 4 + ent.offset, 3 + end)) ELSE Refused
  <2>6. Member(c, ent) =
          IF data = Refused \/ (ent.sha # Junk /\ ent.sha # Sha(data)) THEN Refused
          ELSE [t |-> "member", path |-> SafePath(ent.path).parts, data |-> data,
                ok |-> ent.sha # Junk]
    BY DEF Member
  <2>7. ASSUME ~Settled(p) PROVE Member(c, ent) = Refused
    <3>1. data = Refused
      BY <2>4, <2>5, <2>7
    <3> QED BY <2>6, <3>1
  <2>8. ASSUME Settled(p)
        PROVE  Member(c, ent) = [t |-> "member", path |-> q, data |-> items[i].data, ok |-> TRUE]
    <3>1. SafePath(q) # Refused /\ SafePath(q).parts = q
      BY <2>4, <2>8 DEF Refused
    <3>2. ent.offset >= 0 /\ end >= ent.offset /\ end <= Len(c) - 3
      BY <2>1, <2>5
    <3>3. data = items[i].data
      BY <2>1, <2>3, <2>5, <3>1, <3>2
    <3>4. ent.sha # Junk /\ ent.sha = Sha(data)
      BY <2>5, <3>3, Distinct
    <3> HIDE DEF data
    <3> QED BY <2>2, <2>5, <2>6, <3>1, <3>3, <3>4
  <2> QED BY <2>7, <2>8 DEF p, q, ent
<1> HIDE DEF ms, entries, n
<1>6. DOMAIN ms = 1 .. n /\ \A i \in 1 .. n : ms[i] = Member(c, entries[i])
  BY <1>4
<1>7. Len(ms) = n
  <2> DEFINE S == {ms[i] : i \in 1 .. n}
  <2>1. \A i \in 1 .. n : ms[i] \in S
    OBVIOUS
  <2> HIDE DEF S
  <2>2. ms \in [1 .. n -> S]
    BY <1>4, <1>6, <2>1
  <2> QED BY <1>1, <2>2, SeqDef
<1>8. \A i \in 1 .. n : Settled(items[i].path) =>
        ms[i] # Refused /\ ms[i].data = items[i].data /\ ms[i].ok
        /\ ms[i].path = SafePath(items[i].path).parts
  <2> SUFFICES ASSUME NEW i \in 1 .. n, Settled(items[i].path)
               PROVE  ms[i] # Refused /\ ms[i].data = items[i].data /\ ms[i].ok
                      /\ ms[i].path = SafePath(items[i].path).parts
    OBVIOUS
  <2>1. ms[i] = [t |-> "member", path |-> SafePath(items[i].path).parts,
                 data |-> items[i].data, ok |-> TRUE]
    BY <1>5, <1>6
  <2> QED BY <2>1 DEF Refused
<1>9. \A i \in 1 .. n : ~Settled(items[i].path) => ms[i] = Refused
  BY <1>5, <1>6
<1>10. Unpacks(c) <=> \A i \in 1 .. n : ms[i] # Refused
  BY <1>2, <1>6 DEF Unpacks, ms
<1>11. Unpacks(c) <=> \A i \in DOMAIN items : Settled(items[i].path)
  BY <1>1, <1>8, <1>9, <1>10
<1>12. Unpacks(c) => /\ Len(ms) = n
                     /\ \A i \in DOMAIN items :
                          /\ ms[i].data = items[i].data /\ ms[i].ok
                          /\ ms[i].path = SafePath(items[i].path).parts
  BY <1>1, <1>7, <1>8, <1>11
<1> QED BY <1>11, <1>12 DEF ms, n

(***************************************************************************)
(* The rows and the file                                                   *)
(***************************************************************************)

\* What a row vouches for, it has.
Truthful == \A r \in rows : r.verified \/ r.digest => r.original = r.truth

\* The history knows no other original than x.
Knows(x) == \A r \in rows : r.op = "compress" /\ r.original # Refused => r.original = x
KnowsNone == \A r \in rows : ~(r.op = "compress" /\ r.original # Refused)

Fresh == held = Nobody /\ KnowsNone
Shaped ==
  /\ held = [file |-> File(Cells), truth |-> held.truth] /\ IsSeq(Cells)
  /\ \/ WrapShape(Cells, held.truth)
     \/ PackShape(Cells, held.truth)
     \/ BareShape(Cells) /\ Knows(held.truth)

FInv == damage \in Nat /\ Truthful /\ (Fresh \/ Shaped) /\ SavedReadable

\* What a container is restored to under an envelope's digest, or with a verdict
\* of verified, is what it was made from.
LEMMA VerdictTrue ==
  ASSUME Shaped, Single, Restored(Cells) # Refused,
         \/ Leading(Cells) = Tag("AFC5") \/ VerifiedByApi(Cells) \/ VerifiedByBatch(Cells)
  PROVE  Restored(Cells) = held.truth
<1> DEFINE c == Cells
           x == held.truth
<1>0. IsSeq(c) /\ Leading(c) \in InnerMagics \cup {Tag("AFC5")}
  BY DEF Shaped, Single
<1>1. c # <<>> /\ 1 \in DOMAIN c /\ c[1] = Leading(c) /\ Len(c) \in Nat /\ DOMAIN c = 1 .. Len(c)
  <2>1. Leading(c) # Junk
    BY <1>0, Distinct
  <2>2. c # <<>> /\ c[1] = Leading(c)
    BY <2>1 DEF Leading
  <2>3. Len(c) \in Nat /\ DOMAIN c = 1 .. Len(c) /\ c \in Seq({c[i] : i \in 1 .. Len(c)})
    BY <1>0, IsSeqSeq
  <2>4. Len(c) # 0
    BY <2>2, <2>3, EmptySeq
  <2> QED BY <2>2, <2>3, <2>4
<1> HIDE DEF c, x
<1>2. ASSUME c[1] # Tag("AFC5") PROVE Len(c) >= 3 /\ c[3].t = "body" /\ 3 \in DOMAIN c
  <2>1. Restored(c) = Inner(c) /\ Restored(c) # Refused
    BY <1>1, <1>2 DEF Restored, c
  <2>2. ~(Len(c) < 3) /\ c[3].t = "body"
    BY <2>1 DEF Inner
  <2> QED BY <1>1, <2>2
<1>3. CASE WrapShape(c, x)
  <2>1. CASE c[1] = Tag("AFC5")
    <3>1. Restored(c) = Unwrapped(c) /\ Restored(c) # Refused
      BY <1>1, <2>1 DEF Restored, c
    <3> DEFINE inner == Inner(Wrapped(c))
               restored == IF Parses(c) THEN inner ELSE Refused
    <3>2. Unwrapped(c) = IF /\ restored # Refused
                            /\ Size(restored) = OriginalLength(c)
                            /\ Sha(restored) = OriginalSha(c)
                           THEN restored ELSE Refused
      BY DEF Unwrapped
    <3>3. restored # Refused /\ Sha(restored) = c[7] /\ Restored(c) = restored
      <4> HIDE DEF restored
      <4> QED BY <3>1, <3>2 DEF OriginalSha
    <3>4. Parses(c)
      BY <3>3
    <3>5. 7 \in DOMAIN c
      <4>1. Len(c) >= 6 /\ c[6].t = "num" /\ 8 + c[6].n <= Len(c)
        BY <3>4 DEF Parses
      <4>2. 6 \in DOMAIN c
        BY <1>1, <4>1
      <4>3. c[6].n \in Nat
        BY <1>3, <4>1, <4>2 DEF WrapShape
      <4> QED BY <1>1, <4>1, <4>3
    <3>6. c[7] \in {Sha(x), Junk}
      BY <1>3, <3>5 DEF WrapShape
    <3> HIDE DEF restored
    <3>7. Sha(restored) = Sha(x)
      BY <3>3, <3>6, Distinct
    <3>8. restored = x
      BY <3>7, Distinct
    <3> QED BY <3>3, <3>8 DEF c, x
  <2>2. CASE c[1] # Tag("AFC5")
    BY <1>2, <1>3, <2>2 DEF WrapShape
  <2> QED BY <2>1, <2>2
<1>4. CASE PackShape(c, x)
  <2>1. c[1] # Tag("AFC5")
    BY <1>1, <1>4, Distinct DEF PackShape
  <2>2. c[3] = Junk \/ c[3].t = "manifest"
    BY <1>2, <1>4, <2>1 DEF PackShape
  <2> QED BY <1>2, <2>1, <2>2, Distinct
<1>5. CASE BareShape(c) /\ Knows(x)
  <2>1. c[1] # Tag("AFC5") /\ Leading(c) # Tag("AFC5")
    BY <1>1, <1>5, Distinct DEF BareShape
  <2>2. \E r \in Reference(File(c)) : r.original = Restored(c)
    <3>1. VerifiedByApi(c) \/ VerifiedByBatch(c)
      BY <2>1 DEF c
    <3> QED BY <2>1, <3>1 DEF VerifiedByApi, VerifiedByBatch, MatchesDigest
  <2>3. PICK r \in Reference(File(c)) : r.original = Restored(c)
    BY <2>2
  <2>4. r \in rows /\ r.op = "compress" /\ r.original # Refused
    BY DEF Reference
  <2> QED BY <1>5, <2>3, <2>4 DEF Knows, c, x
<1> QED BY <1>3, <1>4, <1>5 DEF Shaped, c, x

LEMMA FileStarts == WorkInit => FInv
<1> SUFFICES ASSUME WorkInit PROVE FInv
  OBVIOUS
<1>1. damage \in Nat /\ held = Nobody /\ rows = {}
  BY DEF WorkInit
<1> QED BY <1>1 DEF FInv, Truthful, Fresh, KnowsNone, SavedReadable

\* A request that makes a container from a text or from the container held.
LEMMA CompressKeeps ==
  ASSUME FInv, NEW t, NEW data, NEW depth, NEW magic,
         NEW S, NEW name \in Seq(S), Compress(t, data, depth, name, magic)
  PROVE  FInv'
<1> DEFINE f == Wrap(data, Payload(magic, data), name)
           c == f.cells
<1>1. /\ rows' = rows \cup {MadeRow(data, f)} /\ held' = [file |-> f, truth |-> data]
      /\ damage' = 0 /\ Restored(f.cells) = data
  BY DEF Compress, Holds, Compressed
<1>2. /\ f = File(f.cells) /\ IsSeq(f.cells) /\ Len(f.cells) >= 8
      /\ f.cells[1] = Tag("AFC5") /\ f.cells[3].t = "num" /\ f.cells[7] = Sha(data)
      /\ f.cells[6].n \in Nat
  BY WrapCells
<1> HIDE DEF f
<1>3. Cells' = c /\ held'.truth = data /\ held'.file = f
  BY <1>1 DEF Cells
<1>4. Truthful'
  <2> SUFFICES ASSUME NEW r \in rows' PROVE r.verified \/ r.digest => r.original = r.truth
    BY DEF Truthful
  <2>1. CASE r \in rows
    BY <2>1 DEF FInv, Truthful
  <2>2. CASE r = MadeRow(data, f)
    BY <2>2 DEF MadeRow, Row
  <2> QED BY <1>1, <2>1, <2>2
<1>5. WrapShape(c, data)
  BY <1>2 DEF WrapShape
<1>6. Shaped'
  BY <1>1, <1>2, <1>3, <1>5 DEF Shaped
<1>7. ~Archive'
  <2>1. c # <<>>
    BY <1>2, EmptySeq
  <2>2. Leading(c) = Tag("AFC5")
    BY <1>2, <2>1 DEF Leading
  <2> QED BY <1>3, <2>2, Distinct DEF Archive
<1>8. SavedReadable'
  BY <1>1, <1>3, <1>7 DEF SavedReadable
<1> QED BY <1>1, <1>4, <1>6, <1>8 DEF FInv

LEMMA ImportKeeps ==
  ASSUME FInv, NEW data, NEW magic \in Magics, NEW known \in BOOLEAN, Import(data, magic, known)
  PROVE  FInv'
<1> DEFINE c == Payload(magic, data)
           f == File(c)
<1>1. /\ rows' = IF known THEN rows \cup {MadeRow(data, f)} ELSE rows
      /\ held' = [file |-> f, truth |-> data] /\ damage' = 0 /\ held = Nobody
  BY DEF Import, Holds
<1>2. /\ c = <<magic, Num(Size(data)), Body(data)>> /\ Len(c) = 3 /\ IsSeq(c)
      /\ c[1] = magic /\ c[2] = Num(Size(data)) /\ c[3] = Body(data)
  <2>1. c = <<magic, Num(Size(data)), Body(data)>>
    BY DEF Payload
  <2> DEFINE y == Num(Size(data))
             z == Body(data)
  <2> HIDE DEF y, z, c
  <2>2. c = <<magic, y, z>>
    BY <2>1 DEF y, z
  <2>3. c \in Seq({magic, y, z}) /\ Len(c) = 3 /\ c[1] = magic /\ c[2] = y /\ c[3] = z
    BY <2>2
  <2> QED BY <2>1, <2>3, SeqIsSeq DEF y, z
<1>3. Cells' = c /\ held'.truth = data
  BY <1>1 DEF Cells, File
<1> HIDE DEF c
<1>4. KnowsNone
  <2>1. ~Shaped
    BY <1>1 DEF Shaped, Nobody, File, Refused
  <2> QED BY <2>1 DEF FInv, Fresh
<1>5. Truthful'
  <2> SUFFICES ASSUME NEW r \in rows' PROVE r.verified \/ r.digest => r.original = r.truth
    BY DEF Truthful
  <2>1. CASE r \in rows
    BY <2>1 DEF FInv, Truthful
  <2>2. CASE r = MadeRow(data, f)
    BY <2>2 DEF MadeRow, Row
  <2> QED BY <1>1, <2>1, <2>2
<1>6. \A r \in rows' : r.op = "compress" /\ r.original # Refused => r.original = data
  <2> SUFFICES ASSUME NEW r \in rows', r.op = "compress", r.original # Refused
               PROVE  r.original = data
    OBVIOUS
  <2>1. r \notin rows
    BY <1>4 DEF KnowsNone
  <2>2. r = MadeRow(data, f)
    BY <1>1, <2>1
  <2> QED BY <2>2 DEF MadeRow, Row
<1>7. magic \in InnerMagics
  BY EngineMagics
<1>8. Shaped'
  <2>1. BareShape(c)
    BY <1>2, <1>7 DEF BareShape
  <2>2. Knows(held.truth)'
    BY <1>3, <1>6 DEF Knows
  <2> QED BY <1>1, <1>2, <1>3, <2>1, <2>2 DEF Shaped
<1>9. SavedReadable'
  <2>1. c # <<>> /\ Leading(c) = magic /\ magic # Tag("AFCPAK") /\ magic # Tag("AFC5")
    <3>1. c # <<>>
      BY <1>2, EmptySeq
    <3> QED BY <1>2, <1>7, <3>1, Distinct DEF Leading
  <2>2. ~Archive'
    BY <1>3, <2>1 DEF Archive
  <2>3. Inner(c) = data
    <3>1. c[2].t = "num" /\ c[2].n = Size(data)
      BY <1>2 DEF Num
    <3>2. c[3].t = "body" /\ c[3].of = data
      BY <1>2 DEF Body
    <3>3. ~(Len(c) < 3)
      BY <1>2
    <3> QED BY <1>2, <1>7, <3>1, <3>2, <3>3 DEF Inner
  <2>4. Restored(c) = data
    BY <2>1, <2>3 DEF Restored
  <2> QED BY <1>3, <2>2, <2>4 DEF SavedReadable
<1> QED BY <1>1, <1>5, <1>8, <1>9 DEF FInv

\* A request that leaves the file alone adds rows that are true and name no
\* original.
LEMMA ReadKeeps ==
  ASSUME FInv, UNCHANGED user,
         \A r \in rows' \ rows : /\ r.verified \/ r.digest => r.original = r.truth
                                 /\ r.op # "compress"
  PROVE  FInv'
<1>1. held' = held /\ damage' = damage /\ Cells' = Cells
  BY DEF user, Cells
<1>2. Truthful'
  BY DEF FInv, Truthful
<1>3. Fresh => Fresh'
  BY <1>1 DEF Fresh, KnowsNone
<1>4. Shaped => Shaped'
  <2>1. Knows(held.truth) => Knows(held.truth)'
    BY <1>1 DEF Knows
  <2> QED BY <1>1, <2>1 DEF Shaped
<1>5. SavedReadable'
  <2>1. Archive' = Archive
    BY <1>1 DEF Archive
  <2> QED BY <1>1, <2>1 DEF FInv, SavedReadable
<1> QED BY <1>1, <1>2, <1>3, <1>4, <1>5 DEF FInv

LEMMA HeldShaped ==
  ASSUME FInv, held.file.t = "file"
  PROVE  Shaped
<1>1. ~Fresh
  BY DEF Fresh, Nobody, Refused
<1> QED BY <1>1 DEF FInv

LEMMA RecordKeeps ==
  ASSUME FInv, NEW t, NEW verified, Single, Restored(Cells) # Refused,
         verified => VerifiedByApi(Cells) \/ VerifiedByBatch(Cells), Record(t, verified)
  PROVE  FInv'
<1> DEFINE r == Row("decompress", Restored(Cells), held.file, verified, held.truth,
                    Leading(Cells) = Tag("AFC5"))
<1>1. rows' = rows \cup {r} /\ UNCHANGED user
  BY DEF Record
<1>2. Shaped
  BY HeldShaped DEF Single
<1>3. r.op = "decompress" /\ r.original = Restored(Cells) /\ r.truth = held.truth
      /\ r.verified = verified /\ r.digest = (Leading(Cells) = Tag("AFC5"))
  BY DEF Row
<1> HIDE DEF r
<1>4. r.verified \/ r.digest => r.original = r.truth
  BY <1>2, <1>3, VerdictTrue
<1>5. r.op # "compress"
  BY <1>3
<1> QED BY <1>1, <1>4, <1>5, ReadKeeps

LEMMA ExtractKeeps ==
  ASSUME FInv, NEW t, ExtractArchive(t)
  PROVE  FInv'
<1> DEFINE c == Cells
           row(i) == Row("decompress", Members(c)[i].data, Refused, Members(c)[i].ok,
                         held.truth[i].data, c[3].entries[i].sha # Junk)
<1>1. /\ Archive /\ Unpacks(c) /\ UNCHANGED user
      /\ rows' = rows \cup {row(i) : i \in DOMAIN Members(c)}
  BY DEF ExtractArchive
<1>2. Shaped
  BY <1>1, HeldShaped DEF Archive
<1> HIDE DEF c
<1>3. HasManifest(c) /\ c[3].t = "manifest" /\ Leading(c) = Tag("AFCPAK")
  BY <1>1 DEF Unpacks, HasManifest
<1>4. IsSeq(c) /\ 1 \in DOMAIN c /\ 3 \in DOMAIN c /\ c[1] = Tag("AFCPAK")
  <2>1. IsSeq(c)
    BY <1>2 DEF Shaped, c
  <2>2. Len(c) \in Nat /\ DOMAIN c = 1 .. Len(c)
    BY <2>1, IsSeqSeq
  <2>3. 2 + c[2].n <= Len(c) /\ c[2].n = 1
    BY <1>3 DEF HasManifest
  <2>4. c # <<>>
    BY <1>3, Distinct DEF Leading
  <2> QED BY <1>3, <2>1, <2>2, <2>3, <2>4 DEF Leading
<1>5. PackShape(c, held.truth)
  <2>1. ~WrapShape(c, held.truth)
    BY <1>4, Distinct DEF WrapShape
  <2>2. ~BareShape(c)
    BY <1>4, Distinct DEF BareShape
  <2> QED BY <1>2, <2>1, <2>2 DEF Shaped, c
<1>6. EntriesOf(c[3].entries, held.truth)
  BY <1>3, <1>4, <1>5, Distinct DEF PackShape
<1>7. DOMAIN Members(c) = DOMAIN held.truth
  BY <1>6 DEF Members, EntriesOf
<1>8. ASSUME NEW i \in DOMAIN Members(c)
      PROVE  /\ row(i).verified \/ row(i).digest => row(i).original = row(i).truth
             /\ row(i).op # "compress"
  <2> DEFINE ent == c[3].entries[i]
             end == ent.offset + ent.stored
             data == IF /\ SafePath(ent.path) # Refused /\ ent.offset >= 0
                        /\ end >= ent.offset /\ end <= Len(c) - 3
                       THEN Restored(SubSeq(c, 4 + ent.offset, 3 + end)) ELSE Refused
             m == Members(c)[i]
  <2>1. m = Member(c, ent)
    BY DEF Members
  <2>2. m # Refused
    BY <1>1 DEF Unpacks, c
  <2>3. Member(c, ent) =
          IF data = Refused \/ (ent.sha # Junk /\ ent.sha # Sha(data)) THEN Refused
          ELSE [t |-> "member", path |-> SafePath(ent.path).parts, data |-> data,
                ok |-> ent.sha # Junk]
    BY DEF Member
  <2> HIDE DEF data, m
  <2>4. m.data = data /\ m.ok = (ent.sha # Junk) /\ (ent.sha # Junk => ent.sha = Sha(data))
    BY <2>1, <2>2, <2>3
  <2>5. ent.sha \in {Sha(held.truth[i].data), Junk}
    BY <1>6, <1>7 DEF EntriesOf
  <2> HIDE DEF ent
  <2>6. ent.sha # Junk => m.data = held.truth[i].data
    BY <2>4, <2>5, Distinct
  <2>7. /\ row(i).op = "decompress" /\ row(i).verified = m.ok
        /\ row(i).digest = (ent.sha # Junk) /\ row(i).original = m.data
        /\ row(i).truth = held.truth[i].data
    BY DEF Row, m, ent
  <2> HIDE DEF row
  <2> QED BY <2>4, <2>6, <2>7
<1> HIDE DEF row
<1>9. \A r \in rows' \ rows : /\ r.verified \/ r.digest => r.original = r.truth
                              /\ r.op # "compress"
  BY <1>1, <1>8
<1> QED BY <1>1, <1>9, ReadKeeps

LEMMA CreateKeeps ==
  ASSUME FInv, NEW t, NEW picked \in Seq(Packable), CreateArchive(t, picked)
  PROVE  FInv'
<1> DEFINE items == Without(picked, {it \in ToSet(picked) : Size(it.data) = 0})
           f == Pack(items)
           c == f.cells
<1>1. /\ rows' = rows \cup {MadeRow(Refused, f), MadeRow(Refused, Refused)}
      /\ held' = [file |-> f, truth |-> items] /\ damage' = 0 /\ Packs(items)
  BY DEF CreateArchive, Holds
<1>2. items \in Seq(Packable)
  <2> DEFINE drop == {it \in ToSet(picked) : Size(it.data) = 0}
  <2> HIDE DEF drop
  <2>1. Without(picked, drop) \in Seq(Packable \ drop)
    BY WithoutType
  <2>2. Packable \ drop \subseteq Packable
    OBVIOUS
  <2> DEFINE w == Without(picked, drop)
  <2> HIDE DEF w
  <2>3. w \in Seq(Packable)
    BY <2>1, <2>2, SeqMonotonic DEF w
  <2> QED BY <2>3 DEF w, drop
<1> HIDE DEF items
<1>3. f = File(f.cells) /\ IsSeq(f.cells) /\ Laid(f.cells, items)
  BY <1>2, PackCells
<1> HIDE DEF f
<1>4. Cells' = c /\ held'.truth = items
  BY <1>1 DEF Cells
<1>5. Truthful'
  <2> SUFFICES ASSUME NEW r \in rows' PROVE r.verified \/ r.digest => r.original = r.truth
    BY DEF Truthful
  <2>1. CASE r \in rows
    BY <2>1 DEF FInv, Truthful
  <2>2. CASE r = MadeRow(Refused, f) \/ r = MadeRow(Refused, Refused)
    BY <2>2 DEF MadeRow, Row
  <2> QED BY <1>1, <2>1, <2>2
<1>6. PackShape(c, items)
  <2>1. c[1] = Tag("AFCPAK") /\ c[3].t = "manifest" /\ DOMAIN c[3].entries = DOMAIN items
    BY <1>3 DEF Laid
  <2>2. ASSUME NEW i \in DOMAIN items
        PROVE  /\ "sha" \in DOMAIN c[3].entries[i]
               /\ c[3].entries[i].sha \in {Sha(items[i].data), Junk}
    <3>1. PICK o, s \in Nat :
            c[3].entries[i] = [path |-> SafePath(items[i].path).parts, offset |-> o,
                               stored |-> s, sha |-> Sha(items[i].data)]
      BY <1>3 DEF Laid
    <3> QED BY <3>1
  <2> QED BY <2>1, <2>2 DEF PackShape, EntriesOf
<1>7. Shaped'
  BY <1>1, <1>3, <1>4, <1>6 DEF Shaped
<1>8. SavedReadable'
  <2>1. Len(c) >= 3 /\ c[1] = Tag("AFCPAK")
    BY <1>3 DEF Laid
  <2>2. c # <<>>
    BY <2>1, EmptySeq
  <2>3. Leading(c) = Tag("AFCPAK")
    BY <2>1, <2>2 DEF Leading
  <2>4. held'.file.t = "file"
    BY <1>1, <1>3 DEF File
  <2>5. Archive'
    BY <1>4, <2>3, <2>4 DEF Archive
  <2>6. /\ Unpacks(c) <=> \A i \in DOMAIN items : Settled(items[i].path)
        /\ Unpacks(c) =>
              /\ Len(Members(c)) = Len(items)
              /\ \A i \in DOMAIN items :
                   /\ Members(c)[i].data = items[i].data /\ Members(c)[i].ok
                   /\ Members(c)[i].path = SafePath(items[i].path).parts
    BY <1>1, <1>2, <1>3, ArchiveReadable
  <2> HIDE DEF c
  <2> QED BY <1>4, <2>5, <2>6 DEF SavedReadable
<1> QED BY <1>1, <1>5, <1>7, <1>8 DEF FInv

LEMMA DamageKeeps ==
  ASSUME FInv, held # Nobody, NEW d \in Damaged(Cells), Damage(d)
  PROVE  FInv'
<1>1. Shaped /\ damage \in Nat
  BY DEF FInv, Fresh
<1>2. held' = [held EXCEPT !.file = File(d)] /\ damage' = damage + 1 /\ rows' = rows
  BY DEF Damage
<1>3. held' = [file |-> File(d), truth |-> held.truth]
  BY <1>1, <1>2 DEF Shaped
<1>4. Cells' = d /\ held'.truth = held.truth
  BY <1>3 DEF Cells, File
<1>5. IsSeq(d) /\ \/ WrapShape(d, held.truth)
                  \/ PackShape(d, held.truth)
                  \/ BareShape(d) /\ Knows(held.truth)
  BY <1>1, WrapDamaged, PackDamaged, BareDamaged DEF Shaped
<1>6. Knows(held.truth) => Knows(held.truth)'
  BY <1>2, <1>4 DEF Knows
<1>7. Shaped'
  BY <1>3, <1>4, <1>5, <1>6 DEF Shaped
<1>8. Truthful'
  BY <1>2 DEF FInv, Truthful
<1>9. damage' \in Nat /\ damage' # 0
  BY <1>1, <1>2
<1>10. SavedReadable'
  BY <1>9 DEF SavedReadable
<1> QED BY <1>7, <1>8, <1>9, <1>10 DEF FInv

LEMMA UploadSeq ==
  ASSUME NEW picked \in SeqOf([path : Paths, data : Inputs], MaxItems), NEW m \in Magics
  PROVE  [i \in DOMAIN picked |-> [path |-> picked[i].path, data |-> picked[i].data,
                                   payload |-> Payload(m, picked[i].data)]]
           \in Seq(Packable)
<1>1. PICK n \in 0 .. MaxItems : picked \in [1 .. n -> [path : Paths, data : Inputs]]
  BY DEF SeqOf
<1>2. n \in Nat
  BY <1>1
<1> DEFINE ups == [i \in DOMAIN picked |-> [path |-> picked[i].path, data |-> picked[i].data,
                                            payload |-> Payload(m, picked[i].data)]]
<1>3. DOMAIN picked = 1 .. n /\ \A i \in 1 .. n : picked[i].path \in Paths /\ picked[i].data \in Inputs
  BY <1>1
<1>4. \A i \in 1 .. n : ups[i] \in Packable
  BY <1>3 DEF Packable
<1>5. ups = [i \in 1 .. n |-> ups[i]]
  BY <1>3
<1> HIDE DEF ups
<1>6. ups \in [1 .. n -> Packable]
  BY <1>4, <1>5
<1>7. ups \in Seq(Packable)
  BY <1>2, <1>6, SeqDef
<1> QED BY <1>7 DEF ups

LEMMA FileInvariance == WorkSpec => []FInv
<1>1. WorkInit => FInv
  BY FileStarts
<1>2. ASSUME FInv, [WorkNext]_work PROVE FInv'
  <2>1. ASSUME NEW t \in Threads, NEW d \in Inputs, NEW n \in Filenames, NEW m \in Magics,
               CompressText(t, d, n, m)
        PROVE  FInv'
    <3>1. n \in Seq(STRING) /\ Compress(t, d, 0, n, m)
      BY <2>1, UploadsTyped DEF CompressText
    <3> QED BY <1>2, <3>1, CompressKeeps
  <2>2. ASSUME NEW t \in Threads, NEW m \in Magics, CompressAgain(t, m) PROVE FInv'
    <3>1. Compress(t, held.file, nested + 1, <<>>, m) /\ <<>> \in Seq(STRING)
      BY <2>2 DEF CompressAgain
    <3> QED BY <1>2, <3>1, CompressKeeps
  <2>3. ASSUME NEW t \in Threads, Decompress(t) PROVE FInv'
    <3>1. Single /\ Restored(Cells) # Refused /\ Record(t, VerifiedByApi(Cells))
      BY <2>3 DEF Decompress
    <3> QED BY <1>2, <3>1, RecordKeeps
  <2>4. ASSUME NEW t \in Threads, DecompressBatch(t) PROVE FInv'
    <3>1. Single /\ Restored(Cells) # Refused /\ Record(t, VerifiedByBatch(Cells))
      BY <2>4 DEF DecompressBatch
    <3> QED BY <1>2, <3>1, RecordKeeps
  <2>5. ASSUME NEW t \in Threads, NEW m \in Magics,
               NEW picked \in SeqOf([path : Paths, data : Inputs], MaxItems),
               CreateArchive(t, [i \in DOMAIN picked |->
                 [path |-> picked[i].path, data |-> picked[i].data,
                  payload |-> Payload(m, picked[i].data)]])
        PROVE  FInv'
    BY <1>2, <2>5, UploadSeq, CreateKeeps
  <2>6. ASSUME NEW t \in Threads, ExtractArchive(t) PROVE FInv'
    BY <1>2, <2>6, ExtractKeeps
  <2>7. ASSUME UNCHANGED <<user, rows>> PROVE FInv'
    BY <1>2, <2>7, ReadKeeps
  <2>8. ASSUME NEW t \in Threads, CacheStep(t) PROVE FInv'
    BY <2>7, <2>8 DEF CacheStep
  <2>9. ASSUME NEW d \in Inputs, NEW m \in Magics, NEW known \in BOOLEAN, Import(d, m, known)
        PROVE  FInv'
    BY <1>2, <2>9, ImportKeeps
  <2>10. ASSUME held # Nobody, NEW d \in Damaged(Cells), Damage(d) PROVE FInv'
    BY <1>2, <2>10, DamageKeeps
  <2>11. CASE UNCHANGED work
    BY <2>7, <2>11 DEF work
  <2>12. CASE WorkNext
    <3>1. CASE \E d \in Inputs, m \in Magics, known \in BOOLEAN : Import(d, m, known)
      BY <2>9, <3>1
    <3>2. CASE held # Nobody /\ \E d \in Damaged(Cells) : Damage(d)
      BY <2>10, <3>2
    <3>3. CASE \E t \in Threads :
                 \/ \E d \in Inputs, n \in Filenames, m \in Magics : CompressText(t, d, n, m)
                 \/ \E m \in Magics : CompressAgain(t, m)
                 \/ Decompress(t)
                 \/ DecompressBatch(t)
                 \/ \E picked \in SeqOf([path : Paths, data : Inputs], MaxItems), m \in Magics :
                      CreateArchive(t, [i \in DOMAIN picked |->
                        [path |-> picked[i].path, data |-> picked[i].data,
                         payload |-> Payload(m, picked[i].data)]])
                 \/ ExtractArchive(t)
                 \/ CacheStep(t)
      BY <2>1, <2>2, <2>3, <2>4, <2>5, <2>6, <2>8, <3>3
    <3> QED BY <2>12, <3>1, <3>2, <3>3 DEF WorkNext
  <2> QED BY <1>2, <2>11, <2>12
<1> QED BY <1>1, <1>2, PTL DEF WorkSpec

\* However often a container was damaged, decompressed or compressed again, a
\* row of the history that says verified holds exactly the bytes the container
\* was made from.
THEOREM VerdictsAreTrue == WorkSpec => []VerdictsTrue
<1>1. FInv => VerdictsTrue
  BY DEF FInv, Truthful, VerdictsTrue
<1> QED BY <1>1, FileInvariance, PTL

\* Under the digest of an envelope or of a manifest's entry, whatever of the
\* file was damaged, nothing but the original is handed over.
THEOREM DamageIsRefused == WorkSpec => []DamageRefused
<1>1. FInv => DamageRefused
  BY DEF FInv, Truthful, DamageRefused
<1> QED BY <1>1, FileInvariance, PTL

\* Whatever the text, its name and the containers around it, what a request
\* saved can be read again; an archive of any items exactly if all its paths are
\* settled, and then every member is what was packed.
THEOREM SavedIsReadable == WorkSpec => []SavedReadable
<1>1. FInv => SavedReadable
  BY DEF FInv
<1> QED BY <1>1, FileInvariance, PTL

=============================================================================
