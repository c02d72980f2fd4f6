---------------------------- MODULE Search_proofs ----------------------------
(***************************************************************************)
(* What is proved of the two searches: PresetSearch, for any number of     *)
(* requests, rungs, workers and exceptions, and StructuralSearch, for any  *)
(* literals, bounds and files.                                             *)
(*                                                                         *)
(* The ladder.  A rung that has been submitted and is not awaited any more *)
(* has its own result, because a job names the ladder and the place it     *)
(* fills and a request that has moved on does not listen; so a ladder that *)
(* is done has the results of a run in order, whose first smallest is what *)
(* the router keeps, compares and returns.  Until a job raises, every job  *)
(* is awaited and exists once, so a request runs no more jobs than a batch *)
(* has, and WorkerCount has divided the budget by their cost.              *)
(*                                                                         *)
(* The engine.  From the first parse on the entries are distinct and short *)
(* and the symbols, written out, are the file; every round changes both    *)
(* together and keeps this (SearchInv).  The code lengths are natural      *)
(* numbers, by whichever loop they were computed, so the prices of the     *)
(* optimal parse can be compared: its table has at every place the         *)
(* cheapest way to get there, and every parse is one of the ways.          *)
(***************************************************************************)
EXTENDS PresetSearch, StructuralSearch, RecursionLemmas, FiniteSetTheorems

(***************************************************************************)
(* Least elements                                                          *)
(***************************************************************************)

\* A finite set without a least element would number its own elements by how
\* many are smaller, from 1 on, and so have one too many for the numbers.
LEMMA MinExists ==
  ASSUME NEW S, IsFiniteSet(S), S # {}, S \subseteq Int
  PROVE  \E x \in S : \A y \in S : x <= y
<1> DEFINE Below(x) == {y \in S : y < x}
           h == [x \in S |-> Cardinality(Below(x))]
           n == Cardinality(S)
<1>0. n \in Nat /\ n # 0
  BY FS_CardinalityType, FS_EmptySet
<1> SUFFICES ASSUME \A x \in S : Below(x) # {} PROVE FALSE
  OBVIOUS
<1>1. ASSUME NEW x \in S PROVE h[x] \in 1 .. n - 1 /\ IsFiniteSet(Below(x))
  <2>1. Below(x) \in SUBSET S /\ x \notin Below(x) /\ Below(x) # {}
    OBVIOUS
  <2>2. /\ IsFiniteSet(Below(x)) /\ Cardinality(Below(x)) <= n
        /\ Cardinality(Below(x)) # n
    BY <2>1, FS_Subset
  <2>3. Cardinality(Below(x)) \in Nat /\ Cardinality(Below(x)) # 0
    BY <2>1, <2>2, FS_CardinalityType, FS_EmptySet
  <2> HIDE DEF n, Below
  <2>4. Cardinality(Below(x)) \in 1 .. n - 1
    BY <1>0, <2>2, <2>3
  <2>5. QED BY <2>2, <2>4
<1>2. h \in [S -> 1 .. n - 1]
  BY <1>1
<1>3. IsFiniteSet(1 .. n - 1) /\ Cardinality(1 .. n - 1) < n
  <2> HIDE DEF n
  <2>1. 1 \in Int /\ n - 1 \in Int
    BY <1>0
  <2>2. /\ IsFiniteSet(1 .. n - 1)
        /\ Cardinality(1 .. n - 1) = IF 1 > n - 1 THEN 0 ELSE n - 1 - 1 + 1
    BY <2>1, FS_Interval
  <2>3. QED BY <1>0, <2>2
<1>4. PICK x \in S, y \in S : x # y /\ h[x] = h[y]
  <2> HIDE DEF h, n
  <2>1. Cardinality(1 .. n - 1) < Cardinality(S)
    BY <1>3 DEF n
  <2>2. QED BY <1>2, <1>3, <2>1, FS_PigeonHole
<1>5. ASSUME NEW a \in S, NEW b \in S, a < b PROVE h[a] # h[b]
  <2>0. a \in Int /\ b \in Int /\ \A e \in S : e \in Int
    OBVIOUS
  <2>1. Below(a) \in SUBSET Below(b) /\ a \in Below(b) /\ a \notin Below(a)
    <3>1. ASSUME NEW e \in S, e < a PROVE e < b
      <4>1. e \in Int
        BY <2>0
      <4> HIDE DEF h
      <4>2. QED BY <1>5, <2>0, <3>1, <4>1
    <3>2. a \in Below(b) /\ ~(a < a)
      BY <1>5, <2>0
    <3>3. QED BY <3>1, <3>2
  <2>2. Cardinality(Below(a)) # Cardinality(Below(b))
    BY <1>1, <2>1, FS_Subset
  <2>3. QED BY <2>2
<1>6. x < y \/ y < x
  BY <1>4
<1>7. QED BY <1>4, <1>5, <1>6

LEMMA LeastIs ==
  ASSUME NEW S, IsFiniteSet(S), S # {}, S \subseteq Int
  PROVE  Least(S) \in S /\ \A y \in S : Least(S) <= y
  BY MinExists DEF Least

\* FirstSmallest finds the first of the smallest values.
LEMMA FirstSmallestIs ==
  ASSUME NEW n \in Nat \ {0}, NEW f \in [1 .. n -> Int]
  PROVE  LET b == FirstSmallest(f) IN
         /\ b.rung \in 1 .. n /\ b.size = f[b.rung]
         /\ \A i \in 1 .. n : b.size <= f[i] /\ (f[i] = b.size => b.rung <= i)
<1> DEFINE T == {f[k] : k \in DOMAIN f}
           m == Least(T)
           I == {i \in DOMAIN f : f[i] = m}
<1>1. IsFiniteSet(1 .. n) /\ DOMAIN f = 1 .. n /\ 1 \in 1 .. n
  BY FS_Interval
<1>2. IsFiniteSet(T) /\ T # {} /\ T \subseteq Int
  <2>1. f \in Surjection(1 .. n, T)
    BY DEF Surjection
  <2>2. QED BY <1>1, <2>1, FS_Surjection
<1>3. m \in T /\ \A y \in T : m <= y
  <2> HIDE DEF T
  <2>1. QED BY <1>2, LeastIs
<1>4. IsFiniteSet(I) /\ I # {} /\ I \subseteq Int
  <2>1. I \in SUBSET (1 .. n) /\ 1 .. n \subseteq Int
    BY <1>1
  <2>2. PICK k \in DOMAIN f : f[k] = m
    BY <1>3
  <2>3. I # {}
    BY <2>2
  <2>4. QED BY <1>1, <2>1, <2>3, FS_Subset
<1>5. Least(I) \in I /\ \A i \in I : Least(I) <= i
  <2> HIDE DEF I
  <2>1. QED BY <1>4, LeastIs
<1>6. FirstSmallest(f) = [rung |-> Least(I), size |-> m]
  BY DEF FirstSmallest
<1> HIDE DEF m
<1>7. QED BY <1>1, <1>3, <1>5, <1>6

LEMMA Quotient ==
  ASSUME NEW b \in Nat, NEW c \in Nat \ {0}, c <= b
  PROVE  b \div c \in Nat \ {0} /\ (b \div c) * c <= b
  OBVIOUS

(***************************************************************************)
(* Ladders                                                                 *)
(***************************************************************************)
LEMMA CostIs == ASSUME NEW s \in Ladders PROVE Cost(s) \in Nat \ {0}
  BY CostsPositive DEF Ladders, Cost, Buffer

LEMMA LadderIs ==
  /\ Rungs \in Nat \ {0} /\ Ladder = 1 .. Rungs /\ IsFiniteSet(Ladder)
  /\ Ladder \subseteq Nat
  BY LadderLong, FS_Interval DEF Ladder

\* As many jobs as a batch may have fit in the budget, or there is one.
LEMMA WorkersIs ==
  ASSUME NEW s \in Ladders
  PROVE  /\ WorkerCount(s) \in 1 .. Rungs
         /\ WorkerCount(s) = 1 \/ WorkerCount(s) * Cost(s) <= Budget
<1>1. Cost(s) \in Nat \ {0} /\ Budget \in Nat /\ Rungs \in Nat \ {0} /\ Cpus \in Nat \ {0}
  BY CostIs, CostsPositive, LadderLong
<1>2. CASE Rungs = 1 \/ Budget < Cost(s)
  BY <1>1, <1>2 DEF WorkerCount
<1>3. CASE ~(Rungs = 1 \/ Budget < Cost(s))
  <2> DEFINE q == Budget \div Cost(s)
             S == {Rungs, Cpus, q}
  <2>1. q \in Nat \ {0} /\ q * Cost(s) <= Budget
    BY <1>1, <1>3, Quotient
  <2>2. IsFiniteSet(S) /\ S # {} /\ S \subseteq Int
    <3>1. S = {} \cup {Rungs} \cup {Cpus} \cup {q}
      OBVIOUS
    <3> HIDE DEF q
    <3>2. IsFiniteSet({} \cup {Rungs} \cup {Cpus} \cup {q})
      BY FS_EmptySet, FS_AddElement
    <3>3. IsFiniteSet(S)
      BY <3>1, <3>2
    <3>4. q \in Int /\ Rungs \in Int /\ Cpus \in Int
      BY <1>1, <2>1
    <3>5. QED BY <3>3, <3>4
  <2>3. Least(S) \in S /\ \A y \in S : Least(S) <= y
    <3> HIDE DEF S
    <3>1. QED BY <2>2, LeastIs
  <2>4. WorkerCount(s) = Least(S)
    BY <1>3 DEF WorkerCount
  <2> HIDE DEF q
  <2>5. Least(S) \in Nat \ {0} /\ Least(S) <= Rungs /\ Least(S) <= q
    BY <1>1, <2>1, <2>3
  <2> DEFINE w == Least(S)
  <2> HIDE DEF S
  <2>6. w * Cost(s) <= q * Cost(s)
    <3> DEFINE c == Cost(s)
    <3>1. w \in Nat /\ q \in Nat /\ c \in Nat /\ w <= q
      BY <1>1, <2>1, <2>5
    <3> HIDE DEF w, c
    <3>2. w * c <= q * c
      BY <3>1
    <3>3. QED BY <3>2 DEF c
  <2>7. w * Cost(s) \in Nat /\ q * Cost(s) \in Nat
    BY <1>1, <2>1, <2>5
  <2>8. w * Cost(s) <= Budget
    BY <1>1, <2>1, <2>6, <2>7
  <2>9. QED BY <1>1, <2>4, <2>5, <2>8
<1>4. QED BY <1>2, <1>3

\* The rungs of a batch, and where the next one starts.
Batch(s, k) == {i \in Ladder : k <= i /\ i < k + WorkerCount(s)}

LEMMA LeastOfTwo ==
  ASSUME NEW a \in Int, NEW b \in Int
  PROVE  Least({a, b}) \in {a, b} /\ Least({a, b}) <= a /\ Least({a, b}) <= b
<1>1. {a, b} = {} \cup {a} \cup {b} /\ {a, b} # {} /\ {a, b} \subseteq Int
  OBVIOUS
<1>2. IsFiniteSet({} \cup {a} \cup {b})
  BY FS_EmptySet, FS_AddElement
<1>3. IsFiniteSet({a, b})
  BY <1>1, <1>2
<1>4. QED BY <1>1, <1>3, LeastIs

LEMMA BatchIs ==
  ASSUME NEW s \in Ladders, NEW k \in 1 .. Rungs
  PROVE  /\ Batch(s, k) \in SUBSET Ladder /\ IsFiniteSet(Batch(s, k))
         /\ Cardinality(Batch(s, k)) \in Nat
         /\ Cardinality(Batch(s, k)) <= WorkerCount(s)
         /\ \A i \in 1 .. Cardinality(Batch(s, k)) : k + i - 1 \in Batch(s, k)
         /\ Least({Rungs + 1, k + WorkerCount(s)}) \in 1 .. Rungs + 1
         /\ \A i \in Ladder : i < Least({Rungs + 1, k + WorkerCount(s)})
                                => i < k \/ i \in Batch(s, k)
<1> DEFINE w == WorkerCount(s)
           last == IF k + w - 1 <= Rungs THEN k + w - 1 ELSE Rungs
           next == Least({Rungs + 1, k + w})
<1>1. w \in Nat \ {0} /\ Rungs \in Nat \ {0} /\ k \in Nat \ {0} /\ k <= Rungs
  BY WorkersIs, LadderIs
<1>2. next \in {Rungs + 1, k + w} /\ next <= Rungs + 1 /\ next <= k + w
  <2> HIDE DEF w
  <2>1. Rungs + 1 \in Int /\ k + w \in Int
    BY <1>1
  <2>2. QED BY <2>1, LeastOfTwo
<1>3. Batch(s, k) = k .. last
  <2> HIDE DEF w
  <2>1. Batch(s, k) = {i \in Ladder : k <= i /\ i < k + w}
    BY DEF Batch, w
  <2>2. QED BY <1>1, <2>1, LadderIs
<1> HIDE DEF w, next
<1>4. last \in Int /\ k \in Int /\ last >= k /\ last - k + 1 <= w /\ last <= Rungs
  BY <1>1
<1> HIDE DEF last
<1>5. IsFiniteSet(k .. last) /\ Cardinality(k .. last) = last - k + 1
  <2>1. Cardinality(k .. last) = IF k > last THEN 0 ELSE last - k + 1
    BY <1>4, FS_Interval
  <2>2. QED BY <1>4, <2>1, FS_Interval
<1>6. /\ Cardinality(Batch(s, k)) \in Nat /\ Cardinality(Batch(s, k)) <= w
      /\ \A i \in 1 .. Cardinality(Batch(s, k)) : k + i - 1 \in Batch(s, k)
  BY <1>1, <1>3, <1>4, <1>5
<1>7. Batch(s, k) \in SUBSET Ladder
  BY DEF Batch
<1>8. next \in 1 .. Rungs + 1
  BY <1>1, <1>2
<1>9. \A i \in Ladder : i < next => i < k \/ i \in Batch(s, k)
  <2> SUFFICES ASSUME NEW i \in Ladder, i < next, ~(i < k) PROVE i \in Batch(s, k)
    OBVIOUS
  <2>1. i \in Nat
    BY LadderIs
  <2>2. i < k + w /\ k <= i
    BY <1>1, <1>2, <2>1
  <2>3. QED BY <2>2 DEF Batch, w
<1>10. QED BY <1>3, <1>5, <1>6, <1>7, <1>8, <1>9 DEF w, next

\* What a complete ladder returns, and that it is the buffer's smallest.
LEMMA LadderResult ==
  ASSUME size \in [Buffers -> [Ladder -> Sizes]], NEW s \in Ladders, NEW f,
         f = size[Buffer(s)]
  PROVE  /\ Blob(s, FirstSmallest(f)) = Smallest(Buffer(s))
         /\ Blob(s, FirstSmallest(f)) \in Blobs
<1> DEFINE b == FirstSmallest(f)
<1>0. Buffer(s) \in Buffers
  BY DEF Buffer, Buffers, Ladders
<1>1. f \in [Ladder -> Sizes] /\ f \in [1 .. Rungs -> Int]
  <2>1. f \in [Ladder -> Sizes]
    BY <1>0
  <2>2. Sizes \subseteq Int /\ Ladder = 1 .. Rungs
    BY SizesNatural, LadderIs
  <2>3. QED BY <2>1, <2>2
<1>2. /\ b.rung \in Ladder /\ b.size = f[b.rung]
      /\ \A i \in Ladder : b.size <= f[i] /\ (f[i] = b.size => b.rung <= i)
  BY <1>1, LadderIs, FirstSmallestIs
<1> DEFINE P(i) == \A j \in Ladder : f[i] < f[j] \/ (f[i] = f[j] /\ i <= j)
           k == CHOOSE i \in Ladder : P(i)
<1> HIDE DEF b
<1>3. \A i \in Ladder : f[i] \in Int /\ i \in Int
  BY <1>1, LadderIs
<1>4. P(b.rung)
  BY <1>2, <1>3
<1>5. k \in Ladder /\ P(k)
  <2> HIDE DEF P
  <2>1. \E i \in Ladder : P(i)
    BY <1>2, <1>4
  <2>2. QED BY <2>1
<1>6. k = b.rung
  <2> HIDE DEF k
  <2>1. QED BY <1>2, <1>3, <1>4, <1>5
<1>7. Smallest(Buffer(s)) = [buffer |-> Buffer(s), rung |-> k, size |-> f[k]]
  BY DEF Smallest
<1> HIDE DEF k
<1>8. Blob(s, b) = [buffer |-> Buffer(s), rung |-> b.rung, size |-> f[b.rung]]
  BY <1>2 DEF Blob
<1>9. Blob(s, b) \in Blobs
  BY <1>0, <1>1, <1>2, <1>8 DEF Blobs
<1>10. QED BY <1>6, <1>7, <1>8, <1>9 DEF b

(***************************************************************************)
(* The inductive invariant                                                 *)
(***************************************************************************)
Typed ==
  /\ stage \in [Requests -> Stages]
  /\ plan \in [Requests -> Plans]
  /\ start \in [Requests -> 1 .. Rungs + 1]
  /\ awaited \in [Requests -> SUBSET Ladder]
  /\ results \in [Requests -> [Ladder -> Sizes \cup {None}]]
  /\ found \in [Requests -> Seq(Blobs)]
  /\ whole \in [Requests -> Blobs \cup {None}]
  /\ answer \in [Requests -> Blobs \cup {None}]
  /\ queue \in Seq(Jobs)
  /\ running \in SUBSET Jobs /\ IsFiniteSet(running) /\ Busy <= PoolSize
  /\ size \in [Buffers -> [Ladder -> Sizes]]
  /\ fails \in 0 .. MaxFails

\* What a request knows: the rungs whose futures it has consumed, its cache, its
\* candidates and its answer are what the engine gives.
Filled(r)  == stage[r] \in Ladders =>
  \A k \in Ladder : k < start[r] /\ k \notin awaited[r] =>
    results[r][k] = size[Buffer(stage[r])][k]
Whole(r)   == whole[r] # None => whole[r] = Smallest("file")
Found(r)   == \A i \in DOMAIN found[r] :
  /\ found[r][i] = Smallest(found[r][i].buffer)
  /\ found[r][i].buffer \in {"afc3", "tokens"}
Room(r)    == /\ stage[r] \in {"idle", "afc3"} => found[r] = <<>>
              /\ stage[r] = "tokens" => Len(found[r]) <= 1
              /\ Len(found[r]) <= 2
              /\ stage[r] = "guard" => found[r] # <<>>
Verdict(r) == IF answer[r].buffer = "file" THEN answer[r] = Smallest("file")
              ELSE answer[r].size < Smallest("file").size
Answers(r) == stage[r] = "done" =>
  answer[r] = Smallest(answer[r].buffer) /\ (~Shortcut(r) => Verdict(r))

\* A batch is no larger than it may be, and nothing is awaited once the
\* ladder's result is in the cache.
Batched(r) == /\ stage[r] \in Ladders => Cardinality(awaited[r]) <= WorkerCount(stage[r])
              /\ Cached(r) => awaited[r] = {}

Sound(r) == /\ Filled(r) /\ Whole(r) /\ Found(r) /\ Room(r) /\ Answers(r) /\ Batched(r)

\* As long as nothing has raised, every job is awaited, and is there once.
Heard == fails = 0 =>
  /\ \A j \in running : Listens(j)
  /\ \A i \in DOMAIN queue :
       /\ Listens(queue[i]) /\ queue[i] \notin running
       /\ \A k \in DOMAIN queue : k # i => queue[k] # queue[i]

IInv == Typed /\ Heard /\ \A r \in Requests : Sound(r)

(***************************************************************************)
(* Types and frames                                                        *)
(***************************************************************************)
Kept(q) ==
  /\ stage'[q] = stage[q] /\ plan'[q] = plan[q] /\ start'[q] = start[q]
  /\ awaited'[q] = awaited[q] /\ results'[q] = results[q] /\ found'[q] = found[q]
  /\ whole'[q] = whole[q] /\ answer'[q] = answer[q]

LEMMA SoundKept ==
  ASSUME NEW q \in Requests, Sound(q), Kept(q), size' = size
  PROVE  Sound(q)'
<1>1. Cached(q)' = Cached(q)
  BY DEF Kept, Cached
<1>2. \A b : Smallest(b)' = Smallest(b)
  BY DEF Smallest
<1>3. Best(q)' = Best(q)
  BY DEF Kept, Best
<1>4. Shortcut(q)' = Shortcut(q)
  BY <1>3 DEF Kept, Shortcut
<1>5. Filled(q)' /\ Whole(q)' /\ Found(q)' /\ Room(q)' /\ Batched(q)'
  BY <1>1, <1>2 DEF Kept, Sound, Filled, Whole, Found, Room, Batched
<1>6. Verdict(q)' = Verdict(q)
  BY <1>2 DEF Kept, Verdict
<1>7. Answers(q)'
  BY <1>2, <1>4, <1>6 DEF Kept, Sound, Answers
<1>8. QED BY <1>5, <1>7 DEF Sound

LEMMA EnterIs ==
  ASSUME Typed, NEW r \in Requests, NEW s \in Stages, Enter(r, s)
  PROVE  /\ stage' \in [Requests -> Stages] /\ start' \in [Requests -> 1 .. Rungs + 1]
         /\ awaited' \in [Requests -> SUBSET Ladder]
         /\ results' \in [Requests -> [Ladder -> Sizes \cup {None}]]
         /\ stage'[r] = s /\ start'[r] = 1 /\ awaited'[r] = {}
         /\ \A q \in Requests : q # r =>
              /\ stage'[q] = stage[q] /\ start'[q] = start[q]
              /\ awaited'[q] = awaited[q] /\ results'[q] = results[q]
<1>1. Nothing \in [Ladder -> Sizes \cup {None}] /\ 1 \in 1 .. Rungs + 1
  BY LadderIs DEF Nothing
<1>2. QED BY <1>1 DEF Typed, Enter

\* Entered, a ladder has consumed and awaits nothing.
LEMMA FreshLadder ==
  ASSUME NEW r \in Requests, start'[r] = 1, awaited'[r] = {}
  PROVE  Filled(r)' /\ Batched(r)'
<1>1. Filled(r)'
  BY LadderIs DEF Filled
<1>2. ASSUME NEW s \in Ladders PROVE Cardinality({}) <= WorkerCount(s)
  BY WorkersIs, LadderIs, FS_EmptySet
<1>3. Batched(r)'
  BY <1>2 DEF Batched
<1>4. QED BY <1>1, <1>3

LEMMA Conclude ==
  ASSUME IInv, Typed', Heard', NEW r \in Requests, Sound(r)', size' = size,
         \A q \in Requests : q # r => Kept(q)
  PROVE  IInv'
<1>1. ASSUME NEW q \in Requests PROVE Sound(q)'
  <2>1. CASE q = r
    BY <2>1
  <2>2. CASE q # r
    BY <2>2, SoundKept DEF IInv
  <2>3. QED BY <2>1, <2>2
<1>2. QED BY <1>1 DEF IInv

\* A request outside every ladder, or whose ladder awaits nothing, has no jobs.
LEMMA NoJobs ==
  ASSUME Typed, Heard, fails = 0, NEW r \in Requests,
         awaited[r] = {} \/ stage[r] \notin Ladders
  PROVE  /\ \A j \in running : j.req # r
         /\ \A i \in DOMAIN queue : queue[i].req # r
<1>1. \A j \in Jobs : Listens(j) => j.req # r
  BY DEF Listens, Jobs
<1>2. QED BY <1>1 DEF Typed, Heard

\* ... and so may go elsewhere.
LEMMA HeardElsewhere ==
  ASSUME Typed, Heard, NEW r \in Requests, awaited[r] = {} \/ stage[r] \notin Ladders,
         \A q \in Requests : q # r => stage'[q] = stage[q] /\ awaited'[q] = awaited[q],
         queue' = queue, running' = running, fails' = fails
  PROVE  Heard'
<1> SUFFICES ASSUME fails = 0
             PROVE  /\ \A j \in running : Listens(j)'
                    /\ \A i \in DOMAIN queue :
                         /\ Listens(queue[i])' /\ queue[i] \notin running
                         /\ \A k \in DOMAIN queue : k # i => queue[k] # queue[i]
  BY DEF Heard
<1>1. \A j \in Jobs : j.req # r /\ Listens(j) => Listens(j)'
  BY DEF Listens, Jobs
<1>2. QED BY <1>1, NoJobs DEF Typed, Heard

(***************************************************************************)
(* The steps of a request                                                  *)
(***************************************************************************)
LEMMA InitSound == Init => IInv
<1> SUFFICES ASSUME Init PROVE IInv
  OBVIOUS
<1>1. Nothing \in [Ladder -> Sizes \cup {None}] /\ 1 \in 1 .. Rungs + 1
  BY LadderIs DEF Nothing
<1>2. Busy = 0
  BY FS_EmptySet DEF Init, Busy
<1>3. Typed
  <2>1. NoPlan \in Plans
    BY DEF NoPlan, Plans
  <2>2. fails \in 0 .. MaxFails /\ Busy <= PoolSize
    BY <1>2, PoolNatural DEF Init
  <2>3. QED BY <1>1, <2>1, <2>2, FS_EmptySet DEF Init, Typed, Stages
<1>4. ASSUME NEW r \in Requests PROVE Sound(r)
  BY DEF Init, Sound, Filled, Whole, Found, Room, Answers, Batched, Cached, Ladders
<1>5. Heard
  BY DEF Init, Heard
<1>6. QED BY <1>3, <1>4, <1>5 DEF IInv

\* A step that only takes request r into another stage.
LEMMA MovedOn ==
  ASSUME IInv, NEW r \in Requests, NEW s \in Stages, Enter(r, s),
         awaited[r] = {} \/ stage[r] \notin Ladders,
         plan' \in [Requests -> Plans], \A q \in Requests : q # r => plan'[q] = plan[q],
         found' \in [Requests -> Seq(Blobs)],
         \A q \in Requests : q # r => found'[q] = found[q],
         answer' \in [Requests -> Blobs \cup {None}],
         \A q \in Requests : q # r => answer'[q] = answer[q],
         UNCHANGED <<whole, queue, running, size, fails>>,
         Found(r)', Room(r)', Answers(r)'
  PROVE  IInv'
<1>1. /\ stage' \in [Requests -> Stages] /\ start' \in [Requests -> 1 .. Rungs + 1]
      /\ awaited' \in [Requests -> SUBSET Ladder]
      /\ results' \in [Requests -> [Ladder -> Sizes \cup {None}]]
      /\ start'[r] = 1 /\ awaited'[r] = {}
      /\ \A q \in Requests : q # r =>
           /\ stage'[q] = stage[q] /\ start'[q] = start[q]
           /\ awaited'[q] = awaited[q] /\ results'[q] = results[q]
  BY EnterIs DEF IInv
<1>2. Typed'
  BY <1>1 DEF IInv, Typed, Busy
<1>3. Heard'
  BY <1>1, HeardElsewhere DEF IInv
<1>4. Filled(r)' /\ Batched(r)'
  BY <1>1, FreshLadder
<1>5. Whole(r)'
  BY ZenonT(60) DEF IInv, Sound, Whole, Smallest
<1>6. Sound(r)'
  BY <1>4, <1>5 DEF Sound
<1>7. \A q \in Requests : q # r => Kept(q)
  BY <1>1 DEF Kept
<1>8. QED BY <1>2, <1>3, <1>6, <1>7, Conclude

LEMMA BeginStep ==
  ASSUME IInv, NEW r \in Requests, NEW p \in Plans, Begin(r, p)
  PROVE  IInv'
<1>1. stage[r] = "idle" /\ found[r] = <<>> /\ found' = found /\ answer' = answer
  BY DEF IInv, Begin, Sound, Room
<1>2. FirstStage(p) \in {"afc3", "tokens", "route"}
  BY DEF FirstStage
<1>3. Enter(r, FirstStage(p)) /\ FirstStage(p) \in Stages
  BY <1>2 DEF Begin, Stages, Ladders
<1>4. stage'[r] \in {"afc3", "tokens", "route"}
  BY <1>2, <1>3, EnterIs DEF IInv
<1>5. Found(r)' /\ Room(r)' /\ Answers(r)'
  BY <1>1, <1>4 DEF Found, Room, Answers
<1>6. plan' \in [Requests -> Plans] /\ \A q \in Requests : q # r => plan'[q] = plan[q]
  BY DEF IInv, Typed, Begin
<1>7. found' \in [Requests -> Seq(Blobs)] /\ answer' \in [Requests -> Blobs \cup {None}]
  BY <1>1 DEF IInv, Typed
<1>8. stage[r] \notin Ladders /\ UNCHANGED <<whole, queue, running, size, fails>>
  BY <1>1 DEF Ladders, Begin
<1>9. QED BY <1>1, <1>3, <1>5, <1>6, <1>7, <1>8, MovedOn

\* A finished ladder has every result.
LEMMA Complete ==
  ASSUME Typed, NEW r \in Requests, Filled(r), LadderDone(r)
  PROVE  /\ Blob(stage[r], FirstSmallest(results[r])) = Smallest(Buffer(stage[r]))
         /\ Blob(stage[r], FirstSmallest(results[r])) \in Blobs
         /\ Blob(stage[r], FirstSmallest(results[r])).buffer = Buffer(stage[r])
<1>1. stage[r] \in Ladders /\ start[r] > Rungs /\ awaited[r] = {}
  BY DEF LadderDone
<1>2. ASSUME NEW k \in Ladder PROVE results[r][k] = size[Buffer(stage[r])][k]
  <2>1. k \in 1 .. Rungs /\ start[r] \in 1 .. Rungs + 1 /\ Rungs \in Nat
    BY LadderIs DEF Typed
  <2>2. k < start[r]
    BY <1>1, <2>1
  <2>3. QED BY <1>1, <2>2 DEF Filled
<1>3. Buffer(stage[r]) \in Buffers
  BY <1>1 DEF Buffer, Buffers, Ladders
<1>4. results[r] = size[Buffer(stage[r])]
  BY <1>2, <1>3 DEF Typed
<1>5. QED BY <1>1, <1>4, LadderResult DEF Typed, Blob

LEMMA CandidateStep ==
  ASSUME IInv, NEW r \in Requests, NEW kept \in BOOLEAN, Candidate(r, kept)
  PROVE  IInv'
<1> DEFINE b == Blob(stage[r], FirstSmallest(results[r]))
           next == IF stage[r] = "afc3" THEN AfterAfc3(r) ELSE "route"
<1>1. stage[r] \in {"afc3", "tokens"} /\ LadderDone(r) /\ awaited[r] = {}
  BY DEF Candidate, LadderDone
<1>2. b = Smallest(b.buffer) /\ b \in Blobs /\ b.buffer \in {"afc3", "tokens"}
  <2>1. Buffer(stage[r]) = stage[r]
    BY <1>1 DEF Buffer
  <2>2. QED BY <1>1, <2>1, Complete DEF IInv, Sound
<1>3. found[r] \in Seq(Blobs) /\ found \in [Requests -> Seq(Blobs)]
  BY DEF IInv, Typed
<1> HIDE DEF b
<1>4. found' = [found EXCEPT ![r] = IF kept THEN Append(found[r], b) ELSE found[r]]
  BY DEF Candidate, b
<1>5. /\ found' \in [Requests -> Seq(Blobs)]
      /\ found'[r] = IF kept THEN Append(found[r], b) ELSE found[r]
      /\ \A q \in Requests : q # r => found'[q] = found[q]
  BY <1>2, <1>3, <1>4
<1>6. /\ next \in {"tokens", "route"} /\ next \in Stages
      /\ stage[r] = "tokens" => next = "route"
  BY <1>1 DEF AfterAfc3, Stages, Ladders
<1>7. Enter(r, next)
  BY DEF Candidate
<1> HIDE DEF next
<1>8. stage'[r] = next
  BY <1>6, <1>7, EnterIs DEF IInv
<1>9. UNCHANGED <<plan, answer, whole, queue, running, size, fails>>
  BY DEF Candidate
<1>10. Found(r)'
  <2>1. \A x : Smallest(x)' = Smallest(x)
    BY <1>9 DEF Smallest
  <2>2. Found(r)
    BY DEF IInv, Sound
  <2>3. CASE ~kept
    BY <1>5, <2>1, <2>2, <2>3 DEF Found
  <2>4. CASE kept
    <3>1. found'[r] = Append(found[r], b)
      BY <1>5, <2>4
    <3>2. ASSUME NEW i \in DOMAIN found'[r]
          PROVE  /\ found'[r][i] = Smallest(found'[r][i].buffer)
                 /\ found'[r][i].buffer \in {"afc3", "tokens"}
      <4>1. \/ i \in DOMAIN found[r] /\ found'[r][i] = found[r][i]
            \/ found'[r][i] = b
        BY <1>3, <3>1
      <4>2. QED BY <1>2, <2>2, <4>1 DEF Found
    <3>3. QED BY <2>1, <3>2 DEF Found
  <2>5. QED BY <2>3, <2>4
<1>11. Room(r)'
  <2>1. Room(r)
    BY DEF IInv, Sound
  <2>2. CASE stage[r] = "afc3"
    <3>1. Len(found[r]) = 0
      BY <2>1, <2>2 DEF Room
    <3>2. Len(found'[r]) <= 1
      BY <1>2, <1>3, <1>5, <3>1
    <3>3. QED BY <1>6, <1>8, <3>2 DEF Room
  <2>3. CASE stage[r] = "tokens"
    <3>1. Len(found[r]) <= 1
      BY <2>1, <2>3 DEF Room
    <3>2. Len(found'[r]) <= 2
      BY <1>2, <1>3, <1>5, <3>1
    <3>3. QED BY <1>6, <1>8, <2>3, <3>2 DEF Room
  <2>4. QED BY <1>1, <2>2, <2>3
<1>12. Answers(r)'
  BY <1>6, <1>8 DEF Answers
<1>13. plan' \in [Requests -> Plans] /\ answer' \in [Requests -> Blobs \cup {None}]
  BY <1>9 DEF IInv, Typed
<1>14. QED BY <1>1, <1>5, <1>6, <1>7, <1>9, <1>10, <1>11, <1>12, <1>13, MovedOn

\* The best candidate is one of them.
LEMMA BestIs ==
  ASSUME Typed, NEW r \in Requests, Found(r), found[r] # <<>>
  PROVE  /\ Best(r) \in Blobs /\ Best(r) = Smallest(Best(r).buffer)
         /\ Best(r).buffer \in {"afc3", "tokens"}
<1> DEFINE n == Len(found[r])
           f == [i \in DOMAIN found[r] |-> found[r][i].size]
<1>1. found[r] \in Seq(Blobs) /\ n \in Nat \ {0} /\ DOMAIN found[r] = 1 .. n
  BY DEF Typed
<1>2. \A i \in 1 .. n : found[r][i] \in Blobs /\ found[r][i].size \in Int
  <2>1. \A b \in Blobs : b.size \in Int
    <3>1. \A b \in Blobs : b.size \in Sizes
      BY DEF Blobs
    <3>2. \A x \in Sizes : x \in Int
      BY SizesNatural
    <3>3. QED BY <3>1, <3>2
  <2>2. QED BY <1>1, <2>1
<1>3. f \in [1 .. n -> Int]
  BY <1>1, <1>2
<1>4. FirstSmallest(f).rung \in 1 .. n
  <2> HIDE DEF n, f
  <2>1. QED BY <1>1, <1>3, FirstSmallestIs
<1>5. Best(r) = found[r][FirstSmallest(f).rung]
  BY DEF Best
<1> HIDE DEF f, n
<1>6. QED BY <1>1, <1>2, <1>4, <1>5 DEF Found

LEMMA RouteStep ==
  ASSUME IInv, NEW r \in Requests, Route(r)
  PROVE  IInv'
<1>1. stage[r] = "route" /\ stage[r] \notin Ladders
  BY DEF Route, Ladders
<1>2. UNCHANGED <<plan, found, whole, queue, running, size, fails>>
  BY DEF Route
<1>3. /\ plan' \in [Requests -> Plans] /\ found' \in [Requests -> Seq(Blobs)]
      /\ answer \in [Requests -> Blobs \cup {None}] /\ Found(r) /\ Room(r)
  BY <1>2 DEF IInv, Typed, Sound
<1>4. /\ \A x : Smallest(x)' = Smallest(x)
      /\ Best(r)' = Best(r) /\ Shortcut(r)' = Shortcut(r)
  BY <1>2 DEF Smallest, Best, Shortcut
<1>5. Found(r)'
  BY <1>2, <1>3, <1>4 DEF Found
<1>6. CASE Shortcut(r) /\ Best(r).size < FileLen
  <2>1. Enter(r, "done") /\ answer' = [answer EXCEPT ![r] = Best(r)] /\ "done" \in Stages
    BY <1>6 DEF Route, Return, Stages
  <2>2. Best(r) \in Blobs /\ Best(r) = Smallest(Best(r).buffer)
    BY <1>3, <1>6, BestIs DEF IInv, Shortcut
  <2>3. stage'[r] = "done" /\ answer'[r] = Best(r)
    BY <1>3, <2>1, EnterIs DEF IInv
  <2>4. Answers(r)' /\ Room(r)'
    BY <1>2, <1>3, <1>4, <1>6, <2>2, <2>3 DEF Answers, Room
  <2>5. /\ answer' \in [Requests -> Blobs \cup {None}]
        /\ \A q \in Requests : q # r => answer'[q] = answer[q]
    BY <1>3, <2>1, <2>2
  <2>6. QED BY <1>1, <1>2, <1>3, <1>5, <2>1, <2>4, <2>5, MovedOn
<1>7. CASE ~(Shortcut(r) /\ Best(r).size < FileLen)
  <2> DEFINE next == IF Shortcut(r) \/ found[r] = <<>> THEN "plain" ELSE "guard"
  <2>1. Enter(r, next) /\ answer' = answer
    BY <1>7 DEF Route
  <2>2. next \in {"plain", "guard"} /\ next \in Stages
        /\ (next = "guard" => found[r] # <<>>)
    BY DEF Stages, Ladders
  <2> HIDE DEF next
  <2>3. stage'[r] = next
    BY <2>1, <2>2, EnterIs DEF IInv
  <2>4. Answers(r)' /\ Room(r)'
    BY <1>2, <1>3, <2>2, <2>3 DEF Answers, Room
  <2>5. QED BY <1>1, <1>2, <1>3, <1>5, <2>1, <2>2, <2>4, MovedOn
<1>8. QED BY <1>6, <1>7

LEMMA KeepWholeStep ==
  ASSUME IInv, NEW r \in Requests, KeepWhole(r)
  PROVE  IInv'
<1> DEFINE b == Blob(stage[r], FirstSmallest(results[r]))
<1>1. stage[r] \in {"guard", "plain"} /\ LadderDone(r) /\ awaited[r] = {}
  BY DEF KeepWhole, LadderDone
<1>2. b = Smallest("file") /\ b \in Blobs
  <2>1. Buffer(stage[r]) = "file"
    BY <1>1 DEF Buffer
  <2>2. QED BY <1>1, <2>1, Complete DEF IInv, Sound
<1> HIDE DEF b
<1>3. whole' = [whole EXCEPT ![r] = b]
  BY DEF KeepWhole, b
<1>4. UNCHANGED <<stage, plan, start, awaited, results, found, answer, queue, running,
                  size, fails>>
  BY DEF KeepWhole
<1>5. whole' \in [Requests -> Blobs \cup {None}] /\ whole'[r] = b
      /\ \A q \in Requests : q # r => whole'[q] = whole[q]
  BY <1>2, <1>3 DEF IInv, Typed
<1>6. Typed'
  BY <1>4, <1>5 DEF IInv, Typed, Busy
<1>7. Heard'
  BY <1>4 DEF IInv, Heard, Listens
<1>8. \A x : Smallest(x)' = Smallest(x)
  BY <1>4 DEF Smallest
<1>9. Shortcut(r)' = Shortcut(r)
  BY <1>4 DEF Shortcut, Best
<1>10. Sound(r)'
  <2>1. Filled(r)' /\ Whole(r)' /\ Found(r)' /\ Room(r)'
    BY <1>2, <1>4, <1>5, <1>8 DEF IInv, Sound, Filled, Whole, Found, Room
  <2>2. Batched(r)'
    BY <1>1, <1>4 DEF IInv, Sound, Batched
  <2>3. Answers(r)'
    BY <1>1, <1>4 DEF Answers
  <2>4. QED BY <2>1, <2>2, <2>3 DEF Sound
<1>11. \A q \in Requests : q # r => Kept(q)
  BY <1>4, <1>5 DEF Kept
<1>12. QED BY <1>4, <1>6, <1>7, <1>10, <1>11, Conclude

LEMMA GuardStep ==
  ASSUME IInv, NEW r \in Requests, Guard(r) \/ Plain(r)
  PROVE  IInv'
<1>1. /\ stage[r] \in {"guard", "plain"} /\ Cached(r) /\ whole[r] # None
      /\ UNCHANGED <<plan, found, whole, queue, running, size, fails>>
  BY DEF Guard, Plain, Cached
<1>2. /\ whole[r] = Smallest("file") /\ whole[r] \in Blobs /\ awaited[r] = {}
      /\ Found(r) /\ Room(r) /\ whole[r].buffer = "file"
  <2>1. Whole(r) /\ Batched(r) /\ Found(r) /\ Room(r)
    BY DEF IInv, Sound
  <2>2. whole[r] = Smallest("file") /\ awaited[r] = {}
    BY <1>1, <2>1 DEF Whole, Batched
  <2>3. whole[r] \in Blobs
    BY <1>1 DEF IInv, Typed
  <2>4. Smallest("file").buffer = "file"
    BY DEF Smallest
  <2>5. QED BY <2>1, <2>2, <2>3, <2>4
<1>3. /\ plan' \in [Requests -> Plans] /\ found' \in [Requests -> Seq(Blobs)]
      /\ answer \in [Requests -> Blobs \cup {None}]
  BY <1>1 DEF IInv, Typed
<1>4. /\ \A x : Smallest(x)' = Smallest(x)
      /\ Best(r)' = Best(r) /\ Shortcut(r)' = Shortcut(r)
  BY <1>1 DEF Smallest, Best, Shortcut
<1>5. Found(r)'
  BY <1>1, <1>2, <1>4 DEF Found
<1>6. ASSUME NEW b \in Blobs, Return(r, b), b = Smallest(b.buffer),
             b = Smallest("file") \/ (b.size < Smallest("file").size /\ b.buffer # "file")
      PROVE  IInv'
  <2>1. Enter(r, "done") /\ answer' = [answer EXCEPT ![r] = b] /\ "done" \in Stages
    BY <1>6 DEF Return, Stages
  <2>2. stage'[r] = "done" /\ answer'[r] = b
    BY <1>3, <2>1, EnterIs DEF IInv
  <2>3. Verdict(r)'
    BY <1>2, <1>4, <1>6, <2>2 DEF Verdict
  <2>4. Answers(r)' /\ Room(r)'
    BY <1>1, <1>2, <1>4, <1>6, <2>2, <2>3 DEF Answers, Room
  <2>5. /\ answer' \in [Requests -> Blobs \cup {None}]
        /\ \A q \in Requests : q # r => answer'[q] = answer[q]
    BY <1>3, <2>1
  <2>6. QED BY <1>1, <1>2, <1>3, <1>5, <2>1, <2>4, <2>5, MovedOn
<1>7. CASE Plain(r)
  <2>1. Return(r, whole[r])
    BY <1>7 DEF Plain
  <2>2. QED BY <1>2, <1>6, <2>1
<1>8. CASE Guard(r)
  <2>1. /\ Best(r) \in Blobs /\ Best(r) = Smallest(Best(r).buffer)
        /\ Best(r).buffer \in {"afc3", "tokens"}
    BY <1>2, <1>8, BestIs DEF IInv, Room, Guard
  <2>2. CASE ~(Best(r).size >= whole[r].size)
    <3>1. Best(r).size \in Nat /\ whole[r].size \in Nat
      BY <1>2, <2>1, SizesNatural DEF Blobs
    <3>2. Return(r, Best(r)) /\ Best(r).size < Smallest("file").size
      BY <1>2, <1>8, <2>2, <3>1 DEF Guard
    <3>3. QED BY <1>6, <2>1, <3>2
  <2>3. CASE Best(r).size >= whole[r].size
    <3>1. Enter(r, "plain") /\ answer' = answer /\ "plain" \in Stages
      BY <1>8, <2>3 DEF Guard, Stages, Ladders
    <3>2. stage'[r] = "plain"
      BY <3>1, EnterIs DEF IInv
    <3>3. Answers(r)' /\ Room(r)'
      BY <1>1, <1>2, <3>2 DEF Answers, Room
    <3>4. QED BY <1>1, <1>2, <1>3, <1>5, <3>1, <3>3, MovedOn
  <2>4. QED BY <2>2, <2>3
<1>9. QED BY <1>7, <1>8

LEMMA JobIs ==
  ASSUME NEW r \in Requests, NEW s \in Ladders, NEW k \in Ladder
  PROVE  /\ Job(r, s, k) \in Jobs /\ Job(r, s, k).req = r
         /\ Job(r, s, k).stage = s /\ Job(r, s, k).rung = k
  BY DEF Job, Jobs

\* What a request submits, and where it goes.
LEMMA SubmitIs ==
  ASSUME Typed, NEW r \in Requests, Submit(r)
  PROVE  /\ stage[r] \in Ladders /\ ~Cached(r) /\ awaited[r] = {} /\ start[r] \in 1 .. Rungs
         /\ awaited' = [awaited EXCEPT ![r] = Batch(stage[r], start[r])]
         /\ start' = [start EXCEPT ![r] = Least({Rungs + 1, start[r] + WorkerCount(stage[r])})]
         /\ IF OwnThread(stage[r])
              THEN running' = running \cup {Job(r, stage[r], k) : k \in Batch(stage[r], start[r])}
                   /\ queue' = queue
              ELSE queue' = queue \o [i \in 1 .. Cardinality(Batch(stage[r], start[r])) |->
                                        Job(r, stage[r], start[r] + i - 1)]
                   /\ running' = running
         /\ UNCHANGED <<stage, plan, results, found, whole, answer, size, fails>>
<1>1. start[r] \in 1 .. Rungs
  <2>1. start[r] \in 1 .. Rungs + 1 /\ start[r] <= Rungs
    BY DEF Typed, Submit
  <2>2. QED BY <2>1, LadderIs
<1>2. QED BY <1>1 DEF Submit, InLadder, Batch

LEMMA SubmitTyped ==
  ASSUME IInv, NEW r \in Requests, Submit(r)
  PROVE  Typed'
<1> DEFINE s == stage[r]
           B == Batch(s, start[r])
           n == Cardinality(B)
<1>1. /\ s \in Ladders /\ start[r] \in 1 .. Rungs
      /\ awaited' = [awaited EXCEPT ![r] = B]
      /\ start' = [start EXCEPT ![r] = Least({Rungs + 1, start[r] + WorkerCount(s)})]
      /\ UNCHANGED <<stage, plan, results, found, whole, answer, size, fails>>
  BY SubmitIs DEF IInv
<1>2. /\ B \in SUBSET Ladder /\ IsFiniteSet(B) /\ n \in Nat
      /\ \A i \in 1 .. n : start[r] + i - 1 \in B
      /\ Least({Rungs + 1, start[r] + WorkerCount(s)}) \in 1 .. Rungs + 1
  BY <1>1, BatchIs
<1> HIDE DEF B, n
<1>3. awaited' \in [Requests -> SUBSET Ladder] /\ start' \in [Requests -> 1 .. Rungs + 1]
  BY <1>1, <1>2 DEF IInv, Typed
<1>4. /\ queue' \in Seq(Jobs) /\ running' \in SUBSET Jobs /\ IsFiniteSet(running')
      /\ Busy' <= PoolSize
  <2>1. CASE OwnThread(s)
    <3> DEFINE J == {Job(r, s, k) : k \in B}
               f == [k \in B |-> Job(r, s, k)]
    <3>1. running' = running \cup J /\ queue' = queue
      BY <2>1, SubmitIs DEF IInv, B
    <3>2. J \in SUBSET Jobs /\ \A j \in J : j.stage = s
      BY <1>1, <1>2, JobIs
    <3>3. f \in Surjection(B, J)
      BY DEF Surjection
    <3>4. IsFiniteSet(J)
      <4> HIDE DEF J, f
      <4>1. QED BY <1>2, <3>3, FS_Surjection
    <3>5. {j \in running' : ~OwnThread(j.stage)} = {j \in running : ~OwnThread(j.stage)}
      BY <2>1, <3>1, <3>2
    <3> HIDE DEF J
    <3>6. IsFiniteSet(running \cup J)
      BY <3>4, FS_Union DEF IInv, Typed
    <3>7. QED BY <3>1, <3>2, <3>5, <3>6 DEF IInv, Typed, Busy
  <2>2. CASE ~OwnThread(s)
    <3> DEFINE new == [i \in 1 .. n |-> Job(r, s, start[r] + i - 1)]
    <3>1. queue' = queue \o new /\ running' = running
      BY <2>2, SubmitIs DEF IInv, B, n
    <3>2. \A i \in 1 .. n : Job(r, s, start[r] + i - 1) \in Jobs
      BY <1>1, <1>2, JobIs
    <3>3. new \in Seq(Jobs)
      BY <1>2, <3>2
    <3> HIDE DEF new
    <3>4. QED BY <3>1, <3>3 DEF IInv, Typed, Busy
  <2>3. QED BY <2>1, <2>2
<1>5. QED BY <1>1, <1>3, <1>4 DEF IInv, Typed

LEMMA SubmitSound ==
  ASSUME IInv, NEW r \in Requests, Submit(r)
  PROVE  Sound(r)'
<1> DEFINE s == stage[r]
           B == Batch(s, start[r])
           next == Least({Rungs + 1, start[r] + WorkerCount(s)})
<1>1. /\ s \in Ladders /\ ~Cached(r) /\ start[r] \in 1 .. Rungs
      /\ awaited[r] = {} /\ awaited' = [awaited EXCEPT ![r] = B]
      /\ start' = [start EXCEPT ![r] = next]
      /\ UNCHANGED <<stage, plan, results, found, whole, answer, size, fails>>
  BY SubmitIs DEF IInv
<1>2. /\ Cardinality(B) <= WorkerCount(s)
      /\ \A i \in Ladder : i < next => i < start[r] \/ i \in B
  BY <1>1, BatchIs
<1> HIDE DEF B, next
<1>3. awaited'[r] = B /\ start'[r] = next
  BY <1>1 DEF IInv, Typed
<1>4. \A x : Smallest(x)' = Smallest(x)
  BY <1>1 DEF Smallest
<1>5. Filled(r)'
  BY <1>1, <1>2, <1>3 DEF IInv, Sound, Filled
<1>6. Batched(r)'
  BY <1>1, <1>2, <1>3 DEF Batched, Cached
<1>7. Whole(r)' /\ Found(r)' /\ Room(r)'
  BY <1>1, <1>4 DEF IInv, Sound, Whole, Found, Room
<1>8. Answers(r)'
  BY <1>1 DEF Answers, Ladders
<1>9. QED BY <1>5, <1>6, <1>7, <1>8 DEF Sound

HeardNext(j) == stage'[j.req] = j.stage /\ j.rung \in awaited'[j.req]

LEMMA SubmitHeard ==
  ASSUME IInv, NEW r \in Requests, Submit(r)
  PROVE  Heard'
<1> DEFINE s == stage[r]
           B == Batch(s, start[r])
           n == Cardinality(B)
<1>0. SUFFICES ASSUME fails = 0
      PROVE  /\ \A j \in running' : HeardNext(j)
             /\ \A i \in DOMAIN queue' :
                  /\ HeardNext(queue'[i]) /\ queue'[i] \notin running'
                  /\ \A k \in DOMAIN queue' : k # i => queue'[k] # queue'[i]
  <2>1. fails' = fails
    BY SubmitIs DEF IInv
  <2>2. QED BY <2>1 DEF Heard, Listens, HeardNext
<1>1. /\ s \in Ladders /\ start[r] \in 1 .. Rungs /\ awaited[r] = {}
      /\ awaited' = [awaited EXCEPT ![r] = B] /\ stage' = stage
  BY SubmitIs DEF IInv
<1>2. B \in SUBSET Ladder /\ n \in Nat /\ \A i \in 1 .. n : start[r] + i - 1 \in B
  BY <1>1, BatchIs
<1>3. awaited \in [Requests -> SUBSET Ladder] /\ running \subseteq Jobs /\ queue \in Seq(Jobs)
  BY DEF IInv, Typed
<1>4. /\ \A j \in running : j.req # r
      /\ \A i \in DOMAIN queue : queue[i].req # r
  BY <1>0, <1>1, NoJobs DEF IInv
<1> HIDE DEF B
<1>5. \A j \in Jobs : j.req # r /\ Listens(j) => HeardNext(j)
  BY <1>1, <1>3 DEF Listens, HeardNext, Jobs
<1>6. \A k \in B : /\ Job(r, s, k) \in Jobs /\ Job(r, s, k).req = r
                   /\ Job(r, s, k).rung = k /\ HeardNext(Job(r, s, k))
  <2> SUFFICES ASSUME NEW k \in B
               PROVE  /\ Job(r, s, k) \in Jobs /\ Job(r, s, k).req = r
                      /\ Job(r, s, k).rung = k /\ HeardNext(Job(r, s, k))
    OBVIOUS
  <2>1. /\ Job(r, s, k) \in Jobs /\ Job(r, s, k).req = r
        /\ Job(r, s, k).stage = s /\ Job(r, s, k).rung = k
    BY <1>1, <1>2, JobIs
  <2>2. awaited'[r] = B /\ stage'[r] = s
    BY <1>1, <1>3
  <2>3. QED BY <2>1, <2>2 DEF HeardNext
<1>7. /\ \A j \in running : HeardNext(j) /\ j \in Jobs
      /\ \A i \in DOMAIN queue :
           /\ queue[i] \in Jobs /\ HeardNext(queue[i]) /\ queue[i] \notin running
           /\ \A k \in DOMAIN queue : k # i => queue[k] # queue[i]
  <2>1. \A i \in DOMAIN queue : queue[i] \in Jobs
    BY <1>3
  <2>2. QED BY <1>0, <1>3, <1>4, <1>5, <2>1 DEF IInv, Heard
<1>8. CASE OwnThread(s)
  <2>1. running' = running \cup {Job(r, s, k) : k \in B} /\ queue' = queue
    BY <1>8, SubmitIs DEF IInv, B
  <2>2. QED BY <1>4, <1>6, <1>7, <2>1
<1>9. CASE ~OwnThread(s)
  <2> DEFINE new == [i \in 1 .. n |-> Job(r, s, start[r] + i - 1)]
             q == Len(queue)
  <2>1. queue' = queue \o new /\ running' = running
    BY <1>9, SubmitIs DEF IInv, B
  <2>2. \A i \in 1 .. n : /\ new[i] \in Jobs /\ new[i].req = r /\ HeardNext(new[i])
                          /\ new[i].rung = start[r] + i - 1
    <3> SUFFICES ASSUME NEW i \in 1 .. n
                 PROVE  /\ new[i] \in Jobs /\ new[i].req = r /\ HeardNext(new[i])
                        /\ new[i].rung = start[r] + i - 1
      OBVIOUS
    <3>1. new[i] = Job(r, s, start[r] + i - 1) /\ start[r] + i - 1 \in B
      BY <1>2
    <3> HIDE DEF new, s
    <3>2. QED BY <1>6, <3>1
  <2> HIDE DEF n
  <2>3. new \in Seq(Jobs) /\ Len(new) = n /\ DOMAIN queue = 1 .. q /\ q \in Nat
    <3>1. new \in [1 .. n -> Jobs]
      BY <2>2
    <3> HIDE DEF new
    <3>2. QED BY <1>2, <1>3, <3>1
  <2>4. \A i, k \in 1 .. n : i # k => new[i] # new[k]
    <3> HIDE DEF new
    <3> SUFFICES ASSUME NEW i \in 1 .. n, NEW k \in 1 .. n, i # k
                 PROVE  new[i].rung # new[k].rung
      OBVIOUS
    <3>1. i \in Int /\ k \in Int /\ start[r] \in Int
      BY <1>1
    <3>2. QED BY <2>2, <3>1
  <2> HIDE DEF new, q
  <2>5. DOMAIN queue' = 1 .. q + n
    BY <1>2, <1>3, <2>1, <2>3 DEF q
  <2>6. \A i \in DOMAIN queue' :
          \/ i \in DOMAIN queue /\ queue'[i] = queue[i]
          \/ i \notin DOMAIN queue /\ i - q \in 1 .. n /\ queue'[i] = new[i - q]
    BY <1>2, <1>3, <2>1, <2>3, <2>5 DEF q
  <2>7. ASSUME NEW i \in DOMAIN queue'
        PROVE  HeardNext(queue'[i]) /\ queue'[i] \notin running'
    BY <1>4, <1>7, <2>1, <2>2, <2>6
  <2>8. ASSUME NEW i \in DOMAIN queue', NEW k \in DOMAIN queue', k # i
        PROVE  queue'[k] # queue'[i]
    <3>1. i \in Int /\ k \in Int /\ q \in Int
      BY <2>3, <2>5
    <3>2. CASE i \in DOMAIN queue /\ k \in DOMAIN queue
      BY <1>7, <2>6, <2>8, <3>2
    <3>3. CASE i \notin DOMAIN queue /\ k \notin DOMAIN queue
      <4>1. i - q \in 1 .. n /\ k - q \in 1 .. n /\ i - q # k - q
        BY <2>6, <2>8, <3>1, <3>3
      <4>2. QED BY <2>4, <2>6, <3>3, <4>1
    <3>4. CASE (i \in DOMAIN queue) # (k \in DOMAIN queue)
      BY <1>4, <2>2, <2>6, <3>4
    <3>5. QED BY <3>2, <3>3, <3>4
  <2>9. \A j \in running' : HeardNext(j)
    BY <1>7, <2>1
  <2>10. QED BY <2>7, <2>8, <2>9
<1>10. QED BY <1>8, <1>9

LEMMA SubmitStep ==
  ASSUME IInv, NEW r \in Requests, Submit(r)
  PROVE  IInv'
<1>1. /\ UNCHANGED <<stage, plan, results, found, whole, answer, size>>
      /\ \A q \in Requests : q # r => start'[q] = start[q] /\ awaited'[q] = awaited[q]
  <2>1. Typed
    BY DEF IInv
  <2> DEFINE B == Batch(stage[r], start[r])
             k == Least({Rungs + 1, start[r] + WorkerCount(stage[r])})
  <2>2. /\ awaited' = [awaited EXCEPT ![r] = B] /\ start' = [start EXCEPT ![r] = k]
        /\ UNCHANGED <<stage, plan, results, found, whole, answer, size>>
    BY <2>1, SubmitIs
  <2> HIDE DEF B, k
  <2>3. QED BY <2>1, <2>2 DEF Typed
<1>2. \A q \in Requests : q # r => Kept(q)
  BY <1>1 DEF Kept
<1>3. QED BY <1>1, <1>2, SubmitTyped, SubmitSound, SubmitHeard, Conclude

(***************************************************************************)
(* The pool                                                                *)
(***************************************************************************)
LEMMA BusyLess ==
  ASSUME Typed, NEW j, running' = running \ {j}
  PROVE  running' \in SUBSET Jobs /\ IsFiniteSet(running') /\ Busy' <= PoolSize
<1> DEFINE S == {i \in running : ~OwnThread(i.stage)}
           T == {i \in running' : ~OwnThread(i.stage)}
<1>1. T \in SUBSET S /\ S \in SUBSET running /\ running' \in SUBSET running
  OBVIOUS
<1>2. IsFiniteSet(S) /\ IsFiniteSet(running') /\ Cardinality(S) <= PoolSize
  BY <1>1, FS_Subset DEF Typed, Busy
<1> HIDE DEF S, T
<1>3. /\ Cardinality(T) \in Nat /\ Cardinality(S) \in Nat
      /\ Cardinality(T) <= Cardinality(S)
  BY <1>1, <1>2, FS_Subset, FS_CardinalityType
<1>4. Cardinality(T) <= PoolSize
  BY <1>2, <1>3, PoolNatural
<1>5. Busy' = Cardinality(T)
  BY DEF Busy, T
<1>6. QED BY <1>1, <1>2, <1>4, <1>5 DEF Typed

LEMMA StartStep ==
  ASSUME IInv, StartJob
  PROVE  IInv'
<1> DEFINE j == Head(queue)
           S == {i \in running : ~OwnThread(i.stage)}
<1>0. Typed /\ queue \in Seq(Jobs) /\ queue # <<>>
  BY DEF IInv, Typed, StartJob
<1>1. /\ j \in Jobs /\ j = queue[1] /\ Tail(queue) \in Seq(Jobs) /\ 1 \in DOMAIN queue
      /\ \A i \in DOMAIN Tail(queue) :
           i + 1 \in DOMAIN queue /\ i + 1 # 1 /\ Tail(queue)[i] = queue[i + 1]
  BY <1>0
<1>2. /\ running' = running \cup {j} /\ queue' = Tail(queue) /\ Busy < PoolSize
      /\ UNCHANGED <<request, size, fails>>
  BY DEF StartJob
<1> HIDE DEF j
<1>3. Typed'
  <2>1. running \in SUBSET Jobs /\ IsFiniteSet(running)
    BY <1>0 DEF Typed
  <2>2. running' \in SUBSET Jobs /\ IsFiniteSet(running')
    BY <1>1, <1>2, <2>1, FS_AddElement
  <2>3. S \in SUBSET running /\ IsFiniteSet(S) /\ Cardinality(S) \in Nat
    <3>1. S \in SUBSET running
      OBVIOUS
    <3> HIDE DEF S
    <3>2. QED BY <2>1, <3>1, FS_Subset, FS_CardinalityType
  <2>4. {i \in running' : ~OwnThread(i.stage)} \in {S, S \cup {j}}
    BY <1>2
  <2>5. Cardinality(S) + 1 <= PoolSize
    <3>1. Cardinality(S) < PoolSize
      BY <1>2 DEF Busy
    <3> HIDE DEF S
    <3>2. QED BY <2>3, <3>1, PoolNatural
  <2> HIDE DEF S
  <2>6. Cardinality(S \cup {j}) <= Cardinality(S) + 1
    <3>1. Cardinality(S \cup {j}) = IF j \in S THEN Cardinality(S) ELSE Cardinality(S) + 1
      BY <2>3, FS_AddElement
    <3>2. QED BY <2>3, <3>1
  <2>7. Cardinality(S \cup {j}) <= PoolSize /\ Cardinality(S) <= PoolSize
    <3>1. Cardinality(S \cup {j}) \in Nat
      BY <2>3, FS_AddElement, FS_CardinalityType
    <3>2. QED BY <2>3, <2>5, <2>6, <3>1, PoolNatural
  <2>8. Busy' <= PoolSize
    BY <2>4, <2>7 DEF Busy
  <2>9. QED BY <1>0, <1>1, <1>2, <2>2, <2>8 DEF Typed, request
<1>4. Heard'
  <2>1. UNCHANGED <<stage, awaited, fails>>
    BY <1>2 DEF request
  <2> SUFFICES ASSUME fails = 0
               PROVE  /\ \A i \in running' : Listens(i)
                      /\ \A i \in DOMAIN Tail(queue) :
                           /\ Listens(Tail(queue)[i]) /\ Tail(queue)[i] \notin running'
                           /\ \A k \in DOMAIN Tail(queue) :
                                k # i => Tail(queue)[k] # Tail(queue)[i]
    BY <1>2, <2>1 DEF Heard, Listens
  <2>2. /\ \A i \in running : Listens(i)
        /\ \A i \in DOMAIN queue :
             /\ Listens(queue[i]) /\ queue[i] \notin running
             /\ \A k \in DOMAIN queue : k # i => queue[k] # queue[i]
    BY DEF IInv, Heard
  <2>3. \A i \in running' : Listens(i)
    BY <1>1, <1>2, <2>2
  <2>4. ASSUME NEW i \in DOMAIN Tail(queue)
        PROVE  Listens(Tail(queue)[i]) /\ Tail(queue)[i] \notin running'
    BY <1>1, <1>2, <2>2
  <2>5. ASSUME NEW i \in DOMAIN Tail(queue), NEW k \in DOMAIN Tail(queue), k # i
        PROVE  Tail(queue)[k] # Tail(queue)[i]
    <3>1. i \in Int /\ k \in Int
      BY <1>1
    <3>2. i + 1 # k + 1
      BY <2>5, <3>1
    <3>3. QED BY <1>1, <2>2, <3>2
  <2>6. QED BY <2>3, <2>4, <2>5
<1>6. \A q \in Requests : Kept(q)
  BY <1>2 DEF Kept, request
<1>8. \A q \in Requests : Sound(q)'
  BY <1>2, <1>6, SoundKept DEF IInv
<1>9. QED BY <1>3, <1>4, <1>8 DEF IInv

\* A job that ends was heard once, and so the others are still heard.
LEMMA JobGone ==
  ASSUME IInv, NEW j \in running, running' = running \ {j}, queue' = queue,
         stage' = stage, fails' = fails,
         IF Listens(j) THEN awaited' = [awaited EXCEPT ![j.req] = @ \ {j.rung}]
                       ELSE awaited' = awaited
  PROVE  Heard'
<1>0. SUFFICES ASSUME fails = 0
      PROVE  /\ \A i \in running' : HeardNext(i)
             /\ \A i \in DOMAIN queue :
                  /\ HeardNext(queue[i]) /\ queue[i] \notin running'
                  /\ \A k \in DOMAIN queue : k # i => queue[k] # queue[i]
  BY DEF Heard, Listens, HeardNext
<1>1. /\ \A i \in running : Listens(i)
      /\ \A i \in DOMAIN queue :
           /\ Listens(queue[i]) /\ queue[i] \notin running
           /\ \A k \in DOMAIN queue : k # i => queue[k] # queue[i]
  BY <1>0 DEF IInv, Heard
<1>2. /\ running \subseteq Jobs /\ awaited \in [Requests -> SUBSET Ladder]
      /\ \A i \in DOMAIN queue : queue[i] \in Jobs
  BY DEF IInv, Typed
<1>3. awaited' = [awaited EXCEPT ![j.req] = awaited[j.req] \ {j.rung}]
  BY <1>1
<1>4. ASSUME NEW i \in Jobs, Listens(i), i # j PROVE HeardNext(i)
  <2>0. j \in Jobs
    BY <1>2
  <2>1. CASE i.req # j.req
    BY <1>2, <1>3, <1>4, <2>1 DEF Listens, HeardNext, Jobs
  <2>2. CASE i.req = j.req
    <3>1. i.stage = j.stage
      BY <1>1, <1>4, <2>2 DEF Listens
    <3>2. i.rung # j.rung
      BY <1>4, <2>0, <2>2, <3>1 DEF Jobs
    <3>3. QED BY <1>2, <1>3, <1>4, <3>2 DEF Listens, HeardNext, Jobs
  <2>3. QED BY <2>1, <2>2
<1>5. QED BY <1>1, <1>2, <1>4

LEMMA JobDoneStep ==
  ASSUME IInv, NEW j \in running, JobDone(j)
  PROVE  IInv'
<1> DEFINE r == j.req
           n == size[Buffer(j.stage)][j.rung]
<1>0. /\ Typed /\ running' = running \ {j}
      /\ UNCHANGED <<stage, plan, start, found, whole, answer, queue, size, fails>>
  BY DEF IInv, JobDone
<1>1. /\ j \in Jobs /\ r \in Requests /\ j.stage \in Ladders /\ j.rung \in Ladder
  BY <1>0 DEF Typed, Jobs
<1>2. n \in Sizes
  <2>1. Buffer(j.stage) \in Buffers
    BY <1>1 DEF Buffer, Buffers, Ladders
  <2>2. QED BY <1>0, <1>1, <2>1 DEF Typed
<1> HIDE DEF n
<1>3. running' \in SUBSET Jobs /\ IsFiniteSet(running') /\ Busy' <= PoolSize
  BY <1>0, BusyLess
<1>4. Heard'
  <2>1. IF Listens(j) THEN awaited' = [awaited EXCEPT ![r] = @ \ {j.rung}]
                      ELSE awaited' = awaited
    BY DEF JobDone
  <2>2. QED BY <1>0, <2>1, JobGone
<1>5. CASE ~Listens(j)
  <2>1. awaited' = awaited /\ results' = results
    BY <1>5 DEF JobDone
  <2>2. Typed'
    BY <1>0, <1>3, <2>1 DEF Typed
  <2>3. \A q \in Requests : Kept(q)
    BY <1>0, <2>1 DEF Kept
  <2>4. Sound(r)'
    BY <1>0, <1>1, <2>3, SoundKept DEF IInv
  <2>5. QED BY <1>0, <1>1, <1>4, <2>2, <2>3, <2>4, Conclude
<1>6. CASE Listens(j)
  <2>1. /\ awaited' = [awaited EXCEPT ![r] = awaited[r] \ {j.rung}]
        /\ results' = [results EXCEPT ![r] = [results[r] EXCEPT ![j.rung] = n]]
    BY <1>6 DEF JobDone, n
  <2>2. awaited' \in [Requests -> SUBSET Ladder]
    BY <1>0, <1>1, <2>1 DEF Typed
  <2>3. results' \in [Requests -> [Ladder -> Sizes \cup {None}]]
    BY <1>0, <1>1, <1>2, <2>1 DEF Typed
  <2>4. Typed'
    BY <1>0, <1>3, <2>2, <2>3 DEF Typed
  <2>5. \A q \in Requests : q # r => Kept(q)
    BY <1>0, <1>1, <2>1 DEF Typed, Kept
  <2>6. /\ awaited'[r] = awaited[r] \ {j.rung} /\ j.rung \in awaited[r] /\ stage[r] = j.stage
        /\ results'[r][j.rung] = n
        /\ \A k \in Ladder : k # j.rung => results'[r][k] = results[r][k]
    BY <1>0, <1>1, <1>6, <2>1 DEF Typed, Listens
  <2>7. Sound(r)
    BY <1>1 DEF IInv
  <2>8. Filled(r)'
    <3>1. Filled(r)
      BY <2>7 DEF Sound
    <3> SUFFICES ASSUME stage[r] \in Ladders, NEW k \in Ladder, k < start[r],
                        k \notin awaited'[r]
                 PROVE  results'[r][k] = size[Buffer(stage[r])][k]
      BY <1>0 DEF Filled
    <3>2. CASE k = j.rung
      BY <2>6, <3>2 DEF n
    <3>3. CASE k # j.rung
      BY <2>6, <3>1, <3>3 DEF Filled
    <3>4. QED BY <3>2, <3>3
  <2>9. ~Cached(r) /\ Cached(r)' = Cached(r)
    <3>1. awaited[r] # {}
      BY <2>6
    <3>2. QED BY <1>0, <2>7, <3>1 DEF Sound, Batched, Cached
  <2>10. Batched(r)'
    <3>1. Cardinality(awaited[r]) <= WorkerCount(stage[r]) /\ stage[r] \in Ladders
      BY <1>1, <2>6, <2>7 DEF Sound, Batched
    <3>2. awaited[r] \in SUBSET Ladder /\ awaited'[r] \in SUBSET awaited[r]
      BY <1>0, <1>1, <2>6 DEF Typed
    <3>3. /\ Cardinality(awaited'[r]) \in Nat /\ Cardinality(awaited[r]) \in Nat
          /\ Cardinality(awaited'[r]) <= Cardinality(awaited[r])
      BY <3>2, LadderIs, FS_Subset, FS_CardinalityType
    <3>4. WorkerCount(stage[r]) \in Nat
      BY <3>1, WorkersIs, LadderIs
    <3>5. Cardinality(awaited'[r]) <= WorkerCount(stage[r])
      BY <3>1, <3>3, <3>4
    <3>6. QED BY <1>0, <2>9, <3>5 DEF Batched
  <2>11. \A x : Smallest(x)' = Smallest(x)
    BY <1>0 DEF Smallest
  <2>12. Whole(r)' /\ Found(r)' /\ Room(r)'
    BY <1>0, <2>7, <2>11 DEF Sound, Whole, Found, Room
  <2>13. Answers(r)'
    BY <1>0, <1>1, <2>6 DEF Answers, Ladders
  <2>14. Sound(r)'
    BY <2>8, <2>10, <2>12, <2>13 DEF Sound
  <2>15. QED BY <1>0, <1>1, <1>4, <2>4, <2>5, <2>14, Conclude
<1>7. QED BY <1>5, <1>6

LEMMA JobRaisesStep ==
  ASSUME IInv, NEW j \in running, JobRaises(j)
  PROVE  IInv'
<1> DEFINE r == j.req
           next == AfterRaise(r)
<1>0. /\ Typed /\ running' = running \ {j}
      /\ UNCHANGED <<plan, found, whole, answer, queue, size>>
  BY DEF IInv, JobRaises
<1>1. /\ j \in Jobs /\ r \in Requests /\ j.stage \in Ladders
  BY <1>0 DEF Typed, Jobs
<1>2. fails' \in 0 .. MaxFails /\ fails' # 0
  BY <1>0, PoolNatural DEF Typed, JobRaises
<1>3. running' \in SUBSET Jobs /\ IsFiniteSet(running') /\ Busy' <= PoolSize
  BY <1>0, BusyLess
<1>4. Heard'
  BY <1>2 DEF Heard
<1>5. CASE ~Listens(j)
  <2>1. UNCHANGED <<stage, start, awaited, results>>
    BY <1>5 DEF JobRaises
  <2>2. Typed'
    BY <1>0, <1>2, <1>3, <2>1 DEF Typed
  <2>3. \A q \in Requests : Kept(q)
    BY <1>0, <2>1 DEF Kept
  <2>4. Sound(r)'
    BY <1>0, <1>1, <2>3, SoundKept DEF IInv
  <2>5. QED BY <1>0, <1>1, <1>4, <2>2, <2>3, <2>4, Conclude
<1>6. CASE Listens(j)
  <2>1. Enter(r, next) /\ stage[r] \in Ladders /\ stage[r] = j.stage
    BY <1>1, <1>6 DEF JobRaises, Listens
  <2>2. next \in {"plain", "route", "failed"} /\ next \in Stages
    BY <2>1 DEF AfterRaise, Stages, Ladders
  <2> HIDE DEF next
  <2>3. /\ stage' \in [Requests -> Stages] /\ start' \in [Requests -> 1 .. Rungs + 1]
        /\ awaited' \in [Requests -> SUBSET Ladder]
        /\ results' \in [Requests -> [Ladder -> Sizes \cup {None}]]
        /\ stage'[r] = next /\ start'[r] = 1 /\ awaited'[r] = {}
        /\ \A q \in Requests : q # r =>
             /\ stage'[q] = stage[q] /\ start'[q] = start[q]
             /\ awaited'[q] = awaited[q] /\ results'[q] = results[q]
    BY <1>0, <1>1, <2>1, <2>2, EnterIs
  <2>4. Typed'
    BY <1>0, <1>2, <1>3, <2>3 DEF Typed
  <2>5. Filled(r)' /\ Batched(r)'
    BY <1>1, <2>3, FreshLadder
  <2>6. \A x : Smallest(x)' = Smallest(x)
    BY <1>0 DEF Smallest
  <2>7. Sound(r)
    BY <1>1 DEF IInv
  <2>8. Whole(r)' /\ Found(r)' /\ Room(r)'
    BY <1>0, <2>2, <2>3, <2>6, <2>7 DEF Sound, Whole, Found, Room
  <2>9. Answers(r)'
    BY <2>2, <2>3 DEF Answers
  <2>10. Sound(r)'
    BY <2>5, <2>8, <2>9 DEF Sound
  <2>11. \A q \in Requests : q # r => Kept(q)
    BY <1>0, <2>3 DEF Kept
  <2>12. QED BY <1>0, <1>1, <1>4, <2>4, <2>10, <2>11, Conclude
<1>7. QED BY <1>5, <1>6

LEMMA NextStep == IInv /\ [Next]_vars => IInv'
<1> SUFFICES ASSUME IInv, [Next]_vars PROVE IInv'
  OBVIOUS
<1>1. ASSUME NEW r \in Requests, NEW p \in Plans, Begin(r, p) PROVE IInv'
  BY <1>1, BeginStep
<1>2. ASSUME NEW r \in Requests, RequestStep(r) PROVE IInv'
  BY <1>2, SubmitStep, RouteStep, KeepWholeStep, GuardStep, CandidateStep DEF RequestStep
<1>3. CASE StartJob
  BY <1>3, StartStep
<1>4. ASSUME NEW j \in running, JobEnds(j) PROVE IInv'
  BY <1>4, JobRaisesStep, JobDoneStep DEF JobEnds
<1>5. CASE UNCHANGED vars
  <2>1. UNCHANGED <<stage, plan, start, awaited, results, found, whole, answer, queue,
                    running, size, fails>>
    BY <1>5 DEF vars, request
  <2>2. Typed' /\ Heard'
    BY <2>1 DEF IInv, Typed, Busy, Heard, Listens
  <2>3. \A q \in Requests : Sound(q)'
    BY <2>1, SoundKept DEF IInv, Kept
  <2>4. QED BY <2>2, <2>3 DEF IInv
<1>6. QED BY <1>1, <1>2, <1>3, <1>4, <1>5 DEF Next

(***************************************************************************)
(* The theorems                                                            *)
(***************************************************************************)
LEMMA Always == Spec => []IInv
<1>1. Init => IInv
  BY InitSound
<1>2. IInv /\ [Next]_vars => IInv'
  BY NextStep
<1>3. QED BY <1>1, <1>2, PTL DEF Spec

LEMMA Times ==
  ASSUME NEW m \in Nat, NEW w \in Nat, NEW c \in Nat, NEW b \in Nat, m <= w, w * c <= b
  PROVE  m * c <= b
<1>1. m * c <= w * c
  OBVIOUS
<1>2. m * c \in Nat /\ w * c \in Nat
  OBVIOUS
<1> DEFINE x == m * c
           y == w * c
<1>3. x \in Nat /\ y \in Nat /\ x <= y /\ y <= b
  BY <1>1, <1>2
<1> HIDE DEF x, y
<1>4. x <= b
  BY <1>3
<1>5. QED BY <1>4 DEF x

\* The running jobs of a request are awaited rungs of one batch.
LEMMA OfOneBatch ==
  ASSUME IInv, fails = 0, NEW r \in Requests, {j \in running : j.req = r} # {}
  PROVE  /\ stage[r] \in Ladders /\ \A j \in running : j.req = r => j.stage = stage[r]
         /\ IsFiniteSet({j \in running : j.req = r})
         /\ Cardinality({j \in running : j.req = r}) \in Nat \ {0}
         /\ Cardinality({j \in running : j.req = r}) <= WorkerCount(stage[r])
<1> DEFINE J == {j \in running : j.req = r}
           f == [j \in J |-> j.rung]
<1>1. Typed /\ (\A j \in running : Listens(j)) /\ Batched(r)
  BY DEF IInv, Heard, Sound
<1>2. /\ \A j \in J : j \in Jobs /\ j.stage = stage[r] /\ j.rung \in awaited[r] /\ j.req = r
      /\ J \in SUBSET running /\ running \subseteq Jobs
  BY <1>1 DEF Typed, Listens
<1>3. stage[r] \in Ladders
  BY <1>2 DEF Jobs
<1>4. IsFiniteSet(J) /\ J # {}
  BY <1>1, <1>2, FS_Subset DEF Typed
<1>5. /\ awaited[r] \in SUBSET Ladder /\ IsFiniteSet(awaited[r])
      /\ Cardinality(awaited[r]) <= WorkerCount(stage[r])
  BY <1>1, <1>3, LadderIs, FS_Subset DEF Typed, Batched
<1>6. f \in Injection(J, awaited[r])
  <2>1. \A i, j \in J : i.rung = j.rung => i = j
    BY <1>2 DEF Jobs
  <2> HIDE DEF J
  <2>2. f \in [J -> awaited[r]]
    BY <1>2
  <2>3. QED BY <2>1, <2>2 DEF Injection, IsInjective
<1> HIDE DEF J, f
<1>7. Cardinality(J) <= Cardinality(awaited[r])
  BY <1>4, <1>5, <1>6, FS_Injection
<1>8. /\ Cardinality(J) \in Nat /\ Cardinality(awaited[r]) \in Nat
      /\ WorkerCount(stage[r]) \in Nat /\ Cardinality(J) # 0
  BY <1>3, <1>4, <1>5, WorkersIs, LadderIs, FS_CardinalityType, FS_EmptySet
<1>9. Cardinality(J) <= WorkerCount(stage[r])
  BY <1>5, <1>7, <1>8
<1>10. QED BY <1>2, <1>3, <1>4, <1>8, <1>9 DEF J

LEMMA InBudget ==
  ASSUME IInv, fails = 0, NEW r \in Requests
  PROVE  WithinBudget(r)
<1> DEFINE J == {j \in running : j.req = r}
           c == Cost(stage[r])
           w == WorkerCount(stage[r])
           U == UNION {{j} \X (1 .. Cost(j.stage)) : j \in J}
<1>0. Memory(r) = Cardinality(U)
  BY DEF Memory
<1>1. CASE J = {}
  <2>1. U = {}
    BY <1>1
  <2>2. Memory(r) = 0
    BY <1>0, <2>1, FS_EmptySet
  <2>3. QED BY <2>2, CostsPositive DEF WithinBudget
<1>2. CASE J # {}
  <2>1. /\ stage[r] \in Ladders /\ IsFiniteSet(J) /\ \A j \in J : j.stage = stage[r]
        /\ Cardinality(J) \in Nat \ {0} /\ Cardinality(J) <= w
    BY <1>2, OfOneBatch
  <2>2. w \in Nat /\ c \in Nat /\ Budget \in Nat /\ (w = 1 \/ w * c <= Budget)
    BY <2>1, WorkersIs, CostIs, CostsPositive, LadderIs
  <2>3. CASE w = 1
    <3> HIDE DEF w
    <3>1. Cardinality(J) = 1
      <4> HIDE DEF J
      <4>1. QED BY <2>1, <2>3
    <3>2. QED BY <3>1 DEF WithinBudget
  <2>4. CASE w * c <= Budget
    <3>1. U = J \X (1 .. c)
      BY <2>1
    <3> HIDE DEF J, c, w, U
    <3>2. IsFiniteSet(1 .. c) /\ Cardinality(1 .. c) = c
      <4>1. Cardinality(1 .. c) = IF 1 > c THEN 0 ELSE c - 1 + 1
        BY <2>2, FS_Interval
      <4>2. QED BY <2>2, <4>1, FS_Interval
    <3>3. Cardinality(U) = Cardinality(J) * c
      BY <2>1, <3>1, <3>2, FS_Product
    <3>4. Cardinality(J) * c <= Budget
      BY <2>1, <2>2, <2>4, Times
    <3>5. QED BY <1>0, <3>3, <3>4 DEF WithinBudget
  <2>5. QED BY <2>2, <2>3, <2>4
<1>3. QED BY <1>1, <1>2

\* Every reachable state is typed: in particular a request has at most the two
\* candidates of compress_container, and the pool at most PoolSize busy workers.
THEOREM TypeCorrect == Spec => []TypeOK
<1>1. IInv => TypeOK
  <2> SUFFICES ASSUME IInv PROVE TypeOK
    OBVIOUS
  <2>1. Typed
    BY DEF IInv
  <2>2. ASSUME NEW r \in Requests
        PROVE  Len(found[r]) <= 2 /\ \A i \in DOMAIN found[r] : found[r][i] \in Blobs
    <3>1. Room(r) /\ found[r] \in Seq(Blobs)
      BY <2>1 DEF IInv, Sound, Typed
    <3>2. QED BY <3>1 DEF Room
  <2>3. \A i \in DOMAIN queue : queue[i] \in Jobs
    BY <2>1 DEF Typed
  <2>4. QED BY <2>1, <2>2, <2>3 DEF Typed, TypeOK
<1>2. QED BY <1>1, Always, PTL

\* A request returns what one of its ladders gives when run rung after rung, in
\* whatever order the jobs of all requests started, ended and raised
\* (presets.py _run_ladder).
THEOREM SameAnswer == Spec => []Reproducible
<1>1. IInv => Reproducible
  BY DEF IInv, Sound, Answers, Reproducible
<1>2. QED BY <1>1, Always, PTL

\* Outside the AFC3 shortcut a component wrapper is returned only when it is
\* smaller than the best rung of the plain file (containers.py
\* compress_container), and that rung is returned otherwise.
THEOREM GuardHolds == Spec => []GuardKept
<1>1. IInv => GuardKept
  BY DEF IInv, Sound, Answers, Verdict, GuardKept
<1>2. QED BY <1>1, Always, PTL

\* Until a job raises, a request never runs more jobs than the memory budget
\* has room for, or it runs one (presets.py _worker_count).
THEOREM BudgetHolds == Spec => []BudgetKept
<1>1. IInv => BudgetKept
  BY InBudget DEF BudgetKept
<1>2. QED BY <1>1, Always, PTL

(***************************************************************************)
(* Symbols and what they stand for                                         *)
(***************************************************************************)

Strings == Seq(Literals) \ {<<>>}

\* Literals, and a number for each entry of ps.
SymbolsOf(ps) == Literals \cup {Id(k) : k \in DOMAIN ps}

\* Ids of dictionary entries are numbers above every literal.
LEMMA Numbers ==
  /\ FirstPattern \in Nat /\ Literals \subseteq Nat
  /\ \A k \in Nat \ {0} : /\ Id(k) \in Nat /\ Id(k) \notin Literals /\ Id(k) >= FirstPattern
                          /\ Id(k) - FirstPattern + 1 = k
BY LiteralsBelow, SearchBounds DEF Id

LEMMA LiteralNumbers == Seq(Literals) \subseteq Seq(Nat)
<1>1. Literals \subseteq Nat
  BY Numbers
<1> SUFFICES ASSUME NEW q \in Seq(Literals) PROVE q \in Seq(Nat)
  OBVIOUS
<1> DEFINE n == Len(q)
<1>2. n \in Nat /\ q \in [1 .. n -> Literals]
  OBVIOUS
<1>3. q \in [1 .. n -> Nat]
  BY <1>1, <1>2
<1> HIDE DEF n
<1> QED BY <1>2, <1>3

\* What one symbol stands for.
LEMMA BytesOf ==
  ASSUME NEW ps \in Seq(Strings)
  PROVE  /\ \A b \in Literals : Bytes(b, ps) = <<b>> /\ <<b>> \in Strings
         /\ \A k \in DOMAIN ps : Bytes(Id(k), ps) = ps[k] /\ ps[k] \in Strings
         /\ \A x \in SymbolsOf(ps) : Bytes(x, ps) \in Strings /\ x \in Nat
<1>1. ASSUME NEW b \in Literals PROVE Bytes(b, ps) = <<b>> /\ <<b>> \in Strings
  BY DEF Bytes, Strings
<1>2. ASSUME NEW k \in DOMAIN ps
      PROVE  Bytes(Id(k), ps) = ps[k] /\ ps[k] \in Strings /\ Id(k) \in Nat
  <2>1. k \in 1 .. Len(ps) /\ k \in Nat \ {0} /\ ps[k] \in Strings
    OBVIOUS
  <2>2. Id(k) \in Nat /\ Id(k) \notin Literals /\ Id(k) - FirstPattern + 1 = k
    BY <2>1, Numbers
  <2> QED BY <2>1, <2>2 DEF Bytes
<1> QED BY <1>1, <1>2, Numbers DEF SymbolsOf

\* The bytes of each symbol of s.
Spelled(s, ps) == [i \in DOMAIN s |-> Bytes(s[i], ps)]

LEMMA SpelledType ==
  ASSUME NEW ps \in Seq(Strings), NEW s \in Seq(SymbolsOf(ps))
  PROVE  /\ Spelled(s, ps) \in Seq(Seq(Literals)) /\ Len(Spelled(s, ps)) = Len(s)
         /\ \A i \in 1 .. Len(s) : Spelled(s, ps)[i] = Bytes(s[i], ps)
         /\ Expand(s, ps) = FlattenSeq(Spelled(s, ps)) /\ Expand(s, ps) \in Seq(Literals)
<1>1. Len(s) \in Nat /\ DOMAIN s = 1 .. Len(s) /\ \A i \in 1 .. Len(s) : s[i] \in SymbolsOf(ps)
  OBVIOUS
<1>2. \A i \in 1 .. Len(s) : Bytes(s[i], ps) \in Seq(Literals)
  BY <1>1, BytesOf DEF Strings
<1>3. Spelled(s, ps) = [i \in 1 .. Len(s) |-> Bytes(s[i], ps)]
  BY <1>1 DEF Spelled
<1>4. Spelled(s, ps) \in Seq(Seq(Literals)) /\ Len(Spelled(s, ps)) = Len(s)
  BY <1>1, <1>2, <1>3
<1>5. Expand(s, ps) = FlattenSeq(Spelled(s, ps))
  BY DEF Expand, Spelled
<1> QED BY <1>1, <1>3, <1>4, <1>5, FlatType

\* Expand over the empty text, over two texts, one symbol, one symbol more.
LEMMA ExpandEmpty == ASSUME NEW ps PROVE Expand(<<>>, ps) = <<>>
<1>1. [i \in DOMAIN <<>> |-> Bytes(<<>>[i], ps)] = <<>>
  OBVIOUS
<1> QED BY <1>1, FlatEmpty DEF Expand

LEMMA ExpandConcat ==
  ASSUME NEW ps \in Seq(Strings), NEW s \in Seq(SymbolsOf(ps)), NEW t \in Seq(SymbolsOf(ps))
  PROVE  Expand(s \o t, ps) = Expand(s, ps) \o Expand(t, ps)
<1>1. s \o t \in Seq(SymbolsOf(ps)) /\ Len(s \o t) = Len(s) + Len(t)
      /\ \A i \in 1 .. Len(s) + Len(t) : (s \o t)[i] = IF i <= Len(s) THEN s[i] ELSE t[i - Len(s)]
  BY ConcatProperties
<1>2. Len(s) \in Nat /\ Len(t) \in Nat
  OBVIOUS
<1> DEFINE q == Spelled(s, ps)
           r == Spelled(t, ps)
           u == Spelled(s \o t, ps)
<1>3. /\ q \in Seq(Seq(Literals)) /\ r \in Seq(Seq(Literals)) /\ u \in Seq(Seq(Literals))
      /\ Len(q) = Len(s) /\ Len(r) = Len(t) /\ Len(u) = Len(s) + Len(t)
      /\ \A i \in 1 .. Len(s) : q[i] = Bytes(s[i], ps)
      /\ \A i \in 1 .. Len(t) : r[i] = Bytes(t[i], ps)
      /\ \A i \in 1 .. Len(s) + Len(t) : u[i] = Bytes((s \o t)[i], ps)
  BY <1>1, SpelledType
<1> HIDE DEF q, r, u
<1>4. /\ q \o r \in Seq(Seq(Literals)) /\ Len(q \o r) = Len(u)
      /\ \A i \in 1 .. Len(u) : (q \o r)[i] = IF i <= Len(q) THEN q[i] ELSE r[i - Len(q)]
  BY SMTT(40), <1>3, ConcatProperties
<1>5. ASSUME NEW i \in 1 .. Len(u) PROVE u[i] = (q \o r)[i]
  <2>1. CASE i <= Len(s)
    <3>1. i \in 1 .. Len(s) /\ i \in 1 .. Len(s) + Len(t)
      BY <1>2, <1>3, <2>1
    <3> QED BY <1>1, <1>3, <1>4, <2>1, <3>1
  <2>2. CASE ~ (i <= Len(s))
    <3>1. i - Len(s) \in 1 .. Len(t) /\ i \in 1 .. Len(s) + Len(t)
      BY <1>2, <1>3, <2>2
    <3> QED BY <1>1, <1>3, <1>4, <2>2, <3>1
  <2> QED BY <2>1, <2>2
<1>6. u = q \o r
  BY <1>3, <1>4, <1>5, SeqEqual
<1>7. FlattenSeq(u) = FlattenSeq(q) \o FlattenSeq(r)
  BY <1>3, <1>6, FlatConcat
<1> QED BY <1>1, <1>7, SpelledType DEF q, r, u

LEMMA ExpandOne ==
  ASSUME NEW ps \in Seq(Strings), NEW x \in SymbolsOf(ps)
  PROVE  Expand(<<x>>, ps) = Bytes(x, ps)
<1>1. <<x>> \in Seq(SymbolsOf(ps)) /\ Len(<<x>>) = 1 /\ <<x>>[1] = x
  OBVIOUS
<1>2. /\ Spelled(<<x>>, ps) \in Seq(Seq(Literals)) /\ Len(Spelled(<<x>>, ps)) = 1
      /\ Spelled(<<x>>, ps)[1] = Bytes(x, ps)
      /\ Expand(<<x>>, ps) = FlattenSeq(Spelled(<<x>>, ps))
  <2> DEFINE s == <<x>>
  <2>1. s \in Seq(SymbolsOf(ps)) /\ 1 \in 1 .. Len(s) /\ Len(s) = 1 /\ s[1] = x
    BY <1>1
  <2> HIDE DEF s
  <2>2. /\ Spelled(s, ps) \in Seq(Seq(Literals)) /\ Len(Spelled(s, ps)) = 1
        /\ Spelled(s, ps)[1] = Bytes(x, ps) /\ Expand(s, ps) = FlattenSeq(Spelled(s, ps))
    BY <2>1, SpelledType
  <2> QED BY <2>2 DEF s
<1>3. Bytes(x, ps) \in Seq(Literals)
  BY BytesOf DEF Strings
<1>4. Spelled(<<x>>, ps) = <<Bytes(x, ps)>>
  <2>1. <<Bytes(x, ps)>> \in Seq(Seq(Literals)) /\ Len(<<Bytes(x, ps)>>) = 1
    BY <1>3
  <2> DEFINE q == Spelled(<<x>>, ps)
             r == <<Bytes(x, ps)>>
  <2>2. r[1] = Bytes(x, ps)
    OBVIOUS
  <2> HIDE DEF q, r
  <2>3. \A i \in 1 .. Len(q) : q[i] = r[i]
    BY <1>2, <2>2 DEF q
  <2>4. q = r
    BY <1>2, <2>1, <2>3, SeqEqual DEF q, r
  <2> QED BY <2>4 DEF q, r
<1> QED BY <1>2, <1>3, <1>4, FlatOne

LEMMA ExpandAppend ==
  ASSUME NEW ps \in Seq(Strings), NEW s \in Seq(SymbolsOf(ps)), NEW x \in SymbolsOf(ps)
  PROVE  Expand(Append(s, x), ps) = Expand(s, ps) \o Bytes(x, ps)
<1>1. Append(s, x) = s \o <<x>> /\ <<x>> \in Seq(SymbolsOf(ps))
  BY AppendIsConcat
<1> QED BY <1>1, ExpandConcat, ExpandOne

\* A dictionary that has grown spells what it spelled.
LEMMA ExpandGrown ==
  ASSUME NEW ps \in Seq(Strings), NEW qs \in Seq(Strings),
         \A k \in DOMAIN ps : k \in DOMAIN qs /\ qs[k] = ps[k],
         NEW s \in Seq(SymbolsOf(ps))
  PROVE  /\ SymbolsOf(ps) \subseteq SymbolsOf(qs) /\ Expand(s, qs) = Expand(s, ps)
         /\ \A x \in SymbolsOf(ps) : Bytes(x, qs) = Bytes(x, ps)
<1>1. SymbolsOf(ps) \subseteq SymbolsOf(qs)
  BY DEF SymbolsOf
<1>2. ASSUME NEW x \in SymbolsOf(ps) PROVE Bytes(x, qs) = Bytes(x, ps)
  <2>1. CASE x \in Literals
    BY <2>1, BytesOf
  <2>2. CASE x \notin Literals
    <3>1. PICK k \in DOMAIN ps : x = Id(k)
      BY <2>2 DEF SymbolsOf
    <3> QED BY <3>1, BytesOf
  <2> QED BY <2>1, <2>2
<1>3. \A i \in DOMAIN s : s[i] \in SymbolsOf(ps)
  OBVIOUS
<1>4. Spelled(s, qs) = Spelled(s, ps)
  BY <1>2, <1>3 DEF Spelled
<1>5. Expand(s, qs) = Expand(s, ps)
  BY <1>4 DEF Expand, Spelled
<1> QED BY <1>1, <1>2, <1>5

\* Literals stand for themselves.
LEMMA ExpandLiterals ==
  ASSUME NEW ps \in Seq(Strings), NEW d \in Seq(Literals)
  PROVE  Expand(d, ps) = d
<1> DEFINE G == {s \in Seq(Literals) : Expand(s, ps) = s}
<1>1. <<>> \in G
  BY ExpandEmpty
<1>2. ASSUME NEW s \in Seq(Literals), NEW x \in Literals, s \in G PROVE Append(s, x) \in G
  <2>1. Literals \subseteq SymbolsOf(ps) /\ s \in Seq(SymbolsOf(ps)) /\ x \in SymbolsOf(ps)
    BY SeqMonotonic DEF SymbolsOf
  <2>2. Expand(Append(s, x), ps) = Expand(s, ps) \o Bytes(x, ps)
    BY <2>1, ExpandAppend
  <2>3. Expand(s, ps) = s /\ Bytes(x, ps) = <<x>>
    BY <1>2, BytesOf
  <2>4. Append(s, x) = s \o <<x>> /\ Append(s, x) \in Seq(Literals)
    BY AppendIsConcat
  <2> QED BY <2>2, <2>3, <2>4
<1>3. Seq(Literals) \subseteq G
  <2> HIDE DEF G
  <2> QED BY <1>1, <1>2, ByAppending
<1> QED BY <1>3

\* A flat sequence is spelled piece by piece.
LEMMA ExpandFlat ==
  ASSUME NEW ps \in Seq(Strings), NEW ss \in Seq(Seq(SymbolsOf(ps)))
  PROVE  Expand(FlattenSeq(ss), ps) = FlattenSeq([i \in DOMAIN ss |-> Expand(ss[i], ps)])
<1> DEFINE Q == Seq(SymbolsOf(ps))
           Each(qq) == [i \in DOMAIN qq |-> Expand(qq[i], ps)]
           G == {qq \in Seq(Q) : Expand(FlattenSeq(qq), ps) = FlattenSeq(Each(qq))}
<1>0. \A q \in Q : Expand(q, ps) \in Seq(Literals)
  BY SpelledType
<1>1. <<>> \in G
  <2>1. Each(<<>>) = <<>> /\ <<>> \in Seq(Q)
    OBVIOUS
  <2>2. Expand(FlattenSeq(<<>>), ps) = FlattenSeq(Each(<<>>))
    BY <2>1, FlatEmpty, ExpandEmpty
  <2> QED BY <2>1, <2>2
<1>2. ASSUME NEW qq \in Seq(Q), NEW q \in Q, qq \in G PROVE Append(qq, q) \in G
  <2> DEFINE n == Len(qq)
             rr == Append(qq, q)
             E == Expand(q, ps)
  <2>1. /\ n \in Nat /\ rr \in Seq(Q) /\ DOMAIN rr = 1 .. n + 1 /\ DOMAIN qq = 1 .. n
        /\ rr[n + 1] = q /\ \A i \in 1 .. n : rr[i] = qq[i] /\ qq[i] \in Q
    OBVIOUS
  <2>2. E \in Seq(Literals) /\ \A i \in 1 .. n : Expand(qq[i], ps) \in Seq(Literals)
    BY <1>0, <2>1
  <2>3. Each(qq) = [i \in 1 .. n |-> Expand(qq[i], ps)]
    BY <2>1
  <2>4. Each(rr) = [i \in 1 .. n + 1 |-> Expand(rr[i], ps)]
    BY <2>1
  <2> DEFINE a == Each(qq)
             b == Each(rr)
  <2> HIDE DEF rr, n, E
  <2>5. a \in Seq(Seq(Literals)) /\ Len(a) = n /\ \A i \in 1 .. n : a[i] = Expand(qq[i], ps)
    BY <2>1, <2>2, <2>3
  <2>6. \A i \in 1 .. n + 1 : Expand(rr[i], ps) \in Seq(Literals)
    BY <1>0, <2>1
  <2>7. b \in Seq(Seq(Literals)) /\ Len(b) = n + 1 /\ \A i \in 1 .. n + 1 : b[i] = Expand(rr[i], ps)
    <3>1. b = [i \in 1 .. n + 1 |-> Expand(rr[i], ps)]
      BY <2>4
    <3> HIDE DEF b
    <3> DEFINE m == n + 1
               T == Seq(Literals)
    <3>2. b = [i \in 1 .. m |-> b[i]] /\ \A i \in 1 .. m : b[i] \in T
      BY <2>6, <3>1
    <3>3. m \in Nat
      BY <2>1
    <3>4. b \in Seq(T) /\ Len(b) = m
      <4> HIDE DEF m, T
      <4> QED BY <3>2, <3>3, MakeSeq
    <3>5. \A i \in 1 .. n + 1 : b[i] = Expand(rr[i], ps)
      BY <3>1
    <3> QED BY <3>4, <3>5
  <2>8. Append(a, E) = b
    <3> HIDE DEF a, b
    <3>1. /\ Append(a, E) \in Seq(Seq(Literals)) /\ Len(Append(a, E)) = n + 1
          /\ \A i \in 1 .. n : Append(a, E)[i] = a[i]
          /\ Append(a, E)[n + 1] = E
      BY <2>2, <2>5, AppendProperties
    <3>2. ASSUME NEW i \in 1 .. n + 1 PROVE Append(a, E)[i] = b[i]
      <4>1. CASE i = n + 1
        BY <2>1, <2>7, <3>1, <4>1 DEF E
      <4>2. CASE i # n + 1
        <5>1. i \in 1 .. n
          BY <2>1, <4>2
        <5> QED BY <2>1, <2>5, <2>7, <3>1, <5>1
      <4> QED BY <4>1, <4>2
    <3> QED BY <2>7, <3>1, <3>2, SeqEqual
  <2>9. FlattenSeq(b) = FlattenSeq(a) \o E
    BY <2>2, <2>5, <2>8, FlatAppend
  <2>10. FlattenSeq(rr) = FlattenSeq(qq) \o q /\ FlattenSeq(qq) \in Q
    BY FlatAppend, FlatType DEF rr
  <2>11. Expand(FlattenSeq(rr), ps) = Expand(FlattenSeq(qq), ps) \o E
    BY <2>10, ExpandConcat DEF E
  <2>12. Expand(FlattenSeq(qq), ps) = FlattenSeq(a)
    BY <1>2
  <2>13. Expand(FlattenSeq(rr), ps) = FlattenSeq(b)
    BY <2>9, <2>11, <2>12
  <2> QED BY <2>1, <2>13 DEF rr
<1>3. Seq(Q) \subseteq G
  <2> HIDE DEF G, Q
  <2> QED BY <1>1, <1>2, ByAppending
<1> QED BY <1>3

(***************************************************************************)
(* The greedy parse                                                        *)
(***************************************************************************)

\* Where a pattern fits, the file goes on behind it.
LEMMA AtPlace ==
  ASSUME NEW d \in Seq(Literals), NEW p \in Strings, NEW i \in 1 .. Len(d), At(d, i, p)
  PROVE  /\ Len(p) \in Nat \ {0} /\ i + Len(p) \in i + 1 .. Len(d) + 1
         /\ SubSeq(d, i, Len(d)) = p \o SubSeq(d, i + Len(p), Len(d))
<1> DEFINE n == Len(d)
           m == Len(p)
<1>1. n \in Nat /\ i \in 1 .. n
  OBVIOUS
<1>2. m \in Nat \ {0}
  BY EmptySeq DEF Strings
<1> HIDE DEF n, m
<1>3. i + m - 1 <= n /\ SubSeq(d, i, i + m - 1) = p
  BY DEF At, n, m
<1> DEFINE e == i + m - 1
<1>4. e \in Int /\ e \in i - 1 .. n /\ e + 1 = i + m /\ n \in e .. n /\ i \in 1 .. n + 1
      /\ i + m \in i + 1 .. n + 1
  BY <1>1, <1>2, <1>3
<1>5. SubSeq(d, i, e) = p
  BY <1>3
<1> HIDE DEF e
<1>6. SubSeq(d, i, e) \o SubSeq(d, e + 1, n) = SubSeq(d, i, n)
  BY <1>4, ConcatAdjacentSubSeq DEF n
<1> QED BY <1>2, <1>4, <1>5, <1>6 DEF n, m

\* parse_greedy: whatever the dictionary, the symbols spell the file.
LEMMA GreedyParses ==
  ASSUME NEW ps \in Seq(Strings), NEW d \in Seq(Literals)
  PROVE  Greedy(d, ps) \in Seq(SymbolsOf(ps)) /\ Expand(Greedy(d, ps), ps) = d
<1> DEFINE n == Len(d)
           S == Seq(SymbolsOf(ps))
           Fit(i) == {k \in DOMAIN ps : At(d, i, ps[k])}
           Longer(i) == CHOOSE k \in Fit(i) : \A j \in Fit(i) : Len(ps[j]) <= Len(ps[k])
           First(g, i) == IF Fit(i) = {} THEN <<d[i]>> \o g[i + 1]
                          ELSE <<Id(Longer(i))>> \o g[i + Len(ps[Longer(i)])]
           Rule(g) == [i \in 1 .. n + 1 |-> IF i > n THEN <<>> ELSE First(g, i)]
           from == CHOOSE g : g = Rule(g)
<1>1. n \in Nat /\ \A i \in 1 .. n : d[i] \in Literals
  OBVIOUS
<1>2. ASSUME NEW i \in 1 .. n, Fit(i) # {} PROVE Longer(i) \in Fit(i)
  <2> DEFINE L == {Len(ps[k]) : k \in Fit(i)}
  <2>1. ASSUME NEW k \in Fit(i) PROVE Len(ps[k]) \in 0 .. n
    <3>1. ps[k] \in Strings /\ At(d, i, ps[k])
      OBVIOUS
    <3>2. Len(ps[k]) \in Nat \ {0} /\ i + Len(ps[k]) \in i + 1 .. Len(d) + 1
      BY <3>1, AtPlace
    <3> QED BY <1>1, <3>2
  <2>2. L \in SUBSET (0 .. n) /\ L # {}
    BY <1>2, <2>1
  <2>3. PICK m \in L : \A l \in L : l <= m
    <3> HIDE DEF L, n
    <3> QED BY <1>1, <2>2, GreatestNumber
  <2>4. PICK k \in Fit(i) : m = Len(ps[k])
    BY <2>3
  <2>5. \A j \in Fit(i) : Len(ps[j]) <= Len(ps[k])
    BY <2>3, <2>4
  <2> HIDE DEF Fit
  <2> QED BY <2>5
<1>3. ASSUME NEW i \in 1 .. n, Fit(i) # {}
      PROVE  LET k == Longer(i) IN
             /\ k \in DOMAIN ps /\ Id(k) \in SymbolsOf(ps) /\ Bytes(Id(k), ps) = ps[k]
             /\ ps[k] \in Strings /\ At(d, i, ps[k])
             /\ i + Len(ps[k]) \in i + 1 .. n + 1
  <2> DEFINE k == Longer(i)
  <2>1. k \in DOMAIN ps /\ At(d, i, ps[k])
    BY <1>2, <1>3
  <2> HIDE DEF k
  <2>2. Id(k) \in SymbolsOf(ps)
    BY <2>1 DEF SymbolsOf
  <2>3. Bytes(Id(k), ps) = ps[k] /\ ps[k] \in Strings
    BY <2>1, BytesOf
  <2>4. i + Len(ps[k]) \in i + 1 .. n + 1
    BY <2>1, <2>3, AtPlace
  <2> QED BY <2>1, <2>2, <2>3, <2>4 DEF k
<1>4. Greedy(d, ps) = from[1]
  BY DEF Greedy
<1> HIDE DEF Fit, Longer
<1> DEFINE Tables == [1 .. n + 1 -> S]
           rule == [i \in 1 .. n |-> [t \in Tables |-> First(t, i)]]
<1>5. ASSUME NEW i \in 1 .. n, NEW t \in Tables PROVE First(t, i) \in S
  <2>1. CASE Fit(i) = {}
    <3>1. i + 1 \in 1 .. n + 1 /\ d[i] \in SymbolsOf(ps)
      BY <1>1 DEF SymbolsOf
    <3>2. t[i + 1] \in S /\ <<d[i]>> \in S
      BY <3>1
    <3> QED BY <2>1, <3>2, ConcatProperties
  <2>2. CASE Fit(i) # {}
    <3> DEFINE k == Longer(i)
               j == i + Len(ps[k])
    <3>1. Id(k) \in SymbolsOf(ps) /\ j \in 1 .. n + 1
      BY <1>1, <1>3, <2>2
    <3> HIDE DEF k, j
    <3>2. t[j] \in S /\ <<Id(k)>> \in S
      BY <3>1
    <3>3. <<Id(k)>> \o t[j] \in S
      BY <3>2, ConcatProperties
    <3> QED BY <2>2, <3>3 DEF k, j
  <2> QED BY <2>1, <2>2
<1>6. ASSUME NEW i \in 1 .. n, NEW t \in Tables, NEW u \in Tables,
             \A j \in i + 1 .. n + 1 : t[j] = u[j]
      PROVE  First(t, i) = First(u, i)
  <2>1. CASE Fit(i) = {}
    <3>1. i + 1 \in i + 1 .. n + 1
      BY <1>1
    <3> QED BY <1>6, <2>1, <3>1
  <2>2. CASE Fit(i) # {}
    BY <1>3, <1>6, <2>2
  <2> QED BY <2>1, <2>2
<1>7. LooksBehind(S, n, rule)
  <2> HIDE DEF First, n, S
  <2>1. rule \in [1 .. n -> [[1 .. n + 1 -> S] -> S]]
    BY <1>5
  <2>2. \A i \in 1 .. n : \A t \in Tables : rule[i][t] = First(t, i)
    OBVIOUS
  <2> HIDE DEF rule
  <2>3. ASSUME NEW i \in 1 .. n, NEW t \in Tables, NEW u \in Tables,
               \A j \in i + 1 .. n + 1 : t[j] = u[j]
        PROVE  rule[i][t] = rule[i][u]
    <3>1. First(t, i) = First(u, i)
      BY <1>6, <2>3
    <3> QED BY <2>2, <3>1
  <2> QED BY <2>1, <2>3 DEF LooksBehind
<1>8. \E g : g = Rule(g)
  <2>0. <<>> \in S
    OBVIOUS
  <2> HIDE DEF First, n, S
  <2>1. PICK t \in Tables : t[n + 1] = <<>> /\ \A i \in 1 .. n : t[i] = rule[i][t]
    <3> DEFINE a == <<>>
    <3>1. a \in S /\ n \in Nat /\ LooksBehind(S, n, rule)
      BY <1>1, <1>7, <2>0
    <3> HIDE DEF rule, a
    <3>2. Fillable(S, n, a, rule)
      BY <3>1, FromTheEnd
    <3> QED BY <3>2 DEF a, Fillable
  <2>2. \A i \in 1 .. n + 1 : t[i] = IF i > n THEN <<>> ELSE First(t, i)
    <3>1. \A i \in 1 .. n : t[i] = First(t, i) /\ ~ (i > n)
      BY <1>1, <2>1
    <3>2. \A i \in 1 .. n + 1 : i \in 1 .. n \/ (i = n + 1 /\ i > n)
      BY <1>1
    <3> QED BY <2>1, <3>1, <3>2
  <2>3. t = [i \in 1 .. n + 1 |-> t[i]]
    OBVIOUS
  <2>4. t = Rule(t)
    BY SMTT(40), <2>2, <2>3
  <2> QED BY <2>4
<1>9. from = Rule(from)
  BY ZenonT(60), <1>8
<1> HIDE DEF from
<1>10. \A i \in 1 .. n + 1 : from[i] = IF i > n THEN <<>> ELSE First(from, i)
  <2> HIDE DEF First
  <2> QED BY <1>9
<1> HIDE DEF Rule, Tables, rule
<1> DEFINE G == {i \in 1 .. n + 1 : from[i] \in S /\ Expand(from[i], ps) = SubSeq(d, i, n)}
<1>11. n + 1 \in G
  <2>1. n + 1 \in 1 .. n + 1 /\ n + 1 > n /\ n + 1 \in Int
    BY <1>1
  <2>2. from[n + 1] = <<>>
    BY <1>10, <2>1
  <2>3. SubSeq(d, n + 1, n) = <<>>
    BY <1>1, <2>1, SubSeqEmpty
  <2>4. Expand(<<>>, ps) = <<>> /\ <<>> \in S
    BY ExpandEmpty
  <2> QED BY <2>1, <2>2, <2>3, <2>4
<1>12. ASSUME NEW i \in 1 .. n, \A j \in i + 1 .. n + 1 : j \in G PROVE i \in G
  <2>1. i \in 1 .. n + 1 /\ ~ (i > n) /\ from[i] = First(from, i) /\ i + 1 \in i + 1 .. n + 1
    BY <1>1, <1>10
  <2>2. CASE Fit(i) = {}
    <3>1. from[i] = <<d[i]>> \o from[i + 1]
      BY <2>1, <2>2
    <3>2. from[i + 1] \in S /\ Expand(from[i + 1], ps) = SubSeq(d, i + 1, n)
      BY <1>12, <2>1
    <3>3. d[i] \in SymbolsOf(ps) /\ <<d[i]>> \in S /\ Bytes(d[i], ps) = <<d[i]>>
      <4>1. d[i] \in Literals /\ d[i] \in SymbolsOf(ps)
        BY <1>1 DEF SymbolsOf
      <4>2. <<d[i]>> \in S
        BY <4>1
      <4> QED BY <4>1, <4>2, BytesOf
    <3>4. <<d[i]>> \o from[i + 1] \in S
      BY <3>2, <3>3, ConcatProperties
    <3>5. Expand(<<d[i]>> \o from[i + 1], ps) = Expand(<<d[i]>>, ps) \o Expand(from[i + 1], ps)
      BY <3>2, <3>3, ExpandConcat
    <3>6. Expand(<<d[i]>>, ps) = <<d[i]>>
      BY <3>3, ExpandOne
    <3>7. SubSeq(d, i, n) = <<d[i]>> \o SubSeq(d, i + 1, n)
      <4>1. n \in i .. Len(d)
        BY <1>1
      <4> QED BY <4>1, SubSeqRecursiveFirst
    <3> QED BY <2>1, <3>1, <3>2, <3>4, <3>5, <3>6, <3>7
  <2>3. CASE Fit(i) # {}
    <3> DEFINE k == Longer(i)
               j == i + Len(ps[k])
    <3>1. /\ Id(k) \in SymbolsOf(ps) /\ Bytes(Id(k), ps) = ps[k] /\ j \in i + 1 .. n + 1
          /\ ps[k] \in Strings /\ At(d, i, ps[k])
      BY <1>3, <2>3
    <3>2. from[i] = <<Id(k)>> \o from[j]
      BY <2>1, <2>3
    <3> HIDE DEF k
    <3>3. SubSeq(d, i, n) = ps[k] \o SubSeq(d, j, n)
      BY <3>1, AtPlace
    <3> HIDE DEF j
    <3>4. from[j] \in S /\ Expand(from[j], ps) = SubSeq(d, j, n)
      BY <1>12, <3>1
    <3>5. <<Id(k)>> \in S
      BY <3>1
    <3>6. <<Id(k)>> \o from[j] \in S
      BY <3>4, <3>5, ConcatProperties
    <3>7. Expand(<<Id(k)>> \o from[j], ps) = Expand(<<Id(k)>>, ps) \o Expand(from[j], ps)
      BY <3>4, <3>5, ExpandConcat
    <3>8. Expand(<<Id(k)>>, ps) = ps[k]
      BY <3>1, ExpandOne
    <3> QED BY <2>1, <3>2, <3>3, <3>4, <3>6, <3>7, <3>8
  <2> QED BY <2>2, <2>3
<1>13. 1 \in G
  <2>1. \A i \in 1 .. n + 1 : i \in G
    <3> HIDE DEF G, n
    <3> QED BY <1>1, <1>11, <1>12, BackToFirst
  <2> QED BY <1>1, <2>1
<1>14. SubSeq(d, 1, n) = d
  BY SubSeqFull
<1> QED BY <1>4, <1>13, <1>14

(***************************************************************************)
(* Pairs replaced by blocks                                                *)
(***************************************************************************)

\* Each pair has a symbol that stands for what the two stand for.
Blocks(chosen, ps) ==
  \A a, b \in SymbolsOf(ps) : <<a, b>> \in DOMAIN chosen =>
    /\ chosen[<<a, b>>] \in SymbolsOf(ps)
    /\ Bytes(chosen[<<a, b>>], ps) = Bytes(a, ps) \o Bytes(b, ps)

\* A pass that puts blocks for pairs changes the symbols, not the file.
LEMMA ReplacedSpells ==
  ASSUME NEW ps \in Seq(Strings), NEW s \in Seq(SymbolsOf(ps)), NEW chosen, Blocks(chosen, ps)
  PROVE  /\ Replaced(s, chosen) \in Seq(SymbolsOf(ps))
         /\ Expand(Replaced(s, chosen), ps) = Expand(s, ps)
<1> DEFINE n == Len(s)
           X == SymbolsOf(ps)
           S == Seq(X)
           Hit(i) == i < n /\ <<s[i], s[i + 1]>> \in DOMAIN chosen
           Block(i) == chosen[<<s[i], s[i + 1]>>]
           First(g, i) == IF Hit(i) THEN <<Block(i)>> \o g[i + 2] ELSE <<s[i]>> \o g[i + 1]
           Rule(g) == [i \in 1 .. n + 1 |-> IF i > n THEN <<>> ELSE First(g, i)]
           from == CHOOSE g : g = Rule(g)
<1>1. n \in Nat /\ \A i \in 1 .. n : s[i] \in X
  OBVIOUS
<1>2. ASSUME NEW i \in 1 .. n, Hit(i)
      PROVE  /\ i + 1 \in 1 .. n /\ i + 2 \in i + 1 .. n + 1
             /\ s[i] \in X /\ s[i + 1] \in X /\ Block(i) \in X
             /\ Bytes(Block(i), ps) = Bytes(s[i], ps) \o Bytes(s[i + 1], ps)
  <2>1. i + 1 \in 1 .. n /\ i + 2 \in i + 1 .. n + 1
    BY <1>1, <1>2
  <2>2. s[i] \in X /\ s[i + 1] \in X
    BY <1>1, <2>1
  <2> QED BY <1>2, <2>1, <2>2 DEF Blocks
<1>4. Replaced(s, chosen) = from[1]
  BY DEF Replaced
<1> HIDE DEF Hit, Block, X
<1> DEFINE Tables == [1 .. n + 1 -> S]
           rule == [i \in 1 .. n |-> [t \in Tables |-> First(t, i)]]
<1>5. ASSUME NEW i \in 1 .. n, NEW t \in Tables PROVE First(t, i) \in S
  <2>1. CASE ~ Hit(i)
    <3>1. i + 1 \in 1 .. n + 1 /\ s[i] \in X
      BY <1>1
    <3>2. t[i + 1] \in S /\ <<s[i]>> \in S
      BY <3>1
    <3> QED BY <2>1, <3>2, ConcatProperties
  <2>2. CASE Hit(i)
    <3>1. Block(i) \in X /\ i + 2 \in 1 .. n + 1
      BY <1>1, <1>2, <2>2
    <3>2. t[i + 2] \in S /\ <<Block(i)>> \in S
      BY <3>1
    <3>3. <<Block(i)>> \o t[i + 2] \in S
      BY <3>2, ConcatProperties
    <3> QED BY <2>2, <3>3
  <2> QED BY <2>1, <2>2
<1>6. ASSUME NEW i \in 1 .. n, NEW t \in Tables, NEW u \in Tables,
             \A j \in i + 1 .. n + 1 : t[j] = u[j]
      PROVE  First(t, i) = First(u, i)
  <2>1. i + 1 \in i + 1 .. n + 1
    BY <1>1
  <2>2. t[i + 1] = u[i + 1] /\ (Hit(i) => t[i + 2] = u[i + 2])
    BY <1>2, <1>6, <2>1
  <2> QED BY <2>2
<1>7. LooksBehind(S, n, rule)
  <2> HIDE DEF First, n, S
  <2>1. rule \in [1 .. n -> [[1 .. n + 1 -> S] -> S]]
    BY <1>5
  <2>2. \A i \in 1 .. n : \A t \in Tables : rule[i][t] = First(t, i)
    OBVIOUS
  <2> HIDE DEF rule
  <2>3. ASSUME NEW i \in 1 .. n, NEW t \in Tables, NEW u \in Tables,
               \A j \in i + 1 .. n + 1 : t[j] = u[j]
        PROVE  rule[i][t] = rule[i][u]
    <3>1. First(t, i) = First(u, i)
      BY <1>6, <2>3
    <3> QED BY <2>2, <3>1
  <2> QED BY <2>1, <2>3 DEF LooksBehind
<1>8. \E g : g = Rule(g)
  <2>0. <<>> \in S
    OBVIOUS
  <2> HIDE DEF First, n, S
  <2>1. PICK t \in Tables : t[n + 1] = <<>> /\ \A i \in 1 .. n : t[i] = rule[i][t]
    <3> DEFINE a == <<>>
    <3>1. a \in S /\ n \in Nat /\ LooksBehind(S, n, rule)
      BY <1>1, <1>7, <2>0
    <3> HIDE DEF rule, a
    <3>2. Fillable(S, n, a, rule)
      BY <3>1, FromTheEnd
    <3> QED BY <3>2 DEF a, Fillable
  <2>2. \A i \in 1 .. n + 1 : t[i] = IF i > n THEN <<>> ELSE First(t, i)
    <3>1. \A i \in 1 .. n : t[i] = First(t, i) /\ ~ (i > n)
      BY <1>1, <2>1
    <3>2. \A i \in 1 .. n + 1 : i \in 1 .. n \/ (i = n + 1 /\ i > n)
      BY <1>1
    <3> QED BY <2>1, <3>1, <3>2
  <2>3. t = [i \in 1 .. n + 1 |-> t[i]]
    OBVIOUS
  <2>4. t = Rule(t)
    BY SMTT(40), <2>2, <2>3
  <2> QED BY <2>4
<1>9. from = Rule(from)
  BY ZenonT(60), <1>8
<1> HIDE DEF from
<1>10. \A i \in 1 .. n + 1 : from[i] = IF i > n THEN <<>> ELSE First(from, i)
  <2> HIDE DEF First
  <2> QED BY <1>9
<1> HIDE DEF Rule, Tables, rule
<1> DEFINE rest(i) == SubSeq(s, i, n)
<1>a. ASSUME NEW i \in 1 .. n
      PROVE  rest(i) = <<s[i]>> \o rest(i + 1) /\ rest(i) \in S /\ rest(i + 1) \in S /\ <<s[i]>> \in S
  <2>1. n \in i .. Len(s) /\ i \in Int /\ i + 1 \in Int /\ n \in Int
    BY <1>1
  <2>2. rest(i) = <<s[i]>> \o rest(i + 1)
    BY <2>1, SubSeqRecursiveFirst
  <2>3. \A j \in i .. n : s[j] \in X
    BY <1>1, <2>1
  <2>4. \A j \in i + 1 .. n : s[j] \in X
    BY <1>1, <2>1
  <2>5. rest(i) \in S /\ rest(i + 1) \in S
    <3> HIDE DEF n
    <3> QED BY <2>1, <2>3, <2>4, SubSeqProperties
  <2>6. <<s[i]>> \in S
    BY <1>1
  <2> QED BY <2>2, <2>5, <2>6
<1> HIDE DEF rest
<1>b. ASSUME NEW i \in 1 .. n
      PROVE  Expand(rest(i), ps) = Bytes(s[i], ps) \o Expand(rest(i + 1), ps)
  <2>1. rest(i) = <<s[i]>> \o rest(i + 1) /\ rest(i + 1) \in S /\ <<s[i]>> \in S /\ s[i] \in X
    BY <1>1, <1>a
  <2>2. Expand(<<s[i]>> \o rest(i + 1), ps) = Expand(<<s[i]>>, ps) \o Expand(rest(i + 1), ps)
    BY <2>1, ExpandConcat DEF X
  <2>3. Expand(<<s[i]>>, ps) = Bytes(s[i], ps)
    BY <2>1, ExpandOne DEF X
  <2> QED BY <2>1, <2>2, <2>3
<1> DEFINE G == {i \in 1 .. n + 1 : from[i] \in S /\ Expand(from[i], ps) = Expand(rest(i), ps)}
<1>11. n + 1 \in G
  <2>1. n + 1 \in 1 .. n + 1 /\ n + 1 > n /\ n + 1 \in Int
    BY <1>1
  <2>2. from[n + 1] = <<>>
    BY <1>10, <2>1
  <2>3. rest(n + 1) = <<>>
    BY <1>1, <2>1, SubSeqEmpty DEF rest
  <2>4. <<>> \in S
    OBVIOUS
  <2> QED BY <2>1, <2>2, <2>3, <2>4
<1>12. ASSUME NEW i \in 1 .. n, \A j \in i + 1 .. n + 1 : j \in G PROVE i \in G
  <2>0. i \in 1 .. n + 1 /\ ~ (i > n) /\ i + 1 \in i + 1 .. n + 1
    <3> HIDE DEF n, First
    <3> QED BY <1>1
  <2>1. i \in 1 .. n + 1 /\ ~ (i > n) /\ from[i] = First(from, i) /\ i + 1 \in i + 1 .. n + 1
    <3> HIDE DEF n, First
    <3> QED BY <1>10, <2>0
  <2>2. CASE ~ Hit(i)
    <3>1. from[i] = <<s[i]>> \o from[i + 1]
      BY <2>1, <2>2
    <3>2. from[i + 1] \in S /\ Expand(from[i + 1], ps) = Expand(rest(i + 1), ps)
      BY <1>12, <2>1
    <3>3. s[i] \in X /\ <<s[i]>> \in S
      BY <1>1
    <3>4. <<s[i]>> \o from[i + 1] \in S
      BY <3>2, <3>3, ConcatProperties
    <3>5. Expand(<<s[i]>> \o from[i + 1], ps) = Expand(<<s[i]>>, ps) \o Expand(from[i + 1], ps)
      BY <3>2, <3>3, ExpandConcat DEF X
    <3>6. Expand(<<s[i]>>, ps) = Bytes(s[i], ps)
      BY <3>3, ExpandOne DEF X
    <3> QED BY <1>b, <2>1, <3>1, <3>2, <3>4, <3>5, <3>6
  <2>3. CASE Hit(i)
    <3>1. /\ i + 1 \in 1 .. n /\ i + 2 \in i + 1 .. n + 1 /\ s[i] \in X /\ s[i + 1] \in X
          /\ Block(i) \in X /\ Bytes(Block(i), ps) = Bytes(s[i], ps) \o Bytes(s[i + 1], ps)
          /\ (i + 1) + 1 = i + 2
      BY <1>2, <2>3
    <3>2. from[i] = <<Block(i)>> \o from[i + 2]
      BY <2>1, <2>3
    <3>3. Expand(rest(i), ps) = Bytes(s[i], ps) \o Expand(rest(i + 1), ps)
      BY <1>b
    <3>4. Expand(rest(i + 1), ps) = Bytes(s[i + 1], ps) \o Expand(rest(i + 2), ps)
      BY <1>b, <3>1
    <3>5. from[i + 2] \in S /\ Expand(from[i + 2], ps) = Expand(rest(i + 2), ps)
      BY <1>12, <3>1
    <3>6. <<Block(i)>> \in S
      BY <3>1
    <3>7. <<Block(i)>> \o from[i + 2] \in S
      BY <3>5, <3>6, ConcatProperties
    <3>8. Expand(<<Block(i)>> \o from[i + 2], ps) = Expand(<<Block(i)>>, ps) \o Expand(from[i + 2], ps)
      BY <3>5, <3>6, ExpandConcat DEF X
    <3>9. Expand(<<Block(i)>>, ps) = Bytes(Block(i), ps)
      BY <3>1, ExpandOne DEF X
    <3>10. Expand(from[i + 2], ps) \in Seq(Literals)
      BY <3>5, SpelledType DEF X
    <3>11. Bytes(s[i], ps) \in Seq(Literals) /\ Bytes(s[i + 1], ps) \in Seq(Literals)
      BY <3>1, BytesOf DEF X, Strings
    <3> DEFINE a == Bytes(s[i], ps)
               b == Bytes(s[i + 1], ps)
               e == Expand(from[i + 2], ps)
    <3>12. (a \o b) \o e = a \o (b \o e)
      <4>1. a \in Seq(Literals) /\ b \in Seq(Literals) /\ e \in Seq(Literals)
        BY <3>10, <3>11
      <4> HIDE DEF a, b, e
      <4> QED BY SMTT(40), <4>1, ConcatAssociative
    <3>13. Expand(from[i], ps) = Expand(rest(i), ps)
      BY <3>1, <3>2, <3>3, <3>4, <3>5, <3>8, <3>9, <3>12
    <3> QED BY <2>1, <3>2, <3>7, <3>13
  <2> QED BY <2>2, <2>3
<1>13. 1 \in G
  <2>1. \A i \in 1 .. n + 1 : i \in G
    <3> HIDE DEF G, n
    <3> QED BY <1>1, <1>11, <1>12, BackToFirst
  <2> QED BY <1>1, <2>1
<1>14. rest(1) = s
  BY SubSeqFull DEF rest
<1> QED BY <1>4, <1>13, <1>14 DEF X

(***************************************************************************)
(* What a pattern is worth, and which comes first                          *)
(***************************************************************************)

AddStep(f, sum, x) == sum + f[x]

Adding == INSTANCE RecursionLemmas WITH Step <- AddStep

\* f maps the symbols of S to integers.
Priced(f, S) == \A x \in S : f[x] \in Int

\* What is computed to rank patterns is a number.
LEMMA SumType ==
  ASSUME NEW S, NEW f, Priced(f, S), NEW s \in Seq(S)
  PROVE  Sum(f, s) \in Int
<1>1. Sum(f, s) = Adding!Fold(f, 0, s)
  BY DEF Sum, Adding!Fold, AddStep, FoldLeft, MapThenFoldSet, Max,
         Adding!FoldLeft, Adding!MapThenFoldSet, Adding!Max
<1>2. Len(s) \in Nat /\ DOMAIN s = 1 .. Len(s) /\ \A i \in 1 .. Len(s) : s[i] \in S
  OBVIOUS
<1>3. PICK g : Adding!Unrolls(f, 0, s, g) /\ Adding!Fold(f, 0, s) = g[Len(s)]
  BY <1>2, Adding!Unrolled
<1> DEFINE T == {i \in Nat : i <= Len(s) => g[i] \in Int}
<1>4. 0 \in T
  BY <1>3 DEF Adding!Unrolls
<1>5. ASSUME NEW i \in Nat, i \in T PROVE i + 1 \in T
  <2> SUFFICES ASSUME i + 1 <= Len(s) PROVE g[i + 1] \in Int
    OBVIOUS
  <2> DEFINE j == i + 1
  <2>1. j \in 1 .. Len(s) /\ j - 1 = i /\ i <= Len(s)
    BY <1>2
  <2> HIDE DEF j
  <2>2. g[j] = g[i] + f[s[j]]
    BY <1>3, <2>1 DEF Adding!Unrolls, AddStep
  <2>3. g[i] \in Int /\ f[s[j]] \in Int
    BY <1>2, <1>5, <2>1 DEF Priced
  <2>4. g[j] \in Int
    BY <2>2, <2>3
  <2> QED BY <2>4 DEF j
<1>6. Nat \subseteq T
  <2> HIDE DEF T
  <2> QED BY <1>4, <1>5, Induction
<1> QED BY <1>1, <1>2, <1>3, <1>6

LEMMA EstLenType ==
  ASSUME NEW f, NEW total
  PROVE  EstLen(f, total) \in Nat
<1> DEFINE q == IF total < f THEN 1 ELSE total \div f
           N == {n \in 0 .. 23 : 2^n <= q}
<1>1. IsFiniteSet(0 .. 23)
  <2> DEFINE k == 23
  <2>1. 0 \in Int /\ k \in Int
    OBVIOUS
  <2> HIDE DEF k
  <2>2. IsFiniteSet(0 .. k)
    BY <2>1, FS_Interval
  <2> QED BY <2>2 DEF k
<1>2. N \in SUBSET (0 .. 23)
  OBVIOUS
<1>3. Cardinality(N) \in Nat
  <2> HIDE DEF N
  <2> QED BY <1>1, <1>2, FS_Subset, FS_CardinalityType
<1>4. NoCode \in Nat
  BY SearchBounds
<1> QED BY <1>3, <1>4 DEF EstLen

LEMMA LitBitsType ==
  ASSUME NEW s
  PROVE  Priced(LitBits(s), Literals)
BY EstLenType DEF Priced, LitBits

LEMMA GainType ==
  ASSUME NEW p \in Seq(Literals), NEW f \in Int, NEW bits, NEW total, Priced(bits, Literals)
  PROVE  Gain(p, f, bits, total) \in Int /\ EntryCost(p) \in Int
<1>1. Sum(bits, p) \in Int
  BY SumType
<1>2. EstLen(f, total) \in Int
  BY EstLenType
<1>3. ByteCost \in Int /\ EntryBytes \in Int /\ Len(p) \in Int
  BY SearchBounds
<1> DEFINE a == Sum(bits, p)
           b == EstLen(f, total)
<1>4. EntryCost(p) \in Int
  BY <1>3 DEF EntryCost
<1>5. a - b \in Int
  BY <1>1, <1>2
<1>6. f * (a - b) \in Int
  <2> DEFINE c == a - b
  <2>1. c \in Int
    BY <1>5
  <2> HIDE DEF c, a, b
  <2> QED BY <2>1 DEF c
<1> HIDE DEF a, b
<1>7. f * (a - b) - EntryCost(p) \in Int
  BY <1>4, <1>6
<1> QED BY <1>4, <1>7 DEF Gain, a, b

\* Where two different sequences part, or which of them ends first.
LEMMA LexTotal ==
  ASSUME NEW p \in Seq(Nat), NEW q \in Seq(Nat), p # q
  PROVE  LexLess(p, q) \/ LexLess(q, p)
<1> DEFINE m == Len(p)
           n == Len(q)
           D == {i \in Nat \ {0} : i <= m /\ i <= n /\ p[i] # q[i]}
<1>1. m \in Nat /\ n \in Nat /\ DOMAIN p = 1 .. m /\ DOMAIN q = 1 .. n
      /\ (\A i \in 1 .. m : p[i] \in Nat) /\ (\A i \in 1 .. n : q[i] \in Nat)
  OBVIOUS
<1>2. CASE D = {}
  <2>1. \A i \in Nat \ {0} : i <= m /\ i <= n => p[i] = q[i]
    BY <1>2
  <2>2. m # n
    <3> SUFFICES ASSUME m = n PROVE FALSE
      OBVIOUS
    <3>1. \A i \in 1 .. m : p[i] = q[i]
      BY <1>1, <2>1
    <3> QED BY <3>1, SeqEqual
  <2>3. m < n => \A i \in DOMAIN p : p[i] = q[i]
    BY <1>1, <2>1
  <2>4. n < m => \A i \in DOMAIN q : q[i] = p[i]
    BY <1>1, <2>1
  <2>5. CASE m < n
    BY <2>3, <2>5 DEF LexLess
  <2>6. CASE n < m
    BY <2>4, <2>6 DEF LexLess
  <2>7. m < n \/ n < m
    <3>1. m \in Nat /\ n \in Nat
      BY <1>1
    <3> HIDE DEF m, n
    <3> QED BY <2>2, <3>1
  <2> QED BY <2>5, <2>6, <2>7
<1>3. CASE D # {}
  <2>1. D \in SUBSET Nat
    OBVIOUS
  <2>2. PICK k \in D : \A i \in D : k <= i
    <3> HIDE DEF D
    <3> QED BY <1>3, <2>1, LeastNumber
  <2>3. k \in 1 .. m /\ k \in 1 .. n /\ p[k] # q[k] /\ p[k] \in Nat /\ q[k] \in Nat
    BY <1>1, <2>2
  <2>4. \A i \in 1 .. k - 1 : p[i] = q[i]
    BY <1>1, <2>2, <2>3
  <2>5. k \in DOMAIN p \cap DOMAIN q /\ k \in DOMAIN q \cap DOMAIN p
    BY <1>1, <2>3
  <2>6. p[k] < q[k] \/ q[k] < p[k]
    BY <2>3
  <2> QED BY <2>4, <2>5, <2>6 DEF LexLess
<1> QED BY <1>2, <1>3

\* Python compares byte strings in a strict total order.
LEMMA LexIrreflexive ==
  ASSUME NEW p \in Seq(Nat)
  PROVE  ~ LexLess(p, p)
<1>1. Len(p) \in Nat /\ \A i \in DOMAIN p : p[i] \in Nat
  OBVIOUS
<1> QED BY <1>1 DEF LexLess

\* p is before q because it ends, or because of place k.
Ends(p, q) == Len(p) < Len(q) /\ \A i \in DOMAIN p : p[i] = q[i]
Parts(p, q, k) == /\ k \in DOMAIN p \cap DOMAIN q
                  /\ p[k] < q[k] /\ \A i \in 1 .. k - 1 : p[i] = q[i]

LEMMA LexSplit ==
  ASSUME NEW p, NEW q
  PROVE  LexLess(p, q) <=> Ends(p, q) \/ \E k \in DOMAIN p \cap DOMAIN q : Parts(p, q, k)
BY DEF LexLess, Ends, Parts

LEMMA LexTransitive ==
  ASSUME NEW p \in Seq(Nat), NEW q \in Seq(Nat), NEW r \in Seq(Nat),
         LexLess(p, q), LexLess(q, r)
  PROVE  LexLess(p, r)
<1> DEFINE l == Len(p)
           m == Len(q)
           n == Len(r)
<1>1. /\ l \in Nat /\ m \in Nat /\ n \in Nat
      /\ DOMAIN p = 1 .. l /\ DOMAIN q = 1 .. m /\ DOMAIN r = 1 .. n
      /\ (\A i \in 1 .. l : p[i] \in Nat) /\ (\A i \in 1 .. m : q[i] \in Nat)
      /\ (\A i \in 1 .. n : r[i] \in Nat)
  BY SMTT(40)
<1>2. CASE Ends(p, q) /\ Ends(q, r)
  <2>1. l < m /\ m < n /\ (\A i \in 1 .. l : p[i] = q[i]) /\ \A i \in 1 .. m : q[i] = r[i]
    BY <1>1, <1>2 DEF Ends
  <2>2. l < n /\ \A i \in 1 .. l : p[i] = r[i]
    BY <1>1, <2>1
  <2> QED BY <1>1, <2>2, LexSplit DEF Ends
<1>3. ASSUME Ends(p, q), NEW k \in DOMAIN q \cap DOMAIN r, Parts(q, r, k)
      PROVE  LexLess(p, r)
  <2>1. l < m /\ (\A i \in 1 .. l : p[i] = q[i]) /\ k \in 1 .. m /\ k \in 1 .. n
        /\ q[k] < r[k] /\ \A i \in 1 .. k - 1 : q[i] = r[i]
    BY <1>1, <1>3 DEF Ends, Parts
  <2>2. CASE k <= l
    <3>1. k \in DOMAIN p \cap DOMAIN r
      BY <1>1, <2>1, <2>2
    <3>2. p[k] < r[k] /\ \A i \in 1 .. k - 1 : p[i] = r[i]
      BY SMTT(40), <1>1, <2>1, <2>2
    <3>3. Parts(p, r, k)
      BY <3>1, <3>2 DEF Parts
    <3> QED BY <3>1, <3>3, LexSplit
  <2>3. CASE ~ (k <= l)
    <3>0. l < k /\ k <= n /\ \A i \in 1 .. l : i \in 1 .. k - 1
      BY <1>1, <2>1, <2>3
    <3>1. l < n /\ \A i \in 1 .. l : p[i] = r[i]
      BY <1>1, <2>1, <3>0
    <3> QED BY <1>1, <3>1, LexSplit DEF Ends
  <2> QED BY <2>2, <2>3
<1>4. ASSUME NEW k \in DOMAIN p \cap DOMAIN q, Parts(p, q, k), Ends(q, r)
      PROVE  LexLess(p, r)
  <2>1. m < n /\ (\A i \in 1 .. m : q[i] = r[i]) /\ k \in 1 .. l /\ k \in 1 .. m
        /\ p[k] < q[k] /\ \A i \in 1 .. k - 1 : p[i] = q[i]
    BY <1>1, <1>4 DEF Ends, Parts
  <2>2. k \in DOMAIN p \cap DOMAIN r
    BY <1>1, <2>1
  <2>3. p[k] < r[k] /\ \A i \in 1 .. k - 1 : p[i] = r[i]
    BY SMTT(30), <1>1, <2>1
  <2>4. Parts(p, r, k)
    BY <2>2, <2>3 DEF Parts
  <2> QED BY <2>2, <2>4, LexSplit
<1>5. ASSUME NEW j \in DOMAIN p \cap DOMAIN q, Parts(p, q, j),
             NEW k \in DOMAIN q \cap DOMAIN r, Parts(q, r, k)
      PROVE  LexLess(p, r)
  <2>1. /\ j \in 1 .. l /\ j \in 1 .. m /\ p[j] < q[j] /\ \A i \in 1 .. j - 1 : p[i] = q[i]
        /\ k \in 1 .. m /\ k \in 1 .. n /\ q[k] < r[k] /\ \A i \in 1 .. k - 1 : q[i] = r[i]
    BY <1>1, <1>5 DEF Parts
  <2>2. p[j] \in Nat /\ q[j] \in Nat /\ q[k] \in Nat /\ r[k] \in Nat
    BY <1>1, <2>1
  <2>3. CASE j < k
    <3>0. j \in 1 .. l /\ k \in 1 .. n /\ n \in Nat
      BY <1>1, <2>1
    <3>1. j \in 1 .. n /\ j \in 1 .. k - 1 /\ \A i \in 1 .. j - 1 : i \in 1 .. k - 1
      <4> HIDE DEF l, m, n
      <4>1. j \in 1 .. n /\ j \in 1 .. k - 1
        BY <2>3, <3>0
      <4>2. \A i \in 1 .. j - 1 : i \in 1 .. k - 1
        BY <2>3, <3>0
      <4> QED BY <4>1, <4>2
    <3>2. p[j] < r[j] /\ \A i \in 1 .. j - 1 : p[i] = r[i]
      BY <2>1, <3>1
    <3>3. j \in DOMAIN p \cap DOMAIN r
      BY <1>1, <2>1, <3>1
    <3> QED BY <3>2, <3>3, LexSplit DEF Parts
  <2>4. CASE j = k
    <3>1. p[j] < r[j] /\ \A i \in 1 .. j - 1 : p[i] = r[i]
      BY SMTT(40), <2>1, <2>2, <2>4
    <3>2. j \in DOMAIN p \cap DOMAIN r
      BY <1>1, <2>1, <2>4
    <3> QED BY <3>1, <3>2, LexSplit DEF Parts
  <2>5. CASE k < j
    <3>0. j \in 1 .. l /\ k \in 1 .. n /\ l \in Nat
      BY <1>1, <2>1
    <3>1. k \in 1 .. l /\ k \in 1 .. j - 1 /\ \A i \in 1 .. k - 1 : i \in 1 .. j - 1
      <4> HIDE DEF l, m, n
      <4>1. k \in 1 .. l /\ k \in 1 .. j - 1
        BY <2>5, <3>0
      <4>2. \A i \in 1 .. k - 1 : i \in 1 .. j - 1
        BY <2>5, <3>0
      <4> QED BY <4>1, <4>2
    <3>2. p[k] < r[k] /\ \A i \in 1 .. k - 1 : p[i] = r[i]
      BY <2>1, <3>1
    <3>3. k \in DOMAIN p \cap DOMAIN r
      BY <1>1, <2>1, <3>1
    <3> QED BY <3>2, <3>3, LexSplit DEF Parts
  <2>6. j \in Nat /\ k \in Nat
    BY SMTT(30), <2>1
  <2> QED BY <2>3, <2>4, <2>5, <2>6
<1>6. Ends(p, q) \/ \E k \in DOMAIN p \cap DOMAIN q : Parts(p, q, k)
  BY LexSplit
<1>7. Ends(q, r) \/ \E k \in DOMAIN q \cap DOMAIN r : Parts(q, r, k)
  BY LexSplit
<1>8. CASE Ends(p, q) /\ Ends(q, r)
  BY <1>2, <1>8
<1>9. CASE Ends(p, q) /\ \E k \in DOMAIN q \cap DOMAIN r : Parts(q, r, k)
  BY <1>3, <1>9
<1>10. CASE Ends(q, r) /\ \E k \in DOMAIN p \cap DOMAIN q : Parts(p, q, k)
  BY <1>4, <1>10
<1>11. CASE (\E k \in DOMAIN p \cap DOMAIN q : Parts(p, q, k))
            /\ \E k \in DOMAIN q \cap DOMAIN r : Parts(q, r, k)
  BY <1>5, <1>11
<1> QED BY <1>6, <1>7, <1>8, <1>9, <1>10, <1>11

(***************************************************************************)
(* Candidates                                                              *)
(***************************************************************************)

\* The first n elements.
LEMMA SliceOf ==
  ASSUME NEW S, NEW s \in Seq(S), NEW n \in Nat
  PROVE  /\ Slice(s, n) \in Seq(S) /\ Len(Slice(s, n)) \in 0 .. n
         /\ Len(Slice(s, n)) \in 0 .. Len(s)
         /\ \A i \in 1 .. Len(Slice(s, n)) : Slice(s, n)[i] = s[i]
<1> DEFINE l == Len(s)
           m == IF n <= l THEN n ELSE l
           q == SubSeq(s, 1, m)
<1>1. l \in Nat /\ \A i \in 1 .. l : s[i] \in S
  OBVIOUS
<1>2. Slice(s, n) = q
  BY DEF Slice
<1> HIDE DEF l
<1>3. m \in Nat /\ m <= n /\ m <= l
  BY <1>1
<1> HIDE DEF m
<1>4. /\ q \in Seq(S) /\ Len(q) = (IF 1 <= m THEN m - 1 + 1 ELSE 0)
      /\ \A i \in 1 .. m - 1 + 1 : q[i] = s[1 + i - 1]
  <2> DEFINE one == 1
  <2>1. one \in Int /\ m \in Int /\ \A i \in one .. m : s[i] \in S
    BY <1>1, <1>3
  <2> HIDE DEF one
  <2>2. /\ SubSeq(s, one, m) \in Seq(S)
        /\ Len(SubSeq(s, one, m)) = (IF one <= m THEN m - one + 1 ELSE 0)
        /\ \A i \in 1 .. m - one + 1 : SubSeq(s, one, m)[i] = s[one + i - 1]
    BY <2>1, SubSeqProperties
  <2> QED BY <2>2 DEF one
<1> HIDE DEF q
<1>5. Len(q) = m
  BY <1>3, <1>4
<1>6. \A i \in 1 .. m : q[i] = s[i]
  BY <1>3, <1>4
<1> QED BY <1>2, <1>3, <1>4, <1>5, <1>6 DEF l

\* A part of the file.
LEMMA PartOf ==
  ASSUME NEW d \in Seq(Literals), NEW r \in Spans(d), r[2] - r[1] + 1 >= 1
  PROVE  /\ SubSeq(d, r[1], r[2]) \in Strings
         /\ Len(SubSeq(d, r[1], r[2])) = r[2] - r[1] + 1
<1> DEFINE a == r[1]
           b == r[2]
           q == SubSeq(d, a, b)
<1>1. Len(d) \in Nat /\ a \in 1 .. Len(d) /\ b \in 1 .. Len(d)
  BY DEF Spans
<1> HIDE DEF a, b
<1>2. \A i \in a .. b : d[i] \in Literals
  BY <1>1
<1>3. q \in Seq(Literals) /\ Len(q) = (IF a <= b THEN b - a + 1 ELSE 0)
  BY <1>1, <1>2, SubSeqProperties
<1>4. b - a + 1 >= 1
  BY DEF a, b
<1>5. Len(q) = b - a + 1 /\ Len(q) # 0
  BY <1>1, <1>3, <1>4
<1>6. q \in Strings
  <2> HIDE DEF q
  <2>1. q # <<>>
    BY <1>3, <1>5, EmptySeq
  <2> QED BY <1>3, <2>1 DEF Strings
<1> QED BY <1>5, <1>6 DEF a, b

\* A file has finitely many parts.
LEMMA SpansFinite ==
  ASSUME NEW d \in Seq(Literals)
  PROVE  IsFiniteSet(Spans(d))
<1> DEFINE n == Len(d)
<1>1. n \in Nat /\ DOMAIN d = 1 .. n
  OBVIOUS
<1> HIDE DEF n
<1>2. IsFiniteSet(1 .. n)
  BY <1>1, FiniteUpto
<1>3. IsFiniteSet(DOMAIN d)
  BY <1>1, <1>2
<1> QED BY <1>3, FS_Product DEF Spans

LEMMA FreqType ==
  ASSUME NEW d \in Seq(Literals), NEW p
  PROVE  NgramCount(d, p) \in Nat /\ WordCount(d, p) \in Nat
<1> DEFINE win == Slice(d, ScanWindow)
           m == Len(win)
           N == {i \in DOMAIN win : At(win, i, p)}
           W == {w \in WordsAt(d) : SubSeq(d, w[1], w[2]) = p}
<1>1. m \in Nat /\ DOMAIN win = 1 .. m
  <2>1. ScanWindow \in Nat
    BY SearchBounds
  <2>2. win \in Seq(Literals)
    BY <2>1, SliceOf
  <2> HIDE DEF win
  <2> QED BY <2>2
<1>2. N \in SUBSET (1 .. m)
  BY <1>1
<1>3. IsFiniteSet(1 .. m)
  <2> HIDE DEF m
  <2> QED BY <1>1, FiniteUpto
<1>4. Cardinality(N) \in Nat
  <2> HIDE DEF N, m
  <2> QED BY <1>2, <1>3, FS_Subset, FS_CardinalityType
<1>5. W \in SUBSET Spans(d)
  BY DEF WordsAt
<1>6. Cardinality(W) \in Nat
  <2> HIDE DEF W
  <2> QED BY <1>5, SpansFinite, FS_Subset, FS_CardinalityType
<1> QED BY <1>4, <1>6 DEF NgramCount, WordCount

\* LongestEntry is as long as the longest kind of entry.
LEMMA LongestOf ==
  LongestEntry \in Nat /\ MaxBlock <= LongestEntry /\ NgramMax <= LongestEntry /\ WordMax <= LongestEntry
<1> DEFINE T == {MaxBlock, NgramMax, WordMax}
           n == MaxBlock + NgramMax + WordMax
<1>1. MaxBlock \in Nat /\ NgramMax \in Nat /\ WordMax \in Nat
  BY SearchBounds
<1>2. n \in Nat /\ T \in SUBSET (0 .. n) /\ T # {}
  BY <1>1
<1>3. PICK m \in T : \A k \in T : k <= m
  <2> HIDE DEF T, n
  <2> QED BY <1>2, GreatestNumber
<1>4. \A x \in T : x \in Nat
  BY <1>1
<1> DEFINE big == CHOOSE x \in T : \A y \in T : x >= y
<1>5. big \in T /\ \A y \in T : big >= y
  <2>1. \E x \in T : \A y \in T : x >= y
    BY <1>3, <1>4
  <2> HIDE DEF T
  <2> QED BY <2>1
<1>6. LongestEntry = big
  BY DEF LongestEntry, Max
<1> HIDE DEF big
<1>7. MaxBlock \in T /\ NgramMax \in T /\ WordMax \in T
  OBVIOUS
<1> QED BY <1>4, <1>5, <1>6, <1>7

\* Entries, each once and no longer than one may be.
Distinct(ps) == \A j, k \in DOMAIN ps : ps[j] = ps[k] => j = k
Short(p)     == p \in Strings /\ Len(p) <= LongestEntry
Listed(ps)   == ps \in Seq(Strings) /\ Distinct(ps) /\ Len(ps) <= MaxDict
                /\ \A k \in DOMAIN ps : Len(ps[k]) <= LongestEntry

\* gain is what each candidate gains.
CandBefore(gain, p, q) == gain[p] > gain[q] \/ (gain[p] = gain[q] /\ LexLess(p, q))

ByGain == INSTANCE RecursionLemmas WITH Step <- CandBefore

\* Within the instance of the lemmas the sets are the same ones.
LEMMA GainInstance ==
  ASSUME NEW S
  PROVE  /\ IsFiniteSet(S) => ByGain!IsFiniteSet(S)
         /\ ByGain!Cardinality(S) = Cardinality(S)
<1>1. IsFiniteSet(S) => ByGain!IsFiniteSet(S)
  BY DEF IsFiniteSet, ByGain!IsFiniteSet
<1>2. ByGain!Cardinality(S) = Cardinality(S)
  BY DEF Cardinality, ByGain!Cardinality
<1> QED BY <1>1, <1>2

\* Candidates are sorted by gain, then by their bytes, so no two tie.
LEMMA CandidateOrder ==
  ASSUME NEW S \in SUBSET Strings, NEW gain, \A p \in S : gain[p] \in Int
  PROVE  ByGain!Orders(gain, S)
<1>1. \A p \in S : p \in Seq(Nat) /\ gain[p] \in Int
  BY LiteralNumbers DEF Strings
<1>2. \A x \in S : ~ CandBefore(gain, x, x)
  BY <1>1, LexIrreflexive DEF CandBefore
<1>3. ASSUME NEW x \in S, NEW y \in S, NEW z \in S, CandBefore(gain, x, y), CandBefore(gain, y, z)
      PROVE  CandBefore(gain, x, z)
  <2>1. CASE gain[x] = gain[y] /\ gain[y] = gain[z]
    <3>1. LexLess(x, y) /\ LexLess(y, z)
      BY <1>1, <1>3, <2>1 DEF CandBefore
    <3> QED BY <1>1, <2>1, <3>1, LexTransitive DEF CandBefore
  <2>2. CASE ~ (gain[x] = gain[y] /\ gain[y] = gain[z])
    <3>1. gain[x] >= gain[y] /\ gain[y] >= gain[z]
      BY <1>1, <1>3 DEF CandBefore
    <3>2. gain[x] > gain[z]
      BY <1>1, <2>2, <3>1
    <3> QED BY <3>2 DEF CandBefore
  <2> QED BY <2>1, <2>2
<1>4. ASSUME NEW x \in S, NEW y \in S, x # y
      PROVE  CandBefore(gain, x, y) \/ CandBefore(gain, y, x)
  <2>1. CASE gain[x] = gain[y]
    <3>1. LexLess(x, y) \/ LexLess(y, x)
      BY <1>1, <1>4, LexTotal
    <3> QED BY <2>1, <3>1 DEF CandBefore
  <2>2. CASE gain[x] # gain[y]
    <3>1. gain[x] > gain[y] \/ gain[y] > gain[x]
      BY <1>1, <2>2
    <3> QED BY <3>1 DEF CandBefore
  <2> QED BY <2>1, <2>2
<1> QED BY <1>2, <1>3, <1>4 DEF ByGain!Orders

\* The first dictionary has every candidate once, and none too long.
LEMMA CandidatesListed ==
  ASSUME NEW d \in Seq(Literals)
  PROVE  Listed(Candidates(d))
<1> DEFINE freq(p) == IF NgramCount(d, p) >= floor /\ Len(p) <= NgramMax
                        THEN NgramCount(d, p) ELSE WordCount(d, p)
           Words == {SubSeq(d, w[1], w[2]) : w \in WordsAt(d)}
           All == Ngrams(d) \cup Words
           gain == [p \in All |-> Gain(p, freq(p), LitBits(d), Len(d))]
           good == {p \in DOMAIN gain : freq(p) >= floor /\ gain[p] > 0}
           order == ByGain!Ordered(gain, good)
<1>1. Candidates(d) = Slice(order, MaxInitialDict)
  BY DEF Candidates, Sorted, ByGain!Ordered, CandBefore, Cardinality, ByGain!Cardinality
<1>2. ASSUME NEW p \in Ngrams(d) PROVE Short(p)
  <2>1. PICK r \in Spans(d) : r[2] - r[1] + 1 \in NgramMin .. NgramMax /\ p = SubSeq(d, r[1], r[2])
    BY DEF Ngrams
  <2>2. r[2] - r[1] + 1 >= 1 /\ r[2] - r[1] + 1 <= NgramMax /\ r[2] - r[1] + 1 \in Nat
    BY SMTT(30), <2>1, SearchBounds
  <2>3. p \in Strings /\ Len(p) = r[2] - r[1] + 1
    BY <2>1, <2>2, PartOf
  <2>4. NgramMax \in Nat
    BY SearchBounds
  <2>5. Len(p) <= LongestEntry
    BY <2>2, <2>3, <2>4, LongestOf
  <2> QED BY <2>3, <2>5 DEF Short
<1>3. ASSUME NEW p \in Words PROVE Short(p)
  <2>1. PICK r \in Spans(d) : r[2] - r[1] + 1 \in WordMin .. WordMax /\ p = SubSeq(d, r[1], r[2])
    BY DEF WordsAt
  <2>2. r[2] - r[1] + 1 >= 1 /\ r[2] - r[1] + 1 <= WordMax /\ r[2] - r[1] + 1 \in Nat
    BY SMTT(30), <2>1, SearchBounds
  <2>3. p \in Strings /\ Len(p) = r[2] - r[1] + 1
    BY <2>1, <2>2, PartOf
  <2>4. WordMax \in Nat
    BY SearchBounds
  <2>5. Len(p) <= LongestEntry
    BY <2>2, <2>3, <2>4, LongestOf
  <2> QED BY <2>3, <2>5 DEF Short
<1>4. IsFiniteSet(All)
  <2> DEFINE part == [r \in Spans(d) |-> SubSeq(d, r[1], r[2])]
             Spanned == {part[r] : r \in Spans(d)}
  <2>1. IsFiniteSet(Spanned)
    <3>1. DOMAIN part = Spans(d)
      OBVIOUS
    <3> HIDE DEF part
    <3> QED BY <3>1, SpansFinite, Mapped
  <2>2. All \in SUBSET Spanned
    BY DEF Ngrams, WordsAt
  <2> HIDE DEF All, Spanned
  <2> QED BY <2>1, <2>2, FS_Subset
<1>5. \A p \in All : Short(p)
  BY <1>2, <1>3
<1> HIDE DEF Words
<1>6. ASSUME NEW p \in All PROVE Gain(p, freq(p), LitBits(d), Len(d)) \in Int
  <2>1. p \in Seq(Literals)
    BY <1>5 DEF Short, Strings
  <2>2. freq(p) \in Int
    BY FreqType
  <2> DEFINE f == freq(p)
             bits == LitBits(d)
  <2>3. f \in Int /\ Priced(bits, Literals)
    BY <2>2, LitBitsType
  <2> HIDE DEF f, bits
  <2>4. Gain(p, f, bits, Len(d)) \in Int
    BY <2>1, <2>3, GainType
  <2> QED BY <2>4 DEF f, bits
<1>7. good \in SUBSET All /\ \A p \in good : gain[p] \in Int
  BY <1>6
<1> HIDE DEF All, gain
<1>8. good \in SUBSET All /\ \A p \in good : gain[p] \in Int
  BY <1>7
<1> HIDE DEF good, freq
<1>9. IsFiniteSet(good) /\ good \in SUBSET Strings
  BY <1>4, <1>5, <1>8, FS_Subset DEF Short
<1>10. Enumerates(order, good)
  <2>1. ByGain!Orders(gain, good)
    BY <1>8, <1>9, CandidateOrder
  <2>2. ByGain!Enumerates(order, good)
    <3>1. ByGain!IsFiniteSet(good)
      BY <1>9, GainInstance
    <3> QED BY <2>1, <3>1, ByGain!Enumerated
  <2> HIDE DEF order
  <2>3. ByGain!Cardinality(good) = Cardinality(good)
    BY GainInstance
  <2> QED BY <2>2, <2>3 DEF Enumerates, ByGain!Enumerates
<1> HIDE DEF order
<1>11. /\ order \in Seq(good)
       /\ \A i, j \in 1 .. Len(order) : order[i] = order[j] => i = j
  BY <1>9, <1>10, EnumeratesSeq
<1> DEFINE ps == Slice(order, MaxInitialDict)
<1>12. /\ ps \in Seq(good) /\ Len(ps) \in 0 .. MaxInitialDict /\ Len(ps) \in 0 .. Len(order)
       /\ \A i \in 1 .. Len(ps) : ps[i] = order[i]
  <2>1. MaxInitialDict \in Nat
    BY SearchBounds
  <2> QED BY <1>11, <2>1, SliceOf
<1> HIDE DEF ps
<1>13. DOMAIN ps = 1 .. Len(ps) /\ ps \in Seq(Strings) /\ \A k \in DOMAIN ps : ps[k] \in good
  BY <1>9, <1>12
<1>14. Distinct(ps)
  <2> SUFFICES ASSUME NEW j \in DOMAIN ps, NEW k \in DOMAIN ps, ps[j] = ps[k] PROVE j = k
    BY DEF Distinct
  <2>1. j \in 1 .. Len(order) /\ k \in 1 .. Len(order)
    <3>1. Len(order) \in Nat
      BY <1>11
    <3> QED BY <1>12, <1>13, <3>1
  <2>2. ps[j] = order[j] /\ ps[k] = order[k]
    BY <1>12, <1>13
  <2> QED BY <1>11, <2>1, <2>2
<1>15. Len(ps) <= MaxDict
  BY SMTT(40), <1>12, SearchBounds
<1>16. \A k \in DOMAIN ps : Len(ps[k]) <= LongestEntry
  BY <1>5, <1>8, <1>13 DEF Short
<1> QED BY <1>1, <1>13, <1>14, <1>15, <1>16 DEF Listed, ps

(***************************************************************************)
(* Blocks                                                                  *)
(***************************************************************************)

\* Pairs of symbols of ps, with what they stand for.
OffersOf(ps) ==
  {o \in [a : SymbolsOf(ps), b : SymbolsOf(ps), bytes : Strings, gain : Int] :
     o.bytes = Bytes(o.a, ps) \o Bytes(o.b, ps) /\ Len(o.bytes) <= MaxBlock}

OfferBefore(c, x, y) ==
  \/ x.gain > y.gain
  \/ x.gain = y.gain /\ LexLess(x.bytes, y.bytes)
  \/ x.gain = y.gain /\ x.bytes = y.bytes /\ LexLess(<<x.a, x.b>>, <<y.a, y.b>>)

ByOffer == INSTANCE RecursionLemmas WITH Step <- OfferBefore

\* Within the instance of the lemmas the sets are the same ones.
LEMMA OfferInstance ==
  ASSUME NEW S
  PROVE  /\ IsFiniteSet(S) => ByOffer!IsFiniteSet(S)
         /\ ByOffer!Cardinality(S) = Cardinality(S)
<1>1. IsFiniteSet(S) => ByOffer!IsFiniteSet(S)
  BY DEF IsFiniteSet, ByOffer!IsFiniteSet
<1>2. ByOffer!Cardinality(S) = Cardinality(S)
  BY DEF Cardinality, ByOffer!Cardinality
<1> QED BY <1>1, <1>2

\* What an offer is put in order by.
Comparable(o) == /\ o.gain \in Int /\ o.bytes \in Seq(Nat) /\ <<o.a, o.b>> \in Seq(Nat)
                 /\ o = [a |-> o.a, b |-> o.b, bytes |-> o.bytes, gain |-> o.gain]

\* Offers are sorted by gain, bytes and pair, so no two tie.
LEMMA OfferOrder ==
  ASSUME NEW S, \A o \in S : Comparable(o)
  PROVE  ByOffer!Orders(0, S)
<1>1. ASSUME NEW x \in S PROVE ~ OfferBefore(0, x, x)
  <2> DEFINE p == <<x.a, x.b>>
  <2>1. x.gain \in Int /\ x.bytes \in Seq(Nat) /\ p \in Seq(Nat)
    BY DEF Comparable
  <2> HIDE DEF p
  <2>2. ~ (x.gain > x.gain) /\ ~ LexLess(x.bytes, x.bytes) /\ ~ LexLess(p, p)
    BY <2>1, LexIrreflexive
  <2> QED BY <2>2 DEF OfferBefore, p
<1>2. ASSUME NEW x \in S, NEW y \in S, NEW z \in S, OfferBefore(0, x, y), OfferBefore(0, y, z)
      PROVE  OfferBefore(0, x, z)
  <2> DEFINE p == <<x.a, x.b>>
             q == <<y.a, y.b>>
             r == <<z.a, z.b>>
  <2>1. /\ x.gain \in Int /\ y.gain \in Int /\ z.gain \in Int
        /\ x.bytes \in Seq(Nat) /\ y.bytes \in Seq(Nat) /\ z.bytes \in Seq(Nat)
        /\ p \in Seq(Nat) /\ q \in Seq(Nat) /\ r \in Seq(Nat)
    BY DEF Comparable
  <2>2. /\ OfferBefore(0, x, z) <=> \/ x.gain > z.gain
                                    \/ x.gain = z.gain /\ LexLess(x.bytes, z.bytes)
                                    \/ x.gain = z.gain /\ x.bytes = z.bytes /\ LexLess(p, r)
        /\ \/ x.gain > y.gain
           \/ x.gain = y.gain /\ LexLess(x.bytes, y.bytes)
           \/ x.gain = y.gain /\ x.bytes = y.bytes /\ LexLess(p, q)
        /\ \/ y.gain > z.gain
           \/ y.gain = z.gain /\ LexLess(y.bytes, z.bytes)
           \/ y.gain = z.gain /\ y.bytes = z.bytes /\ LexLess(q, r)
    BY <1>2 DEF OfferBefore
  <2> HIDE DEF p, q, r
  <2>3. CASE ~ (x.gain = y.gain /\ y.gain = z.gain)
    <3>1. x.gain >= y.gain /\ y.gain >= z.gain
      BY <2>1, <2>2
    <3>2. x.gain > z.gain
      BY <2>1, <2>3, <3>1
    <3> QED BY <2>2, <3>2
  <2>4. CASE x.gain = y.gain /\ y.gain = z.gain
    <3>1. ~ (x.gain > y.gain) /\ ~ (y.gain > z.gain)
      BY <2>1, <2>4
    <3>2. LexLess(x.bytes, y.bytes) \/ (x.bytes = y.bytes /\ LexLess(p, q))
      BY <2>2, <3>1
    <3>3. LexLess(y.bytes, z.bytes) \/ (y.bytes = z.bytes /\ LexLess(q, r))
      BY <2>2, <3>1
    <3>4. CASE LexLess(x.bytes, y.bytes) /\ LexLess(y.bytes, z.bytes)
      BY <2>1, <2>2, <2>4, <3>4, LexTransitive
    <3>5. CASE x.bytes = y.bytes /\ LexLess(y.bytes, z.bytes)
      BY <2>2, <2>4, <3>5
    <3>6. CASE y.bytes = z.bytes /\ LexLess(x.bytes, y.bytes)
      BY <2>2, <2>4, <3>6
    <3>7. CASE x.bytes = y.bytes /\ y.bytes = z.bytes /\ LexLess(p, q) /\ LexLess(q, r)
      <4>1. LexLess(p, r)
        BY <2>1, <3>7, LexTransitive
      <4> QED BY <2>2, <2>4, <3>7, <4>1
    <3> QED BY <3>2, <3>3, <3>4, <3>5, <3>6, <3>7
  <2> QED BY <2>3, <2>4
<1>3. ASSUME NEW x \in S, NEW y \in S, x # y
      PROVE  OfferBefore(0, x, y) \/ OfferBefore(0, y, x)
  <2> DEFINE p == <<x.a, x.b>>
             q == <<y.a, y.b>>
  <2>1. /\ x.gain \in Int /\ y.gain \in Int /\ x.bytes \in Seq(Nat) /\ y.bytes \in Seq(Nat)
        /\ p \in Seq(Nat) /\ q \in Seq(Nat)
    BY DEF Comparable
  <2>2. /\ OfferBefore(0, x, y) <=> \/ x.gain > y.gain
                                    \/ x.gain = y.gain /\ LexLess(x.bytes, y.bytes)
                                    \/ x.gain = y.gain /\ x.bytes = y.bytes /\ LexLess(p, q)
        /\ OfferBefore(0, y, x) <=> \/ y.gain > x.gain
                                    \/ y.gain = x.gain /\ LexLess(y.bytes, x.bytes)
                                    \/ y.gain = x.gain /\ y.bytes = x.bytes /\ LexLess(q, p)
    BY DEF OfferBefore
  <2>3. CASE x.gain # y.gain
    <3>1. x.gain > y.gain \/ y.gain > x.gain
      BY <2>1, <2>3
    <3> QED BY <2>2, <3>1
  <2>4. CASE x.gain = y.gain /\ x.bytes # y.bytes
    <3>1. LexLess(x.bytes, y.bytes) \/ LexLess(y.bytes, x.bytes)
      BY <2>1, <2>4, LexTotal
    <3> HIDE DEF p, q
    <3> QED BY <2>2, <2>4, <3>1
  <2>5. CASE x.gain = y.gain /\ x.bytes = y.bytes
    <3>1. p # q
      <4> SUFFICES ASSUME p = q PROVE FALSE
        OBVIOUS
      <4>1. x.a = y.a /\ x.b = y.b
        OBVIOUS
      <4> HIDE DEF p, q
      <4> QED BY <1>3, <2>5, <4>1 DEF Comparable
    <3> HIDE DEF p, q
    <3>2. LexLess(p, q) \/ LexLess(q, p)
      BY <2>1, <3>1, LexTotal
    <3> QED BY <2>2, <2>5, <3>2
  <2> QED BY <2>3, <2>4, <2>5
<1> QED BY <1>1, <1>2, <1>3 DEF ByOffer!Orders

\* What a pass accepts are pairs of symbols whose block is not too long.
LEMMA AcceptedOffers ==
  ASSUME NEW ps \in Seq(Strings), NEW s \in Seq(SymbolsOf(ps))
  PROVE  Accepted(s, ps) \in Seq(OffersOf(ps))
<1> DEFINE pairs == {<<s[i], s[i + 1]>> : i \in 1 .. Len(s) - 1}
           back(c, a, b) ==
             IF refund /\ c >= FirstPattern /\ Tally(s, c) = PairCount(s, a, b) /\ a # b
               THEN EntryCost(Bytes(c, ps)) ELSE 0
           gain(a, b) == Gain(Bytes(a, ps) \o Bytes(b, ps), PairCount(s, a, b), LitBits(s), Len(s))
                         + back(a, a, b) + back(b, a, b)
           offer(a, b) == [a |-> a, b |-> b, bytes |-> Bytes(a, ps) \o Bytes(b, ps),
                           gain |-> gain(a, b)]
           every == {offer(p[1], p[2]) : p \in pairs}
           good == {o \in every : /\ PairCount(s, o.a, o.b) >= floor
                                /\ Len(o.bytes) <= MaxBlock /\ o.gain > 0}
           order == ByOffer!Ordered(0, good)
           X == SymbolsOf(ps)
<1>1. Accepted(s, ps) = order
  BY DEF Accepted, Sorted, ByOffer!Ordered, OfferBefore, Cardinality, ByOffer!Cardinality
<1>2. Len(s) \in Nat /\ \A i \in 1 .. Len(s) : s[i] \in X
  OBVIOUS
<1>3. \A p \in pairs : p[1] \in X /\ p[2] \in X
  <2>1. \A i \in 1 .. Len(s) - 1 : s[i] \in X /\ s[i + 1] \in X
    BY <1>2
  <2> HIDE DEF X
  <2> QED BY <2>1
<1>4. IsFiniteSet(every)
  <2> DEFINE n == Len(s) - 1
             f == [i \in 1 .. n |-> offer(s[i], s[i + 1])]
             F == {f[i] : i \in 1 .. n}
  <2>1. every \subseteq F
    <3> HIDE DEF offer
    <3> QED OBVIOUS
  <2>2. IsFiniteSet(1 .. n)
    <3>1. n \in Int /\ 1 \in Int
      BY <1>2
    <3> HIDE DEF n
    <3> DEFINE one == 1
    <3>2. one \in Int
      OBVIOUS
    <3> HIDE DEF one
    <3>3. IsFiniteSet(one .. n)
      BY <3>1, <3>2, FS_Interval
    <3> QED BY <3>3 DEF one
  <2>3. DOMAIN f = 1 .. n
    OBVIOUS
  <2> HIDE DEF f, n
  <2>4. IsFiniteSet(F)
    BY <2>2, <2>3, Mapped
  <2> HIDE DEF every, F
  <2> QED BY <2>1, <2>4, FS_Subset
<1>5. ASSUME NEW a \in X, NEW b \in X
      PROVE  /\ Bytes(a, ps) \o Bytes(b, ps) \in Strings /\ gain(a, b) \in Int
  <2> DEFINE p == Bytes(a, ps)
             q == Bytes(b, ps)
             f == PairCount(s, a, b)
             bits == LitBits(s)
             total == Len(s)
  <2>1. p \in Strings /\ q \in Strings
    BY BytesOf
  <2>2. f \in Int
    <3> DEFINE n == Len(s) - 1
               T == {i \in 1 .. n : s[i] = a /\ s[i + 1] = b}
               one == 1
    <3>1. n \in Int /\ one \in Int
      BY <1>2
    <3> HIDE DEF n, one
    <3>2. IsFiniteSet(one .. n)
      BY <3>1, FS_Interval
    <3>3. T \subseteq one .. n
      BY DEF one
    <3> HIDE DEF T
    <3>4. Cardinality(T) \in Nat
      BY <3>2, <3>3, CountType
    <3> QED BY <3>4 DEF T, n, PairCount
  <2>3. Priced(bits, Literals)
    BY LitBitsType
  <2> HIDE DEF p, q, f, bits, total
  <2>4. p \o q \in Strings
    <3>1. p \in Seq(Literals) /\ q \in Seq(Literals) /\ Len(p) \in Nat /\ Len(q) \in Nat /\ Len(p) # 0
      BY <2>1, EmptySeq DEF Strings
    <3>2. p \o q \in Seq(Literals) /\ Len(p \o q) = Len(p) + Len(q)
      BY <3>1, ConcatProperties
    <3>3. p \o q # <<>>
      BY <3>1, <3>2
    <3> QED BY <3>2, <3>3 DEF Strings
  <2>5. Gain(p \o q, f, bits, total) \in Int
    <3> DEFINE pq == p \o q
    <3>1. pq \in Seq(Literals)
      BY <2>4 DEF Strings
    <3> HIDE DEF pq
    <3>2. Gain(pq, f, bits, total) \in Int
      BY <2>2, <2>3, <3>1, GainType
    <3> QED BY <3>2 DEF pq
  <2>6. EntryCost(p) \in Int /\ EntryCost(q) \in Int
    <3>1. p \in Seq(Literals) /\ q \in Seq(Literals)
      BY <2>1 DEF Strings
    <3> QED BY <2>2, <2>3, <3>1, GainType
  <2>7. back(a, a, b) \in Int /\ back(b, a, b) \in Int
    BY <2>6 DEF p, q
  <2>8. gain(a, b) \in Int
    <3> HIDE DEF back
    <3> QED BY <2>5, <2>7 DEF p, q, f, bits, total
  <2> QED BY <2>4, <2>8 DEF p, q
<1> HIDE DEF gain, X
<1>6. ASSUME NEW o \in good
      PROVE  /\ o \in [a : X, b : X, bytes : Strings, gain : Int]
             /\ o.bytes = Bytes(o.a, ps) \o Bytes(o.b, ps) /\ Len(o.bytes) <= MaxBlock
  <2>1. PICK p \in pairs : o = offer(p[1], p[2])
    OBVIOUS
  <2> DEFINE a == p[1]
             b == p[2]
  <2>2. a \in X /\ b \in X
    BY <1>3
  <2> HIDE DEF a, b, pairs
  <2>3. Bytes(a, ps) \o Bytes(b, ps) \in Strings /\ gain(a, b) \in Int
    BY <1>5, <2>2
  <2>4. o = [a |-> a, b |-> b, bytes |-> Bytes(a, ps) \o Bytes(b, ps), gain |-> gain(a, b)]
    BY <2>1 DEF a, b
  <2>5. Len(o.bytes) <= MaxBlock
    OBVIOUS
  <2> QED BY <2>2, <2>3, <2>4, <2>5
<1>7. good \subseteq OffersOf(ps)
  <2> HIDE DEF good
  <2> QED BY <1>6 DEF OffersOf, X
<1>8. IsFiniteSet(good)
  <2>1. good \subseteq every
    OBVIOUS
  <2> HIDE DEF good, every
  <2> QED BY <1>4, <2>1, CountType
<1> HIDE DEF good
<1>9. ASSUME NEW o \in good PROVE Comparable(o)
  <2>1. o \in [a : X, b : X, bytes : Strings, gain : Int]
    BY <1>6
  <2>2. X \subseteq Nat
    BY BytesOf DEF X
  <2>3. o.a \in Nat /\ o.b \in Nat /\ o.bytes \in Seq(Literals) /\ o.gain \in Int
        /\ o = [a |-> o.a, b |-> o.b, bytes |-> o.bytes, gain |-> o.gain]
    BY <2>1, <2>2 DEF Strings
  <2>4. <<o.a, o.b>> \in Seq(Nat)
    BY <2>3
  <2> QED BY <2>3, <2>4, LiteralNumbers DEF Comparable
<1>10. Enumerates(order, good)
  <2>1. ByOffer!Orders(0, good)
    BY <1>9, OfferOrder
  <2>2. ByOffer!IsFiniteSet(good)
    BY <1>8, OfferInstance
  <2>3. ByOffer!Enumerates(order, good)
    BY <2>1, <2>2, ByOffer!Enumerated
  <2> HIDE DEF order
  <2>4. ByOffer!Cardinality(good) = Cardinality(good)
    BY OfferInstance
  <2> QED BY <2>3, <2>4 DEF Enumerates, ByOffer!Enumerates
<1> HIDE DEF order
<1>11. order \in Seq(good)
  BY <1>8, <1>10, EnumeratesSeq
<1> QED BY <1>1, <1>7, <1>11

\* One block more, if it is new and there is room.
ExtendStep(c, dict, o) ==
  IF (\E k \in DOMAIN dict : dict[k] = o.bytes) \/ Len(dict) >= MaxDict
    THEN dict ELSE Append(dict, o.bytes)

Extending == INSTANCE RecursionLemmas WITH Step <- ExtendStep

\* qs begins with ps.
Begins(ps, qs) == \A k \in DOMAIN ps : k \in DOMAIN qs /\ qs[k] = ps[k]

\* A pass keeps every entry where it is and adds none that is there already.
LEMMA ExtendedListed ==
  ASSUME NEW ps, Listed(ps), NEW rs \in Seq(Strings), NEW offers \in Seq(OffersOf(rs))
  PROVE  Listed(Extended(ps, offers)) /\ Begins(ps, Extended(ps, offers))
<1> DEFINE list == Slice(offers, MergesPerRound)
           n == Len(list)
           Good(q) == Listed(q) /\ Begins(ps, q)
<1>1. Extended(ps, offers) = Extending!Fold(0, ps, list)
  BY DEF Extended, Extending!Fold, ExtendStep, FoldLeft, MapThenFoldSet, Max,
         Extending!FoldLeft, Extending!MapThenFoldSet, Extending!Max
<1>2. list \in Seq(OffersOf(rs))
  <2>1. MergesPerRound \in Nat
    BY SearchBounds
  <2> QED BY <2>1, SliceOf
<1> HIDE DEF list
<1>3. n \in Nat /\ DOMAIN list = 1 .. n /\ \A i \in 1 .. n : list[i] \in OffersOf(rs)
  BY <1>2
<1>4. PICK g : Extending!Unrolls(0, ps, list, g) /\ Extending!Fold(0, ps, list) = g[n]
  BY <1>3, Extending!Unrolled
<1>5. Good(g[0])
  BY <1>4 DEF Extending!Unrolls, Begins
<1>6. ASSUME NEW q, Good(q), NEW o \in OffersOf(rs) PROVE Good(ExtendStep(0, q, o))
  <2> DEFINE b == o.bytes
             r == Append(q, b)
             m == Len(q)
  <2>1. /\ q \in Seq(Strings) /\ m \in Nat /\ DOMAIN q = 1 .. m /\ m <= MaxDict
        /\ Distinct(q) /\ (\A k \in 1 .. m : Len(q[k]) <= LongestEntry) /\ Begins(ps, q)
    BY <1>6 DEF Listed
  <2>2. b \in Strings /\ Len(b) <= LongestEntry
    <3>1. b \in Strings /\ Len(b) <= MaxBlock
      BY DEF OffersOf
    <3> HIDE DEF b
    <3>2. Len(b) \in Nat /\ MaxBlock \in Nat
      BY <3>1, SearchBounds DEF Strings
    <3> QED BY <3>1, <3>2, LongestOf
  <2>3. CASE (\E k \in DOMAIN q : q[k] = o.bytes) \/ Len(q) >= MaxDict
    BY <1>6, <2>3 DEF ExtendStep
  <2>4. CASE ~ ((\E k \in DOMAIN q : q[k] = o.bytes) \/ Len(q) >= MaxDict)
    <3>1. ExtendStep(0, q, o) = r
      BY <2>4 DEF ExtendStep
    <3>2. (\A k \in 1 .. m : q[k] # b) /\ m < MaxDict
      <4>1. \A k \in 1 .. m : q[k] # b
        BY <2>1, <2>4
      <4>2. MaxDict \in Nat
        BY SearchBounds
      <4>3. m \in Nat /\ ~ (m >= MaxDict)
        BY <2>1, <2>4
      <4> HIDE DEF m
      <4>4. m < MaxDict
        BY <4>2, <4>3
      <4> QED BY <4>1, <4>4
    <3> HIDE DEF b
    <3>3. /\ r \in Seq(Strings) /\ Len(r) = m + 1 /\ DOMAIN r = 1 .. m + 1
          /\ (\A k \in 1 .. m : r[k] = q[k]) /\ r[m + 1] = b
      BY <2>1, <2>2
    <3> HIDE DEF r, m
    <3>4. \A k \in 1 .. m + 1 : k \in 1 .. m \/ k = m + 1
      BY <2>1
    <3>5. Distinct(r)
      <4> SUFFICES ASSUME NEW j \in 1 .. m + 1, NEW k \in 1 .. m + 1, r[j] = r[k] PROVE j = k
        BY <3>3 DEF Distinct
      <4>1. CASE j \in 1 .. m /\ k \in 1 .. m
        BY <2>1, <3>3, <4>1 DEF Distinct
      <4>2. CASE j \in 1 .. m /\ k = m + 1
        BY <3>2, <3>3, <4>2
      <4>3. CASE k \in 1 .. m /\ j = m + 1
        BY <3>2, <3>3, <4>3
      <4> QED BY <3>4, <4>1, <4>2, <4>3
    <3>6. \A k \in DOMAIN r : Len(r[k]) <= LongestEntry
      BY <2>1, <2>2, <3>3, <3>4
    <3>7. Len(r) <= MaxDict
      BY SMTT(40), <2>1, <3>2, <3>3, SearchBounds
    <3>8. Begins(ps, r)
      <4>1. \A k \in 1 .. m : k \in 1 .. m + 1
        BY <2>1
      <4> QED BY <2>1, <3>3, <4>1 DEF Begins
    <3> QED BY <3>1, <3>3, <3>5, <3>6, <3>7, <3>8 DEF Listed
  <2> QED BY <2>3, <2>4
<1> DEFINE T == {i \in Nat : i <= n => Good(g[i])}
<1>7. 0 \in T
  BY <1>5
<1>8. ASSUME NEW i \in Nat, i \in T PROVE i + 1 \in T
  <2> HIDE DEF Good
  <2> SUFFICES ASSUME i + 1 <= n PROVE Good(g[i + 1])
    OBVIOUS
  <2> DEFINE j == i + 1
  <2>1. j \in 1 .. n /\ j - 1 = i /\ i <= n
    BY <1>3
  <2> HIDE DEF j
  <2>2. g[j] = ExtendStep(0, g[i], list[j])
    BY <1>4, <2>1 DEF Extending!Unrolls
  <2>3. Good(g[i]) /\ list[j] \in OffersOf(rs)
    BY <1>3, <1>8, <2>1
  <2>4. Good(g[j])
    BY <1>6, <2>2, <2>3
  <2> QED BY <2>4 DEF j
<1>9. Nat \subseteq T
  <2> HIDE DEF T
  <2> QED BY <1>7, <1>8, Induction
<1>10. Good(g[n])
  <2> HIDE DEF Good
  <2> QED BY <1>3, <1>9
<1> QED BY <1>1, <1>4, <1>10

\* A block that replaces a pair stands for what the pair stands for.
LEMMA ChosenBlocks ==
  ASSUME NEW ps, Listed(ps), NEW offers \in Seq(OffersOf(ps))
  PROVE  Blocks(Chosen(ps, offers), Extended(ps, offers))
<1> DEFINE dict == Extended(ps, offers)
           best == Slice(offers, MergesPerRound)
           taken == {i \in DOMAIN best : \E k \in DOMAIN dict : dict[k] = best[i].bytes}
           Of(p) == CHOOSE i \in taken : <<best[i].a, best[i].b>> = p
           place(i) == CHOOSE k \in DOMAIN dict : dict[k] = best[i].bytes
           chosen == [p \in {<<best[i].a, best[i].b>> : i \in taken} |-> Id(place(Of(p)))]
<1>1. Chosen(ps, offers) = chosen
  BY DEF Chosen
<1>2. ps \in Seq(Strings) /\ dict \in Seq(Strings) /\ Begins(ps, dict)
  BY ExtendedListed DEF Listed
<1>3. \A i \in DOMAIN best : best[i] \in OffersOf(ps)
  <2>1. MergesPerRound \in Nat
    BY SearchBounds
  <2>2. best \in Seq(OffersOf(ps))
    BY SMTT(40), <2>1, SliceOf
  <2> HIDE DEF best
  <2> QED BY <2>2
<1> HIDE DEF dict, best
<1> SUFFICES ASSUME NEW a \in SymbolsOf(dict), NEW b \in SymbolsOf(dict), <<a, b>> \in DOMAIN chosen
             PROVE  /\ chosen[<<a, b>>] \in SymbolsOf(dict)
                    /\ Bytes(chosen[<<a, b>>], dict) = Bytes(a, dict) \o Bytes(b, dict)
  BY ZenonT(60), <1>1 DEF Blocks, dict
<1> DEFINE p == <<a, b>>
           i == Of(p)
           k == place(i)
<1>4. \E j \in taken : <<best[j].a, best[j].b>> = p
  OBVIOUS
<1>5. i \in taken /\ <<best[i].a, best[i].b>> = p
  <2> HIDE DEF taken, p
  <2> QED BY <1>4
<1>6. best[i].a = a /\ best[i].b = b
  <2> HIDE DEF i
  <2> QED BY <1>5
<1> HIDE DEF Of
<1>7. chosen[<<a, b>>] = Id(k)
  BY <1>4
<1>8. i \in DOMAIN best /\ \E j \in DOMAIN dict : dict[j] = best[i].bytes
  <2> HIDE DEF i
  <2> QED BY <1>5
<1>9. k \in DOMAIN dict /\ dict[k] = best[i].bytes
  <2> HIDE DEF i
  <2> QED BY <1>8
<1> HIDE DEF k, i, chosen
<1>10. best[i].bytes = Bytes(a, ps) \o Bytes(b, ps) /\ a \in SymbolsOf(ps) /\ b \in SymbolsOf(ps)
  BY <1>3, <1>6, <1>8 DEF OffersOf
<1>11. Bytes(a, dict) = Bytes(a, ps) /\ Bytes(b, dict) = Bytes(b, ps)
  <2>1. <<>> \in Seq(SymbolsOf(ps))
    OBVIOUS
  <2> QED BY <1>2, <1>10, <2>1, ExpandGrown DEF Begins
<1>12. Id(k) \in SymbolsOf(dict) /\ Bytes(Id(k), dict) = dict[k]
  BY <1>2, <1>9, BytesOf DEF SymbolsOf
<1> QED BY <1>7, <1>9, <1>10, <1>11, <1>12

(***************************************************************************)
(* The audit                                                               *)
(***************************************************************************)

NumBefore(c, a, b) == a < b

ByNumber == INSTANCE RecursionLemmas WITH Step <- NumBefore

\* The ids kept by the audit are sorted as numbers.
LEMMA NumberOrder ==
  ASSUME NEW S, IsFiniteSet(S), S \subseteq Nat
  PROVE  Enumerates(ByNumber!Ordered(0, S), S)
<1>1. ByNumber!IsFiniteSet(S)
  BY DEF IsFiniteSet, ByNumber!IsFiniteSet
<1>2. ByNumber!Cardinality(S) = Cardinality(S)
  BY DEF Cardinality, ByNumber!Cardinality
<1>3. ByNumber!Orders(0, S)
  BY DEF ByNumber!Orders, NumBefore
<1>4. ByNumber!Enumerates(ByNumber!Ordered(0, S), S)
  BY <1>1, <1>3, ByNumber!Enumerated
<1> QED BY <1>2, <1>4 DEF Enumerates, ByNumber!Enumerates

\* A symbol that is somewhere has a tally, and one that has a tally is somewhere.
LEMMA TallyOf ==
  ASSUME NEW S, NEW s \in Seq(S), NEW x
  PROVE  /\ Tally(s, x) \in Nat
         /\ Tally(s, x) > 0 <=> \E i \in 1 .. Len(s) : s[i] = x
<1> DEFINE n == Len(s)
           T == {i \in DOMAIN s : s[i] = x}
<1>1. n \in Nat /\ DOMAIN s = 1 .. n
  OBVIOUS
<1>2. T \subseteq 1 .. n /\ (T # {} <=> \E i \in 1 .. n : s[i] = x)
  BY <1>1
<1>3. IsFiniteSet(1 .. n)
  <2> DEFINE one == 1
  <2>1. one \in Int
    OBVIOUS
  <2> HIDE DEF n, one
  <2>2. IsFiniteSet(one .. n)
    BY <1>1, <2>1, PlacesFinite
  <2> QED BY <2>2 DEF one
<1>4. Tally(s, x) = Cardinality(T)
  BY DEF Tally
<1> HIDE DEF n, T
<1>5. IsFiniteSet(T) /\ Cardinality(T) \in Nat
  BY <1>2, <1>3, CountType
<1>6. Cardinality(T) = 0 <=> T = {}
  BY <1>5, FS_EmptySet
<1>7. Cardinality(T) > 0 <=> T # {}
  BY <1>5, <1>6
<1> QED BY <1>2, <1>4, <1>5, <1>7 DEF n

Occurs(x, s) == \E j \in 1 .. Len(s) : s[j] = x

\* What is alone in one of the sequences is in the flat one.
LEMMA FlatHas ==
  ASSUME NEW S, NEW ss \in Seq(Seq(S)), NEW i \in 1 .. Len(ss), NEW x \in S, ss[i] = <<x>>
  PROVE  Occurs(x, FlattenSeq(ss))
<1> DEFINE n == Len(ss)
<1>1. PICK f \in [0 .. n -> Seq(S)] :
        /\ f[0] = <<>> /\ \A k \in 1 .. n : f[k] = f[k - 1] \o ss[k]
        /\ FlattenSeq(ss) = f[n]
  BY Flattened
<1> DEFINE at == Len(f[i - 1])
           width == Len(ss[i])
           flat == f[n]
<1>2. /\ at \in Nat /\ width \in Nat /\ at + width <= Len(flat)
      /\ SubSeq(flat, at + 1, at + width) = ss[i]
  BY <1>1, Pieces
<1>3. width = 1 /\ ss[i][1] = x
  <2>1. Len(<<x>>) = 1 /\ <<x>>[1] = x
    OBVIOUS
  <2> QED BY <2>1
<1>4. flat \in Seq(S) /\ Len(flat) \in Nat
  <2>1. n \in 0 .. n
    OBVIOUS
  <2>2. flat \in Seq(S)
    BY <1>1, <2>1
  <2> QED BY <2>2
<1> HIDE DEF at, width, flat
<1> DEFINE m == at + 1
           q == SubSeq(flat, m, m)
<1>5. m \in 1 .. Len(flat) /\ m = at + width
  BY <1>2, <1>3, <1>4
<1>6. q = ss[i]
  BY <1>2, <1>5
<1> HIDE DEF m
<1>7. \A k \in m .. m : flat[k] \in S
  BY <1>4, <1>5
<1>8. \A k \in 1 .. m - m + 1 : q[k] = flat[m + k - 1]
  <2>1. m \in Int
    BY <1>4, <1>5
  <2> QED BY <1>7, <2>1, SubSeqProperties
<1> HIDE DEF q
<1>9. q[1] = flat[m]
  <2>1. m \in Int
    BY <1>4, <1>5
  <2>2. m - m + 1 = 1 /\ m + 1 - 1 = m
    BY <2>1
  <2>3. 1 \in 1 .. m - m + 1
    BY <2>2
  <2> QED BY <1>8, <2>2, <2>3
<1> QED BY <1>1, <1>3, <1>5, <1>6, <1>9 DEF flat, Occurs

\* Every entry is there for a symbol of s.
AllUsed(s, ps) == \A k \in DOMAIN ps : Tally(s, Id(k)) > 0

\* The audit renumbers: entries, ids and the file still agree, and every entry
\* that is left is used.
LEMMA AuditedSound ==
  ASSUME NEW ps, Listed(ps), NEW s \in Seq(SymbolsOf(ps)), NEW a, a = Audited(s, ps)
  PROVE  /\ Listed(a.entries) /\ a.ids \in Seq(SymbolsOf(a.entries))
         /\ Expand(a.ids, a.entries) = Expand(s, ps)
         /\ AllUsed(a.ids, a.entries)
<1> DEFINE kept == Paying(s, ps)
           order == ByNumber!Ordered(0, kept)
           place(x) == CHOOSE k \in DOMAIN order : Id(order[k]) = x
           piece(x) == IF x \in Literals THEN <<x>>
                       ELSE IF x \in {Id(k) : k \in kept} THEN <<Id(place(x))>>
                       ELSE Bytes(x, ps)
           pieces == [i \in DOMAIN s |-> piece(s[i])]
           qs == [k \in DOMAIN order |-> ps[order[k]]]
           m == Len(ps)
           n == Len(s)
           l == Len(order)
<1>1. a.ids = FlattenSeq(pieces) /\ a.entries = qs
  BY DEF Audited, Sorted, ByNumber!Ordered, NumBefore, Cardinality, ByNumber!Cardinality
<1>2. /\ ps \in Seq(Strings) /\ m \in Nat /\ DOMAIN ps = 1 .. m /\ m <= MaxDict
      /\ n \in Nat /\ DOMAIN s = 1 .. n /\ \A i \in 1 .. n : s[i] \in SymbolsOf(ps)
  BY DEF Listed
<1>3. kept \subseteq 1 .. m /\ \A k \in kept : Tally(s, Id(k)) > 0
  BY <1>2 DEF Paying
<1> HIDE DEF kept
<1>4. IsFiniteSet(kept) /\ Cardinality(kept) \in Nat /\ Cardinality(kept) <= m /\ kept \subseteq Nat \ {0}
  <2> DEFINE one == 1
  <2>1. one \in Int /\ m \in Int /\ m \in Nat
    BY <1>2
  <2> HIDE DEF one, m
  <2>2. IsFiniteSet(one .. m) /\ Cardinality(one .. m) = (IF one > m THEN 0 ELSE m - one + 1)
    BY <2>1, FS_Interval
  <2>3. kept \in SUBSET (one .. m)
    BY <1>3 DEF one
  <2>4. IsFiniteSet(kept) /\ Cardinality(kept) <= Cardinality(one .. m)
    BY <2>2, <2>3, FS_Subset
  <2>5. Cardinality(one .. m) = m
    BY <2>1, <2>2 DEF one
  <2>6. kept \subseteq Nat \ {0}
    BY <1>3
  <2>7. Cardinality(kept) \in Nat
    BY <2>4, FS_CardinalityType
  <2> QED BY <2>4, <2>5, <2>6, <2>7
<1>5. /\ order \in Seq(kept) /\ l = Cardinality(kept) /\ DOMAIN order = 1 .. l /\ l \in Nat
      /\ \A i, j \in 1 .. l : order[i] = order[j] => i = j
      /\ \A x \in kept : \E i \in 1 .. l : order[i] = x
  <2>1. kept \subseteq Nat
    BY <1>4
  <2>2. Enumerates(order, kept)
    BY <1>4, <2>1, NumberOrder
  <2> HIDE DEF order
  <2> QED BY <1>4, <2>2, EnumeratesSeq
<1> HIDE DEF order
<1>6. \A k \in 1 .. l : order[k] \in kept /\ order[k] \in 1 .. m /\ order[k] \in Nat \ {0}
  <2>1. \A k \in 1 .. l : order[k] \in kept
    BY <1>5
  <2> QED BY <1>3, <1>4, <2>1
<1> HIDE DEF l, m, n
<1>7. DOMAIN qs = 1 .. l /\ \A k \in 1 .. l : qs[k] = ps[order[k]] /\ qs[k] \in Strings
  <2>1. \A k \in 1 .. m : ps[k] \in Strings
    BY <1>2
  <2> QED BY <1>5, <1>6, <2>1
<1>8. qs \in Seq(Strings) /\ Len(qs) = l
  <2>1. qs \in [1 .. l -> Strings]
    <3>1. qs = [k \in 1 .. l |-> qs[k]]
      BY <1>5
    <3> HIDE DEF qs
    <3> QED BY <1>7, <3>1
  <2> HIDE DEF qs
  <2> QED BY <1>5, <2>1
<1> HIDE DEF qs
<1>9. Listed(qs)
  <2>1. Distinct(qs)
    <3> SUFFICES ASSUME NEW j \in 1 .. l, NEW k \in 1 .. l, qs[j] = qs[k] PROVE j = k
      BY <1>7 DEF Distinct
    <3>1. ps[order[j]] = ps[order[k]]
      BY <1>7
    <3>2. order[j] = order[k]
      BY <1>2, <1>6, <3>1 DEF Listed, Distinct
    <3> QED BY <1>5, <3>2
  <2>2. Len(qs) <= MaxDict
    <3>1. MaxDict \in Nat
      BY SearchBounds
    <3> QED BY <1>2, <1>4, <1>5, <1>8, <3>1
  <2>3. \A k \in DOMAIN qs : Len(qs[k]) <= LongestEntry
    BY <1>2, <1>6, <1>7 DEF Listed
  <2> QED BY <1>8, <2>1, <2>2, <2>3 DEF Listed
<1>10. ASSUME NEW k \in 1 .. l PROVE place(Id(order[k])) = k
  <2> DEFINE x == Id(order[k])
  <2>1. \A j \in 1 .. l : Id(order[j]) = x => j = k
    <3> SUFFICES ASSUME NEW j \in 1 .. l, Id(order[j]) = x PROVE j = k
      OBVIOUS
    <3>1. order[j] = order[k]
      BY <1>6, Numbers
    <3> QED BY <1>5, <3>1
  <2>2. Id(order[k]) = x
    OBVIOUS
  <2> HIDE DEF x
  <2>3. place(x) = k
    BY <1>5, <2>1, <2>2
  <2> QED BY <2>3 DEF x
<1>11. ASSUME NEW k \in kept
       PROVE  \E j \in 1 .. l : order[j] = k /\ piece(Id(k)) = <<Id(j)>>
  <2>1. PICK j \in 1 .. l : order[j] = k
    BY <1>5
  <2>2. place(Id(k)) = j
    BY <1>10, <2>1
  <2>3. Id(k) \notin Literals
    BY <1>4, Numbers
  <2> HIDE DEF place
  <2>4. piece(Id(k)) = <<Id(j)>>
    BY <2>2, <2>3
  <2> QED BY <2>1, <2>4
<1> HIDE DEF place
<1>12. ASSUME NEW x \in SymbolsOf(ps)
       PROVE  piece(x) \in Seq(SymbolsOf(qs)) /\ Expand(piece(x), qs) = Bytes(x, ps)
  <2>1. CASE x \in Literals
    <3>1. piece(x) = <<x>> /\ x \in SymbolsOf(qs)
      BY <2>1 DEF SymbolsOf
    <3>2. Bytes(x, qs) = Bytes(x, ps)
      BY <2>1 DEF Bytes
    <3>3. <<x>> \in Seq(SymbolsOf(qs))
      BY <3>1
    <3> QED BY <1>8, <3>1, <3>2, <3>3, ExpandOne
  <2>2. CASE x \notin Literals /\ x \in {Id(k) : k \in kept}
    <3>1. PICK k \in kept : x = Id(k)
      BY <2>2
    <3>2. PICK j \in 1 .. l : order[j] = k /\ piece(Id(k)) = <<Id(j)>>
      BY <1>11
    <3>3. Id(j) \in SymbolsOf(qs) /\ Bytes(Id(j), qs) = qs[j]
      BY <1>7, <1>8, BytesOf DEF SymbolsOf
    <3>4. Bytes(x, ps) = ps[k]
      BY <1>2, <1>3, <3>1, BytesOf
    <3>5. <<Id(j)>> \in Seq(SymbolsOf(qs)) /\ Expand(<<Id(j)>>, qs) = qs[j]
      <4>1. Expand(<<Id(j)>>, qs) = qs[j]
        BY <1>8, <3>3, ExpandOne
      <4> QED BY <3>3, <4>1
    <3> HIDE DEF piece
    <3> QED BY <1>7, <3>1, <3>2, <3>4, <3>5
  <2>3. CASE x \notin Literals /\ x \notin {Id(k) : k \in kept}
    <3>1. piece(x) = Bytes(x, ps)
      BY <2>3
    <3>2. Bytes(x, ps) \in Seq(Literals)
      BY <1>2, BytesOf DEF Strings
    <3>3. Seq(Literals) \subseteq Seq(SymbolsOf(qs))
      <4>1. Literals \subseteq SymbolsOf(qs)
        BY DEF SymbolsOf
      <4> DEFINE X == SymbolsOf(qs)
      <4> HIDE DEF X
      <4>2. Literals \subseteq X
        BY <4>1 DEF X
      <4>3. ASSUME NEW q \in Seq(Literals) PROVE q \in Seq(X)
        <5> DEFINE h == Len(q)
        <5>1. h \in Nat /\ q \in [1 .. h -> Literals]
          OBVIOUS
        <5>2. q \in [1 .. h -> X]
          BY <4>2, <5>1
        <5> HIDE DEF h
        <5> QED BY <5>1, <5>2
      <4> QED BY <4>3 DEF X
    <3>4. Expand(Bytes(x, ps), qs) = Bytes(x, ps)
      BY <1>8, <3>2, ExpandLiterals
    <3> QED BY <3>1, <3>2, <3>3, <3>4
  <2> QED BY <2>1, <2>2, <2>3
<1>13. DOMAIN pieces = 1 .. n /\ \A i \in 1 .. n : pieces[i] = piece(s[i])
  <2> HIDE DEF piece
  <2> QED BY <1>2
<1>14. pieces \in Seq(Seq(SymbolsOf(qs))) /\ Len(pieces) = n
  <2>1. \A i \in 1 .. n : pieces[i] \in Seq(SymbolsOf(qs))
    <3> HIDE DEF piece, pieces
    <3> QED BY <1>2, <1>12, <1>13
  <2>2. pieces = [i \in 1 .. n |-> pieces[i]]
    <3> HIDE DEF piece
    <3> QED BY <1>2
  <2> HIDE DEF pieces
  <2> DEFINE Q == Seq(SymbolsOf(qs))
  <2>3. pieces \in [1 .. n -> Q]
    BY <2>1, <2>2
  <2> HIDE DEF Q
  <2>4. pieces \in Seq(Q) /\ Len(pieces) = n
    BY <1>2, <2>3
  <2> QED BY <2>4 DEF Q
<1> HIDE DEF pieces
<1>15. Expand(FlattenSeq(pieces), qs) = Expand(s, ps)
  <2> DEFINE each == [i \in DOMAIN pieces |-> Expand(pieces[i], qs)]
  <2>1. Expand(FlattenSeq(pieces), qs) = FlattenSeq(each)
    BY <1>8, <1>14, ExpandFlat
  <2>2. each = Spelled(s, ps)
    <3>1. \A i \in 1 .. n : Expand(pieces[i], qs) = Bytes(s[i], ps)
      <4> HIDE DEF piece
      <4> QED BY <1>2, <1>12, <1>13
    <3> QED BY <1>2, <1>13, <3>1 DEF Spelled
  <2> HIDE DEF each
  <2> QED BY <1>2, <2>1, <2>2, SpelledType
<1>16. FlattenSeq(pieces) \in Seq(SymbolsOf(qs))
  BY <1>14, FlatType
<1>17. AllUsed(FlattenSeq(pieces), qs)
  <2> SUFFICES ASSUME NEW k \in 1 .. l PROVE Tally(FlattenSeq(pieces), Id(k)) > 0
    BY <1>7 DEF AllUsed
  <2>1. order[k] \in kept
    BY <1>6
  <2>2. PICK i \in 1 .. n : s[i] = Id(order[k])
    <3>1. Tally(s, Id(order[k])) > 0
      BY <1>3, <2>1
    <3> QED BY <3>1, TallyOf DEF n
  <2>3. PICK j \in 1 .. l : order[j] = order[k] /\ piece(Id(order[k])) = <<Id(j)>>
    BY <1>11, <2>1
  <2>4. j = k
    BY <1>5, <2>3
  <2>5. pieces[i] = <<Id(k)>>
    <3> HIDE DEF piece
    <3> QED BY <1>13, <2>2, <2>3, <2>4
  <2>6. Id(k) \in SymbolsOf(qs)
    BY <1>7 DEF SymbolsOf
  <2>7. Occurs(Id(k), FlattenSeq(pieces))
    <3> DEFINE X == SymbolsOf(qs)
               x == Id(k)
    <3>1. pieces \in Seq(Seq(X)) /\ i \in 1 .. Len(pieces) /\ x \in X /\ pieces[i] = <<x>>
      BY <1>14, <2>5, <2>6
    <3> HIDE DEF X, x
    <3>2. Occurs(x, FlattenSeq(pieces))
      BY <3>1, FlatHas
    <3> QED BY <3>2 DEF x
  <2> QED BY <1>16, <2>7, TallyOf DEF Occurs
<1> QED BY <1>1, <1>9, <1>15, <1>16, <1>17

(***************************************************************************)
(* The optimal parse                                                       *)
(***************************************************************************)

BitsIn(l, x) == IF x \in DOMAIN l THEN l[x] ELSE NoCode

PriceStep(l, sum, x) == sum + BitsIn(l, x)

Pricing == INSTANCE RecursionLemmas WITH Step <- PriceStep

LengthsTyped == length \in [DOMAIN length -> Nat]

\* Prices are numbers, and a text has the price of its symbols.
LEMMA BitsType == ASSUME LengthsTyped, NEW x PROVE Bits(x) \in Nat
BY SearchBounds DEF Bits, LengthsTyped

LEMMA PriceFold == ASSUME NEW s PROVE Price(s) = Pricing!Fold(length, 0, s)
BY DEF Price, Pricing!Fold, PriceStep, BitsIn, Bits, FoldLeft, MapThenFoldSet, Max,
       Pricing!FoldLeft, Pricing!MapThenFoldSet, Pricing!Max

LEMMA PriceAppend ==
  ASSUME NEW S, NEW s \in Seq(S), NEW x \in S
  PROVE  Price(Append(s, x)) = Price(s) + Bits(x)
<1>1. Pricing!Fold(length, 0, Append(s, x)) = PriceStep(length, Pricing!Fold(length, 0, s), x)
  BY Pricing!FoldAppend
<1> QED BY <1>1, PriceFold DEF PriceStep, BitsIn, Bits

LEMMA PriceType ==
  ASSUME NEW S, NEW s \in Seq(S), LengthsTyped
  PROVE  Price(s) \in Nat /\ Price(<<>>) = 0
<1> DEFINE G == {q \in Seq(S) : Price(q) \in Nat}
<1>1. Price(<<>>) = 0 /\ <<>> \in G
  <2> DEFINE e == <<>>
  <2>1. Price(e) = 0
    BY PriceFold, Pricing!FoldEmpty
  <2> QED BY <2>1
<1>2. ASSUME NEW q \in Seq(S), NEW x \in S, q \in G PROVE Append(q, x) \in G
  BY <1>2, PriceAppend, BitsType
<1>3. Seq(S) \subseteq G
  <2> HIDE DEF G
  <2> QED BY <1>1, <1>2, ByAppending
<1> QED BY <1>1, <1>3

\* The best of the ends of a place.
Cheapest(upto, ends) ==
  LET cost == [e \in ends |-> upto[e.from].cost + Bits(e.x)]
      cheap == {e \in ends : \A o \in ends : cost[e] <= cost[o]}
      first == CHOOSE e \in cheap : \A o \in cheap : e.from <= o.from
  IN [ids |-> Append(upto[first.from].ids, first.x), cost |-> cost[first]]

ParseStep(c, upto, j) == Append(upto, Cheapest(upto, Ending(c[1], c[2], j)))

Parsing == INSTANCE RecursionLemmas WITH Step <- ParseStep

Beginning == [ids |-> <<>>, cost |-> 0]

\* The optimal parse and the list of all parses, as folds.
LEMMA ParseFold ==
  ASSUME NEW d, NEW ps
  PROVE  Parse(d, ps) =
         Parsing!Fold(<<d, ps>>, <<Beginning>>, [j \in DOMAIN d |-> j])[Len(d) + 1].ids
<1>1. Parse(d, ps) = PlaceByPlace(d, ps, Cheapest, Beginning).ids
  BY DEF Parse, Cheapest, Beginning
<1>2. PlaceByPlace(d, ps, Cheapest, Beginning) =
      Parsing!Fold(<<d, ps>>, <<Beginning>>, [j \in DOMAIN d |-> j])[Len(d) + 1]
  BY DEF PlaceByPlace, Parsing!Fold, ParseStep, FoldLeft, MapThenFoldSet, Max,
         Parsing!FoldLeft, Parsing!MapThenFoldSet, Parsing!Max
<1> QED BY <1>1, <1>2

AllStep(c, upto, j) ==
  Append(upto, UNION {{Append(s, e.x) : s \in upto[e.from]} : e \in Ending(c[1], c[2], j)})

Listing == INSTANCE RecursionLemmas WITH Step <- AllStep

LEMMA ParsesFold ==
  ASSUME NEW d, NEW ps
  PROVE  Parses(d, ps) =
         Listing!Fold(<<d, ps>>, <<{<<>>}>>, [j \in DOMAIN d |-> j])[Len(d) + 1]
BY DEF Parses, PlaceByPlace, Listing!Fold, AllStep,
       FoldLeft, MapThenFoldSet, Max, Listing!FoldLeft, Listing!MapThenFoldSet, Listing!Max

\* A symbol that ends at a place is what the file has there.
LEMMA EndingOf ==
  ASSUME NEW ps \in Seq(Strings), NEW d \in Seq(Literals), NEW j \in 1 .. Len(d),
         NEW e \in Ending(d, ps, j)
  PROVE  /\ e.x \in SymbolsOf(ps) /\ e.from \in 1 .. j
         /\ SubSeq(d, 1, e.from - 1) \o Bytes(e.x, ps) = SubSeq(d, 1, j)
<1> DEFINE n == Len(d)
<1>1. n \in Nat /\ j \in 1 .. n /\ d[j] \in Literals
  OBVIOUS
<1>2. CASE e = [x |-> d[j], from |-> j]
  <2>1. e.x = d[j] /\ e.from = j
    BY <1>2
  <2>2. Bytes(e.x, ps) = <<d[j]>> /\ e.x \in SymbolsOf(ps)
    BY <1>1, <2>1 DEF Bytes, SymbolsOf
  <2> DEFINE one == 1
  <2>3. one \in 1 .. n /\ j \in one .. n
    BY <1>1
  <2> HIDE DEF one
  <2>4. SubSeq(d, one, j) = SubSeq(d, one, j - 1) \o <<d[j]>>
    BY <2>3, SubSeqRecursiveSecond
  <2>5. SubSeq(d, 1, j) = SubSeq(d, 1, j - 1) \o <<d[j]>>
    BY <2>4 DEF one
  <2>6. e.from \in 1 .. j
    BY <1>1, <2>1
  <2> QED BY <2>1, <2>2, <2>5, <2>6
<1>3. ASSUME NEW k \in DOMAIN ps, e = [x |-> Id(k), from |-> j - Len(ps[k]) + 1],
             Len(ps[k]) <= j, At(d, j - Len(ps[k]) + 1, ps[k])
      PROVE  /\ e.x \in SymbolsOf(ps) /\ e.from \in 1 .. j
             /\ SubSeq(d, 1, e.from - 1) \o Bytes(e.x, ps) = SubSeq(d, 1, j)
  <2> DEFINE p == ps[k]
             m == Len(p)
             i == j - m + 1
             h == j - m
  <2>1. p \in Strings /\ Bytes(e.x, ps) = p /\ e.x \in SymbolsOf(ps)
    BY <1>3, BytesOf DEF SymbolsOf
  <2>2. m \in Nat \ {0}
    <3>1. p \in Seq(Literals) /\ p # <<>>
      BY <2>1 DEF Strings
    <3> HIDE DEF p
    <3> QED BY <3>1, EmptySeq
  <2>3. e.from = i /\ m <= j /\ SubSeq(d, i, i + m - 1) = p
    BY <1>3 DEF At
  <2> HIDE DEF p, m
  <2>4. i \in 1 .. j /\ i + m - 1 = j /\ i - 1 = h /\ i = h + 1
        /\ h \in 0 .. n /\ j \in h .. n
    BY <1>1, <2>2, <2>3
  <2>5. SubSeq(d, i, j) = p
    BY <2>3, <2>4
  <2> HIDE DEF i, h
  <2> DEFINE one == 1
  <2>6. one \in 1 .. n + 1 /\ h \in one - 1 .. n
    BY <1>1, <2>4
  <2> HIDE DEF one
  <2>7. SubSeq(d, one, h) \o SubSeq(d, h + 1, j) = SubSeq(d, one, j)
    BY <2>4, <2>6, ConcatAdjacentSubSeq
  <2>8. SubSeq(d, 1, h) \o p = SubSeq(d, 1, j)
    BY <2>4, <2>5, <2>7 DEF one
  <2> QED BY <2>1, <2>3, <2>4, <2>8
<1> QED BY <1>2, <1>3 DEF Ending

\* The ways to write what comes before each place up to j: one of each, with
\* what it costs.
WaysUpto(q, d, ps, j) ==
  /\ q \in Seq([ids : Seq(SymbolsOf(ps)), cost : Nat]) /\ Len(q) = j + 1
  /\ \A i \in 0 .. j : /\ Expand(q[i + 1].ids, ps) = SubSeq(d, 1, i)
                       /\ q[i + 1].cost = Price(q[i + 1].ids)

\* The cheapest of the ways that end at a place.
LEMMA CheapestWay ==
  ASSUME NEW ps \in Seq(Strings), NEW d \in Seq(Literals), NEW j \in 1 .. Len(d), LengthsTyped,
         NEW q, WaysUpto(q, d, ps, j - 1), NEW w, w = Cheapest(q, Ending(d, ps, j))
  PROVE  /\ w \in [ids : Seq(SymbolsOf(ps)), cost : Nat]
         /\ Expand(w.ids, ps) = SubSeq(d, 1, j) /\ w.cost = Price(w.ids)
         /\ \A e \in Ending(d, ps, j) : w.cost <= q[e.from].cost + Bits(e.x)
<1> DEFINE X == SymbolsOf(ps)
           T == [ids : Seq(X), cost : Nat]
           ends == Ending(d, ps, j)
           cost == [e \in ends |-> q[e.from].cost + Bits(e.x)]
           cheap == {e \in ends : \A o \in ends : cost[e] <= cost[o]}
           first == CHOOSE e \in cheap : \A o \in cheap : e.from <= o.from
<1>1. w = [ids |-> Append(q[first.from].ids, first.x), cost |-> cost[first]]
  BY ZenonT(60) DEF Cheapest
<1>2. j \in Nat /\ Len(d) \in Nat /\ q \in Seq(T) /\ Len(q) = j
  <2>1. j \in Nat /\ Len(d) \in Nat
    OBVIOUS
  <2>2. q \in Seq(T) /\ Len(q) = j - 1 + 1
    BY DEF WaysUpto
  <2> HIDE DEF T
  <2>3. j - 1 + 1 = j
    BY <2>1
  <2> QED BY <2>1, <2>2, <2>3
<1>3. ASSUME NEW e \in ends
      PROVE  /\ e.x \in X /\ e.from \in 1 .. j
             /\ SubSeq(d, 1, e.from - 1) \o Bytes(e.x, ps) = SubSeq(d, 1, j)
             /\ q[e.from] \in T /\ Expand(q[e.from].ids, ps) = SubSeq(d, 1, e.from - 1)
             /\ q[e.from].cost = Price(q[e.from].ids)
             /\ cost[e] = q[e.from].cost + Bits(e.x) /\ cost[e] \in Nat
  <2>1. /\ e.x \in X /\ e.from \in 1 .. j
        /\ SubSeq(d, 1, e.from - 1) \o Bytes(e.x, ps) = SubSeq(d, 1, j)
    BY EndingOf
  <2> DEFINE i == e.from
             h == i - 1
  <2> HIDE DEF X, T, ends
  <2>2. i \in 1 .. Len(q)
    BY <1>2, <2>1
  <2>3. h \in 0 .. j - 1 /\ h + 1 = i
    BY SMTT(30), <1>2, <2>1
  <2>4. q[i] \in T
    BY <1>2, <2>2
  <2> HIDE DEF i, h
  <2>5. Expand(q[i].ids, ps) = SubSeq(d, 1, h) /\ q[i].cost = Price(q[i].ids)
    BY <2>3 DEF WaysUpto
  <2>6. q[i].cost \in Nat
    BY <2>4 DEF T
  <2>7. Bits(e.x) \in Nat
    BY BitsType
  <2>8. cost[e] = q[i].cost + Bits(e.x)
    BY DEF i
  <2>9. cost[e] \in Nat
    <3> HIDE DEF cost
    <3> QED BY <2>6, <2>7, <2>8
  <2> QED BY <2>1, <2>4, <2>5, <2>8, <2>9 DEF i, h
<1>4. ends # {}
  BY DEF Ending
<1>5. cheap # {}
  <2> DEFINE C == {cost[e] : e \in ends}
  <2>1. C \in SUBSET Nat /\ C # {}
    <3> HIDE DEF cost, ends
    <3> QED BY <1>3, <1>4
  <2>2. PICK m \in C : \A k \in C : m <= k
    <3> HIDE DEF C
    <3> QED BY <2>1, LeastNumber
  <2> HIDE DEF cost, ends
  <2>3. PICK e \in ends : cost[e] = m
    OBVIOUS
  <2>4. \A o \in ends : cost[e] <= cost[o]
    BY <2>2, <2>3
  <2> QED BY <2>3, <2>4
<1>6. cheap \subseteq ends /\ \A e \in cheap : \A o \in ends : cost[e] <= cost[o]
  OBVIOUS
<1> HIDE DEF cost, ends, cheap
<1>7. first \in cheap
  <2> DEFINE F == {e.from : e \in cheap}
  <2>1. F \in SUBSET Nat /\ F # {}
    <3>1. \A e \in cheap : e.from \in Nat
      <4>1. \A e \in cheap : e.from \in 1 .. j
        BY <1>3, <1>6
      <4> HIDE DEF X
      <4> QED BY <1>2, <4>1
    <3> QED BY <1>5, <3>1
  <2>2. PICK m \in F : \A k \in F : m <= k
    <3> HIDE DEF F
    <3> QED BY <2>1, LeastNumber
  <2>3. PICK e \in cheap : e.from = m
    OBVIOUS
  <2>4. \A o \in cheap : e.from <= o.from
    BY <2>2, <2>3
  <2> QED BY <2>3, <2>4
<1> HIDE DEF first
<1> DEFINE before == q[first.from].ids
<1>8. /\ first \in ends /\ first.x \in X /\ before \in Seq(X) /\ cost[first] \in Nat
      /\ Expand(before, ps) \o Bytes(first.x, ps) = SubSeq(d, 1, j)
      /\ cost[first] = Price(before) + Bits(first.x)
  <2>1. first \in ends
    BY <1>6, <1>7
  <2>2. q[first.from] \in T /\ q[first.from].cost = Price(before)
        /\ Expand(before, ps) = SubSeq(d, 1, first.from - 1)
    BY <1>3, <2>1
  <2>3. before \in Seq(X)
    <3> HIDE DEF X
    <3> QED BY <2>2 DEF T
  <2> QED BY <1>3, <2>1, <2>2, <2>3
<1>9. w.ids = Append(before, first.x) /\ w.cost = cost[first]
      /\ w = [ids |-> Append(before, first.x), cost |-> cost[first]]
  BY SMTT(30), <1>1
<1> HIDE DEF before, X
<1>10. Append(before, first.x) \in Seq(X) /\ Price(Append(before, first.x)) = cost[first]
  BY <1>8, PriceAppend
<1>11. Expand(Append(before, first.x), ps) = SubSeq(d, 1, j)
  BY <1>8, ExpandAppend DEF X
<1>12. \A e \in ends : w.cost <= q[e.from].cost + Bits(e.x)
  BY <1>3, <1>6, <1>7, <1>9
<1>13. w \in T
  BY <1>8, <1>9, <1>10
<1> QED BY <1>9, <1>10, <1>11, <1>12, <1>13 DEF ends, X

\* The table of the optimal parse, from its first place to one place more.
LEMMA WaysStart ==
  ASSUME NEW ps \in Seq(Strings), NEW d \in Seq(Literals), LengthsTyped
  PROVE  WaysUpto(<<Beginning>>, d, ps, 0)
<1> DEFINE X == SymbolsOf(ps)
           e == <<>>
           q == <<Beginning>>
<1>1. Beginning \in [ids : Seq(X), cost : Nat] /\ Beginning.ids = e /\ Beginning.cost = 0
  BY DEF Beginning
<1>2. Price(e) = 0
  <2>1. e \in Seq(X)
    OBVIOUS
  <2> QED BY <2>1, PriceType
<1>3. Expand(e, ps) = SubSeq(d, 1, 0)
  <2> DEFINE one == 1
             none == 0
  <2>1. one \in Int /\ none \in Int /\ none < one
    OBVIOUS
  <2> HIDE DEF one, none
  <2>2. SubSeq(d, one, none) = <<>>
    BY <2>1, SubSeqEmpty
  <2> QED BY <2>2, ExpandEmpty DEF one, none
<1> HIDE DEF X
<1> DEFINE T == [ids : Seq(X), cost : Nat]
<1>4. Beginning \in T
  BY <1>1
<1> HIDE DEF T
<1>5. q \in Seq(T) /\ Len(q) = 0 + 1 /\ q[0 + 1] = Beginning
  BY <1>4
<1> HIDE DEF q
<1>6. \A i \in 0 .. 0 : i = 0
  OBVIOUS
<1> QED BY <1>1, <1>2, <1>3, <1>5, <1>6 DEF WaysUpto, T, X, q

LEMMA WaysStep ==
  ASSUME NEW ps \in Seq(Strings), NEW d \in Seq(Literals), NEW j \in 1 .. Len(d), LengthsTyped,
         NEW q, WaysUpto(q, d, ps, j - 1)
  PROVE  WaysUpto(Append(q, Cheapest(q, Ending(d, ps, j))), d, ps, j)
<1> DEFINE w == Cheapest(q, Ending(d, ps, j))
           X == SymbolsOf(ps)
           T == [ids : Seq(X), cost : Nat]
           r == Append(q, w)
<1>1. w \in T /\ Expand(w.ids, ps) = SubSeq(d, 1, j) /\ w.cost = Price(w.ids)
  BY CheapestWay
<1>2. j \in Nat \ {0} /\ q \in Seq(T) /\ Len(q) = j
  <2>1. j \in Nat \ {0}
    OBVIOUS
  <2>2. q \in Seq(T) /\ Len(q) = j - 1 + 1
    BY DEF WaysUpto
  <2> HIDE DEF T
  <2>3. j - 1 + 1 = j
    BY <2>1
  <2> QED BY <2>1, <2>2, <2>3
<1> HIDE DEF w, T
<1>3. r \in Seq(T) /\ Len(r) = j + 1 /\ r[j + 1] = w /\ \A i \in 1 .. j : r[i] = q[i]
  BY <1>1, <1>2
<1> HIDE DEF r
<1>4. ASSUME NEW i \in 0 .. j
      PROVE  Expand(r[i + 1].ids, ps) = SubSeq(d, 1, i) /\ r[i + 1].cost = Price(r[i + 1].ids)
  <2>1. CASE i = j
    BY <1>1, <1>3, <2>1
  <2>2. CASE i # j
    <3>1. i \in 0 .. j - 1 /\ i + 1 \in 1 .. j
      BY <1>2, <2>2
    <3>2. r[i + 1] = q[i + 1]
      BY <1>3, <3>1
    <3> QED BY <3>1, <3>2 DEF WaysUpto
  <2> QED BY <2>1, <2>2
<1> QED BY <1>3, <1>4 DEF WaysUpto, T, X, r, w

\* All ways up to each place cost as much at least.
AllUpto(a, q, ps, j) ==
  /\ a \in Seq(SUBSET Seq(SymbolsOf(ps))) /\ Len(a) = j + 1
  /\ \A i \in 1 .. j + 1 : \A s \in a[i] : q[i].cost <= Price(s)

WaysTo(a, ends) == UNION {{Append(s, e.x) : s \in a[e.from]} : e \in ends}

\* Every parse of the file is among those the table is compared with.
LEMMA AllStart ==
  ASSUME NEW ps, LengthsTyped
  PROVE  AllUpto(<<{<<>>}>>, <<Beginning>>, ps, 0)
<1> DEFINE X == SymbolsOf(ps)
           e == <<>>
           S == {e}
           a == <<S>>
           T == SUBSET Seq(X)
           q == <<Beginning>>
<1>1. e \in Seq(X)
  OBVIOUS
<1>2. S \in T
  BY <1>1
<1>3. Price(e) = 0
  BY <1>1, PriceType
<1>4. q[1].cost = 0
  BY DEF Beginning
<1>5. \A s \in S : Price(s) = 0
  BY <1>3
<1> HIDE DEF S, T, q
<1>6. a \in Seq(T) /\ Len(a) = 0 + 1 /\ a[1] = S
  BY <1>2
<1> HIDE DEF a
<1>7. \A i \in 1 .. 0 + 1 : \A s \in a[i] : q[i].cost <= Price(s)
  <2>1. \A i \in 1 .. 0 + 1 : i = 1
    OBVIOUS
  <2> QED BY <1>4, <1>5, <1>6, <2>1
<1> QED BY <1>6, <1>7 DEF AllUpto, T, X, a, S, q

LEMMA AllNext ==
  ASSUME NEW ps \in Seq(Strings), NEW d \in Seq(Literals), NEW j \in 1 .. Len(d), LengthsTyped,
         NEW q, WaysUpto(q, d, ps, j - 1), NEW a, AllUpto(a, q, ps, j - 1)
  PROVE  AllUpto(Append(a, WaysTo(a, Ending(d, ps, j))),
                 Append(q, Cheapest(q, Ending(d, ps, j))), ps, j)
<1> DEFINE ends == Ending(d, ps, j)
           w == Cheapest(q, ends)
           X == SymbolsOf(ps)
           T == [ids : Seq(X), cost : Nat]
           S == SUBSET Seq(X)
           every == WaysTo(a, ends)
           r == Append(q, w)
           b == Append(a, every)
<1>1. w \in T /\ \A e \in ends : w.cost <= q[e.from].cost + Bits(e.x)
  BY CheapestWay
<1>2. \A e \in ends : e.x \in X /\ e.from \in 1 .. j
  BY EndingOf
<1> HIDE DEF ends, w, T, S
<1>3. j \in Nat \ {0} /\ q \in Seq(T) /\ Len(q) = j /\ a \in Seq(S) /\ Len(a) = j
      /\ \A i \in 1 .. j : \A s \in a[i] : q[i].cost <= Price(s)
  <2>1. j \in Nat \ {0}
    OBVIOUS
  <2>2. j - 1 + 1 = j
    BY <2>1
  <2>3. q \in Seq(T) /\ Len(q) = j - 1 + 1
    BY DEF WaysUpto, T
  <2>4. a \in Seq(S) /\ Len(a) = j - 1 + 1
        /\ \A i \in 1 .. j - 1 + 1 : \A s \in a[i] : q[i].cost <= Price(s)
    BY DEF AllUpto, S
  <2> QED BY <2>1, <2>2, <2>3, <2>4
<1>4. ASSUME NEW e \in ends, NEW t \in a[e.from]
      PROVE  Append(t, e.x) \in Seq(X) /\ w.cost <= Price(Append(t, e.x))
  <2> DEFINE i == e.from
  <2>1. i \in 1 .. j /\ e.x \in X
    BY <1>2
  <2> HIDE DEF i
  <2>2. a[i] \in S /\ q[i] \in T
    BY <1>3, <2>1
  <2>3. t \in Seq(X) /\ q[i].cost \in Nat
    BY <2>2 DEF S, T, i
  <2> HIDE DEF X
  <2>4. Append(t, e.x) \in Seq(X) /\ Price(Append(t, e.x)) = Price(t) + Bits(e.x)
    BY <2>1, <2>3, PriceAppend
  <2>5. Price(t) \in Nat /\ Bits(e.x) \in Nat /\ w.cost \in Nat
    BY <1>1, <2>3, PriceType, BitsType DEF T
  <2>6. q[i].cost <= Price(t) /\ w.cost <= q[i].cost + Bits(e.x)
    BY <1>1, <1>3, <2>1 DEF i
  <2>7. w.cost <= Price(t) + Bits(e.x)
    <3> DEFINE u == q[i].cost
               v == Price(t)
               x == Bits(e.x)
               y == w.cost
    <3>1. u \in Nat /\ v \in Nat /\ x \in Nat /\ y \in Nat /\ u <= v /\ y <= u + x
      BY <2>3, <2>5, <2>6
    <3> HIDE DEF u, v, x, y
    <3>2. y <= v + x
      BY <3>1
    <3> QED BY <3>2 DEF v, x, y
  <2> QED BY <2>4, <2>7
<1>5. every \in S /\ \A s \in every : w.cost <= Price(s)
  <2>1. \A s \in every : \E e \in ends : \E t \in a[e.from] : s = Append(t, e.x)
    BY DEF WaysTo
  <2> HIDE DEF every, X
  <2>2. \A s \in every : s \in Seq(X) /\ w.cost <= Price(s)
    BY <1>4, <2>1
  <2> QED BY <2>2 DEF S
<1> HIDE DEF every
<1>6. r[j + 1] = w /\ \A i \in 1 .. j : r[i] = q[i]
  BY <1>1, <1>3
<1>7. b \in Seq(S) /\ Len(b) = j + 1 /\ b[j + 1] = every /\ \A i \in 1 .. j : b[i] = a[i]
  BY <1>3, <1>5
<1> HIDE DEF r, b
<1>8. ASSUME NEW i \in 1 .. j + 1, NEW s \in b[i] PROVE r[i].cost <= Price(s)
  <2>1. CASE i = j + 1
    BY <1>5, <1>6, <1>7, <2>1
  <2>2. CASE i # j + 1
    <3>1. i \in 1 .. j
      BY <1>3, <2>2
    <3> QED BY <1>3, <1>6, <1>7, <3>1
  <2> QED BY <2>1, <2>2
<1> QED BY <1>7, <1>8 DEF AllUpto, S, X, b, r, every, w, ends

\* The optimal parse writes the file, and nothing writes it in fewer bits.
LEMMA ParseSound ==
  ASSUME NEW ps \in Seq(Strings), NEW d \in Seq(Literals), LengthsTyped
  PROVE  /\ Parse(d, ps) \in Seq(SymbolsOf(ps)) /\ Expand(Parse(d, ps), ps) = d
         /\ \A s \in Parses(d, ps) : Price(Parse(d, ps)) <= Price(s)
<1> DEFINE n == Len(d)
           list == [j \in DOMAIN d |-> j]
           c == <<d, ps>>
           base == <<Beginning>>
           ways == <<{<<>>}>>
           T == [ids : Seq(SymbolsOf(ps)), cost : Nat]
<1>1. n \in Nat /\ Len(list) = n /\ DOMAIN list = 1 .. n /\ \A j \in 1 .. n : list[j] = j
  <2>1. n \in Nat /\ DOMAIN d = 1 .. n
    OBVIOUS
  <2> HIDE DEF n
  <2>2. list = [j \in 1 .. n |-> j]
    BY <2>1
  <2> HIDE DEF list
  <2>3. list \in Seq(Nat) /\ Len(list) = n
    BY <2>1, <2>2
  <2> QED BY <2>1, <2>2, <2>3
<1> HIDE DEF list, base, ways
<1>2. PICK f : Parsing!Unrolls(c, base, list, f) /\ Parsing!Fold(c, base, list) = f[n]
  <2>1. Len(list) \in Nat /\ DOMAIN list = 1 .. Len(list)
    BY <1>1
  <2> HIDE DEF c
  <2>2. \E f : Parsing!Unrolls(c, base, list, f) /\ Parsing!Fold(c, base, list) = f[Len(list)]
    BY <2>1, Parsing!Unrolled
  <2> QED BY <1>1, <2>2
<1>3. PICK g : Listing!Unrolls(c, ways, list, g) /\ Listing!Fold(c, ways, list) = g[n]
  <2>1. Len(list) \in Nat /\ DOMAIN list = 1 .. Len(list)
    BY <1>1
  <2> HIDE DEF c
  <2>2. \E g : Listing!Unrolls(c, ways, list, g) /\ Listing!Fold(c, ways, list) = g[Len(list)]
    BY <2>1, Listing!Unrolled
  <2> QED BY <1>1, <2>2
<1>4. Parse(d, ps) = f[n][n + 1].ids /\ Parses(d, ps) = g[n][n + 1]
  BY <1>2, <1>3, ParseFold, ParsesFold DEF list, base, ways
<1> DEFINE Holds(j) == WaysUpto(f[j], d, ps, j) /\ AllUpto(g[j], f[j], ps, j)
           G == {j \in Nat : j <= n => Holds(j)}
<1>5. Holds(0)
  <2>1. f[0] = base /\ g[0] = ways
    BY <1>2, <1>3 DEF Parsing!Unrolls, Listing!Unrolls
  <2> QED BY <2>1, WaysStart, AllStart DEF base, ways
<1>6. ASSUME NEW j \in 1 .. n, Holds(j - 1) PROVE Holds(j)
  <2>1. f[j] = Append(f[j - 1], Cheapest(f[j - 1], Ending(d, ps, j)))
    <3>1. f[j] = ParseStep(c, f[j - 1], list[j])
      BY <1>1, <1>2 DEF Parsing!Unrolls
    <3>2. list[j] = j
      BY <1>1
    <3> QED BY <3>1, <3>2 DEF ParseStep
  <2>2. g[j] = Append(g[j - 1], WaysTo(g[j - 1], Ending(d, ps, j)))
    <3>1. g[j] = AllStep(c, g[j - 1], list[j])
      BY <1>1, <1>3 DEF Listing!Unrolls
    <3>2. list[j] = j
      BY <1>1
    <3> QED BY <3>1, <3>2 DEF AllStep, WaysTo
  <2> DEFINE q == f[j - 1]
             a == g[j - 1]
  <2>3. WaysUpto(q, d, ps, j - 1) /\ AllUpto(a, q, ps, j - 1)
    BY <1>6
  <2> HIDE DEF q, a
  <2>4. WaysUpto(Append(q, Cheapest(q, Ending(d, ps, j))), d, ps, j)
    BY <2>3, WaysStep
  <2>5. AllUpto(Append(a, WaysTo(a, Ending(d, ps, j))),
                Append(q, Cheapest(q, Ending(d, ps, j))), ps, j)
    BY <2>3, AllNext
  <2> QED BY <2>1, <2>2, <2>4, <2>5 DEF q, a
<1> HIDE DEF Holds, n
<1>7. 0 \in G
  BY <1>5
<1>8. ASSUME NEW i \in Nat, i \in G PROVE i + 1 \in G
  <2> SUFFICES ASSUME i + 1 <= n PROVE Holds(i + 1)
    OBVIOUS
  <2> DEFINE j == i + 1
  <2>1. j \in 1 .. n /\ j - 1 = i /\ i <= n
    BY <1>1
  <2> HIDE DEF j
  <2>2. Holds(j)
    BY <1>6, <1>8, <2>1
  <2> QED BY <2>2 DEF j
<1>9. Holds(n)
  <2>1. Nat \subseteq G
    <3> HIDE DEF G
    <3> QED BY <1>7, <1>8, Induction
  <2> QED BY <1>1, <2>1
<1> DEFINE q == f[n]
           a == g[n]
           m == n + 1
           w == q[m]
<1>10. WaysUpto(q, d, ps, n) /\ AllUpto(a, q, ps, n)
  BY <1>9 DEF Holds
<1>11. m \in 1 .. n + 1 /\ n \in 0 .. n
  BY <1>1
<1> HIDE DEF q, a
<1>12. Expand(w.ids, ps) = SubSeq(d, 1, n) /\ w.cost = Price(w.ids)
  BY <1>10, <1>11 DEF WaysUpto
<1>13. w.ids \in Seq(SymbolsOf(ps))
  <2>1. q \in Seq(T) /\ Len(q) = n + 1
    BY <1>10 DEF WaysUpto
  <2> HIDE DEF m, T
  <2>2. w \in T
    BY <1>11, <2>1
  <2> QED BY <2>2 DEF T
<1>14. \A s \in a[m] : w.cost <= Price(s)
  <2> HIDE DEF m
  <2> QED BY <1>10, <1>11 DEF AllUpto
<1>15. SubSeq(d, 1, n) = d
  BY SubSeqFull DEF n
<1>16. Parse(d, ps) = w.ids /\ Parses(d, ps) = a[m]
  BY <1>4 DEF q, a
<1> HIDE DEF w, m
<1> QED BY <1>12, <1>13, <1>14, <1>15, <1>16

(***************************************************************************)
(* Code lengths                                                            *)
(***************************************************************************)
Packages == [w : Nat, of : Seq(Nat)]

\* The symbols counted, by frequency.
Counted(f) == f \in [DOMAIN f -> Nat] /\ IsFiniteSet(DOMAIN f) /\ DOMAIN f \subseteq Nat

WeightBefore(f, a, b) == f[a] < f[b] \/ (f[a] = f[b] /\ a < b)

ByWeight == INSTANCE RecursionLemmas WITH Step <- WeightBefore

\* Symbols are sorted by frequency, then by number.
LEMMA WeightOrder ==
  ASSUME NEW S, IsFiniteSet(S), S \subseteq Nat, NEW f, \A x \in S : f[x] \in Nat
  PROVE  Enumerates(ByWeight!Ordered(f, S), S)
<1>1. ByWeight!IsFiniteSet(S)
  BY DEF IsFiniteSet, ByWeight!IsFiniteSet
<1>2. ByWeight!Cardinality(S) = Cardinality(S)
  BY DEF Cardinality, ByWeight!Cardinality
<1>3. \A x \in S : x \in Nat /\ f[x] \in Nat
  OBVIOUS
<1>4. ByWeight!Orders(f, S)
  <2>1. \A x \in S : ~ WeightBefore(f, x, x)
    BY <1>3 DEF WeightBefore
  <2>2. \A x, y, z \in S : WeightBefore(f, x, y) /\ WeightBefore(f, y, z) => WeightBefore(f, x, z)
    BY <1>3 DEF WeightBefore
  <2>3. \A x, y \in S : x # y => WeightBefore(f, x, y) \/ WeightBefore(f, y, x)
    BY <1>3 DEF WeightBefore
  <2> QED BY <2>1, <2>2, <2>3 DEF ByWeight!Orders
<1>5. ByWeight!Enumerates(ByWeight!Ordered(f, S), S)
  BY <1>1, <1>4, ByWeight!Enumerated
<1> QED BY <1>2, <1>5 DEF Enumerates, ByWeight!Enumerates

PackageBefore(s, i, j) == s[i].w < s[j].w \/ (s[i].w = s[j].w /\ i < j)

ByPackage == INSTANCE RecursionLemmas WITH Step <- PackageBefore

\* Packages are sorted by weight, then by place.
LEMMA PackageOrder ==
  ASSUME NEW S, IsFiniteSet(S), S \subseteq Nat, NEW s, \A i \in S : s[i].w \in Nat
  PROVE  Enumerates(ByPackage!Ordered(s, S), S)
<1>1. ByPackage!IsFiniteSet(S)
  BY DEF IsFiniteSet, ByPackage!IsFiniteSet
<1>2. ByPackage!Cardinality(S) = Cardinality(S)
  BY DEF Cardinality, ByPackage!Cardinality
<1>3. \A x \in S : x \in Nat /\ s[x].w \in Nat
  OBVIOUS
<1>4. ByPackage!Orders(s, S)
  <2>1. \A x \in S : ~ PackageBefore(s, x, x)
    BY <1>3 DEF PackageBefore
  <2>2. \A x, y, z \in S : PackageBefore(s, x, y) /\ PackageBefore(s, y, z) => PackageBefore(s, x, z)
    BY <1>3 DEF PackageBefore
  <2>3. ASSUME NEW x \in S, NEW y \in S, x # y
        PROVE  PackageBefore(s, x, y) \/ PackageBefore(s, y, x)
    <3> DEFINE a == s[x].w
               b == s[y].w
    <3>1. x \in Nat /\ y \in Nat /\ a \in Nat /\ b \in Nat
      BY <1>3
    <3> HIDE DEF a, b
    <3>2. a < b \/ b < a \/ (a = b /\ (x < y \/ y < x))
      BY <2>3, <3>1
    <3> QED BY <3>2 DEF PackageBefore, a, b
  <2> QED BY <2>1, <2>2, <2>3 DEF ByPackage!Orders
<1>5. ByPackage!Enumerates(ByPackage!Ordered(s, S), S)
  BY <1>1, <1>4, ByPackage!Enumerated
<1> QED BY <1>2, <1>5 DEF Enumerates, ByPackage!Enumerates

\* Leaves, joined pairs, merged lists: all made of packages.
LEMMA LeavesType ==
  ASSUME Counted(weight)
  PROVE  Leaves \in Seq(Packages)
<1> DEFINE W == DOMAIN weight
           order == ByWeight!Ordered(weight, W)
           l == Len(order)
           leaf(k) == [w |-> weight[order[k]], of |-> <<order[k]>>]
           s == [k \in DOMAIN order |-> leaf(k)]
<1>1. Leaves = s
  BY DEF Leaves, Sorted, ByWeight!Ordered, WeightBefore, Cardinality, ByWeight!Cardinality
<1>2. IsFiniteSet(W) /\ W \subseteq Nat /\ \A x \in W : weight[x] \in Nat
  BY DEF Counted
<1> HIDE DEF W
<1>3. Enumerates(order, W)
  BY <1>2, WeightOrder
<1> HIDE DEF order
<1>4. DOMAIN order = 1 .. l /\ l \in Nat /\ order \in Seq(W)
  BY <1>2, <1>3, EnumeratesSeq
<1>5. ASSUME NEW k \in 1 .. l PROVE leaf(k) \in Packages
  <2> DEFINE x == order[k]
  <2>1. x \in W
    BY <1>4
  <2> HIDE DEF x
  <2>2. x \in Nat /\ weight[x] \in Nat
    BY <1>2, <2>1
  <2>3. <<x>> \in Seq(Nat)
    BY <2>2
  <2> QED BY <2>2, <2>3 DEF Packages, x
<1>6. s = [k \in 1 .. l |-> s[k]] /\ \A k \in 1 .. l : s[k] = leaf(k)
  <2> HIDE DEF l, leaf
  <2> QED BY <1>4
<1> HIDE DEF s, leaf, l
<1>7. s \in Seq(Packages)
  BY <1>4, <1>5, <1>6, MakeSeq
<1> QED BY <1>1, <1>7

LEMMA JoinType ==
  ASSUME NEW a \in Packages, NEW b \in Packages
  PROVE  Join(a, b) \in Packages
<1>1. a.w + b.w \in Nat /\ a.of \in Seq(Nat) /\ b.of \in Seq(Nat)
  BY DEF Packages
<1>2. a.of \o b.of \in Seq(Nat)
  BY <1>1, ConcatProperties
<1> QED BY <1>1, <1>2 DEF Join, Packages

LEMMA PairsType ==
  ASSUME NEW s \in Seq(Packages)
  PROVE  Pairs(s) \in Seq(Packages)
<1> DEFINE n == Len(s)
           m == n \div 2
           pair(i) == Join(s[2 * i - 1], s[2 * i])
           p == [i \in 1 .. m |-> pair(i)]
<1>1. n \in Nat /\ \A i \in 1 .. n : s[i] \in Packages
  OBVIOUS
<1>2. Pairs(s) = p
  BY DEF Pairs
<1> HIDE DEF n
<1>3. m \in Nat /\ \A i \in 1 .. m : 2 * i - 1 \in 1 .. n /\ 2 * i \in 1 .. n
  BY <1>1
<1>4. \A i \in 1 .. m : pair(i) \in Packages
  BY <1>1, <1>3, JoinType
<1> HIDE DEF pair, m
<1>5. p = [i \in 1 .. m |-> p[i]] /\ \A i \in 1 .. m : p[i] = pair(i)
  OBVIOUS
<1> HIDE DEF p
<1> QED BY <1>2, <1>3, <1>4, <1>5, MakeSeq

LEMMA MergeType ==
  ASSUME NEW leaves \in Seq(Packages), NEW packages \in Seq(Packages)
  PROVE  Merge(leaves, packages) \in Seq(Packages)
<1> DEFINE both == leaves \o packages
           n == Len(both)
           D == DOMAIN both
           order == ByPackage!Ordered(both, D)
           l == Len(order)
           s == [k \in DOMAIN order |-> both[order[k]]]
<1>1. Merge(leaves, packages) = s
  BY DEF Merge, Sorted, ByPackage!Ordered, PackageBefore, Cardinality, ByPackage!Cardinality
<1>2. both \in Seq(Packages)
  BY ConcatProperties
<1> HIDE DEF both
<1>3. n \in Nat /\ D = 1 .. n /\ \A i \in D : both[i] \in Packages
  BY <1>2
<1>4. IsFiniteSet(D) /\ D \subseteq Nat /\ \A i \in D : both[i].w \in Nat
  <2>1. IsFiniteSet(D)
    BY <1>3, FiniteUpto
  <2>2. \A i \in D : i \in Nat
    BY <1>3
  <2>3. \A i \in D : both[i].w \in Nat
    BY <1>3 DEF Packages
  <2> QED BY <2>1, <2>2, <2>3
<1> HIDE DEF D
<1>5. Enumerates(order, D)
  BY <1>4, PackageOrder
<1> HIDE DEF order
<1>6. DOMAIN order = 1 .. l /\ l \in Nat /\ order \in Seq(D)
  BY <1>4, <1>5, EnumeratesSeq
<1>7. \A k \in 1 .. l : both[order[k]] \in Packages
  <2>1. \A k \in 1 .. l : order[k] \in D
    BY <1>6
  <2> QED BY <1>3, <2>1
<1> HIDE DEF l
<1>8. s = [k \in 1 .. l |-> s[k]] /\ \A k \in 1 .. l : s[k] = both[order[k]]
  BY <1>6
<1> HIDE DEF s
<1> QED BY ZenonT(60), <1>1, <1>6, <1>7, <1>8, MakeSeq

\* The lengths counted from packages are numbers.
LEMMA CountsType ==
  ASSUME NEW s \in Seq(Packages)
  PROVE  Counts(s) \in [DOMAIN weight -> Nat]
<1> DEFINE places(x, k) == {i \in DOMAIN s[k].of : s[k].of[i] = x}
           spots(x) == UNION {{k} \X places(x, k) : k \in DOMAIN s}
<1>1. Len(s) \in Nat /\ DOMAIN s = 1 .. Len(s) /\ \A k \in DOMAIN s : s[k] \in Packages
  OBVIOUS
<1>2. ASSUME NEW x, NEW k \in DOMAIN s PROVE IsFiniteSet({k} \X places(x, k))
  <2> DEFINE q == s[k].of
             n == Len(q)
  <2>1. q \in Seq(Nat)
    BY <1>1 DEF Packages
  <2>2. n \in Nat /\ DOMAIN q = 1 .. n
    BY <2>1
  <2> HIDE DEF n
  <2>3. IsFiniteSet(1 .. n)
    BY <2>2, FiniteUpto
  <2>4. places(x, k) \subseteq 1 .. n
    BY <2>2
  <2> HIDE DEF places
  <2>5. IsFiniteSet(places(x, k))
    BY <2>3, <2>4, CountType
  <2>6. IsFiniteSet({k})
    BY FS_Singleton
  <2> QED BY <2>5, <2>6, FS_Product
<1>3. ASSUME NEW x PROVE Cardinality(spots(x)) \in Nat
  <2> DEFINE f == [k \in DOMAIN s |-> {k} \X places(x, k)]
             F == {f[k] : k \in DOMAIN s}
  <2>1. spots(x) = UNION F
    <3> HIDE DEF places
    <3>1. F = {{k} \X places(x, k) : k \in DOMAIN s}
      OBVIOUS
    <3> HIDE DEF F
    <3> QED BY <3>1
  <2>2. IsFiniteSet(DOMAIN s)
    BY <1>1, FiniteUpto
  <2>3. DOMAIN f = DOMAIN s /\ \A k \in DOMAIN s : IsFiniteSet(f[k])
    BY <1>2
  <2> HIDE DEF f
  <2>4. IsFiniteSet(F) /\ \A t \in F : IsFiniteSet(t)
    BY <2>2, <2>3, Mapped
  <2> HIDE DEF F, spots
  <2>5. IsFiniteSet(UNION F)
    BY <2>4, FS_UNION
  <2> QED BY <2>1, <2>5, FS_CardinalityType
<1>4. Counts(s) = [x \in DOMAIN weight |-> Cardinality(spots(x))]
  BY DEF Counts
<1> HIDE DEF spots
<1> QED BY <1>3, <1>4

LEMMA AtLeastOneType ==
  ASSUME NEW D, NEW f \in [D -> Nat]
  PROVE  AtLeastOne(f) \in [D -> Nat]
BY DEF AtLeastOne

(***************************************************************************)
(* The inductive invariant                                                 *)
(***************************************************************************)

\* The dictionary is listed and the text, in its symbols, is the file.
InStep == Listed(entries) /\ ids \in Seq(SymbolsOf(entries)) /\ Expand(ids, entries) = data

\* The numbers the lengths are made of.
LengthsInv ==
  /\ loop = "lengths" => /\ Counted(weight) /\ level \in Seq(Packages)
                         /\ length \in [DOMAIN weight -> Nat]
  /\ loop = "codes" => LengthsTyped

Searched ==
  /\ loop \in {"select", "grow"} <=> pass = "search"
  /\ data \in Seq(Literals)
  /\ loop # "select" => InStep
  /\ pass = "final" => AllUsed(ids, entries)
  /\ LengthsInv

SearchInv ==
  /\ pass \in {"none", "search", "tune", "final"}
  /\ pass = "none" => loop \notin {"select", "grow", "count"}
  /\ pass # "none" => Searched

\* SearchInv holds when a file is handed over.
LEMMA InitInv == SearchInit => SearchInv
<1> SUFFICES ASSUME SearchInit PROVE SearchInv
  OBVIOUS
<1>1. CASE CoderInit /\ pass = "none"
  BY <1>1 DEF CoderInit, SearchInv
<1>2. CASE Entered("select", Limits \ {2}) /\ data \in Texts /\ pass = "search"
  <2>1. loop = "select" /\ data \in Seq(Literals)
    BY <1>2, SearchBounds DEF Entered
  <2> QED BY <1>2, <2>1 DEF SearchInv, Searched, LengthsInv
<1> QED BY <1>1, <1>2 DEF SearchInit

\* Each step of the search keeps it.
LEMMA SelectInv == SearchInv /\ Select => SearchInv'
<1> SUFFICES ASSUME SearchInv, Select PROVE SearchInv'
  OBVIOUS
<1>1. /\ loop = "select" /\ loop' = "grow" /\ pass' = pass /\ data' = data
      /\ entries' = Candidates(data) /\ ids' = Greedy(data, entries')
  BY DEF Select
<1>2. pass = "search" /\ data \in Seq(Literals)
  BY <1>1 DEF SearchInv, Searched
<1>3. Listed(entries')
  BY <1>1, <1>2, CandidatesListed
<1>4. ids' \in Seq(SymbolsOf(entries')) /\ Expand(ids', entries') = data'
  BY <1>1, <1>2, <1>3, GreedyParses DEF Listed
<1> QED BY <1>1, <1>2, <1>3, <1>4 DEF SearchInv, Searched, InStep, LengthsInv

LEMMA GrowInv == SearchInv /\ Grow => SearchInv'
<1> SUFFICES ASSUME SearchInv, Grow PROVE SearchInv'
  OBVIOUS
<1> DEFINE offers == Accepted(ids, entries)
           chosen == Chosen(entries, offers)
           dict == Extended(entries, offers)
<1>1. /\ loop = "grow" /\ loop' = "grow" /\ pass' = pass /\ data' = data
      /\ entries' = dict /\ ids' = Replaced(ids, chosen)
  BY DEF Grow
<1>2. pass = "search" /\ data \in Seq(Literals) /\ Listed(entries)
      /\ ids \in Seq(SymbolsOf(entries)) /\ Expand(ids, entries) = data
  BY <1>1 DEF SearchInv, Searched, InStep
<1>3. entries \in Seq(Strings)
  BY <1>2 DEF Listed
<1>4. offers \in Seq(OffersOf(entries))
  BY <1>2, <1>3, AcceptedOffers
<1> HIDE DEF offers
<1>5. Listed(dict) /\ Begins(entries, dict)
  BY <1>2, <1>3, <1>4, ExtendedListed
<1>6. Blocks(chosen, dict)
  BY <1>2, <1>4, ChosenBlocks
<1> HIDE DEF dict, chosen
<1>7. dict \in Seq(Strings)
  BY <1>5 DEF Listed
<1>8. ids \in Seq(SymbolsOf(dict)) /\ Expand(ids, dict) = data
  <2>1. SymbolsOf(entries) \subseteq SymbolsOf(dict) /\ Expand(ids, dict) = Expand(ids, entries)
    BY <1>2, <1>3, <1>5, <1>7, ExpandGrown DEF Begins
  <2> DEFINE X == SymbolsOf(entries)
             Y == SymbolsOf(dict)
  <2>2. X \subseteq Y /\ ids \in Seq(X)
    BY <1>2, <2>1
  <2> HIDE DEF X, Y
  <2>3. ids \in Seq(Y)
    <3> DEFINE n == Len(ids)
    <3>1. n \in Nat /\ ids \in [1 .. n -> X]
      BY <2>2
    <3>2. ids \in [1 .. n -> Y]
      BY <2>2, <3>1
    <3> HIDE DEF n
    <3> QED BY <3>1, <3>2
  <2> QED BY <1>2, <2>1, <2>3 DEF Y
<1>9. Replaced(ids, chosen) \in Seq(SymbolsOf(dict)) /\ Expand(Replaced(ids, chosen), dict) = data
  BY <1>6, <1>7, <1>8, ReplacedSpells
<1>10. InStep'
  BY <1>1, <1>5, <1>9 DEF InStep
<1> QED BY <1>1, <1>2, <1>10 DEF SearchInv, Searched, LengthsInv

\* Both audits.
LEMMA AuditInv ==
  ASSUME SearchInv, pass # "none", loop # "select", NEW a, a = Audited(ids, entries),
         ids' = a.ids, entries' = a.entries, data' = data
  PROVE  InStep' /\ AllUsed(ids, entries)'
<1>1. Listed(entries) /\ ids \in Seq(SymbolsOf(entries)) /\ Expand(ids, entries) = data
  BY DEF SearchInv, Searched, InStep
<1>2. /\ Listed(a.entries) /\ a.ids \in Seq(SymbolsOf(a.entries))
      /\ Expand(a.ids, a.entries) = Expand(ids, entries) /\ AllUsed(a.ids, a.entries)
  BY <1>1, AuditedSound
<1> QED BY <1>1, <1>2 DEF InStep

LEMMA GrownInv == SearchInv /\ Grown => SearchInv'
<1> SUFFICES ASSUME SearchInv, Grown PROVE SearchInv'
  OBVIOUS
<1>1. /\ loop = "grow" /\ loop' = "count" /\ data' = data /\ pass' \in {"tune", "final"}
      /\ LET a == Audited(ids, entries) IN ids' = a.ids /\ entries' = a.entries
  BY DEF Grown
<1>2. pass = "search" /\ data \in Seq(Literals)
  BY <1>1 DEF SearchInv, Searched
<1>3. InStep' /\ AllUsed(ids, entries)'
  BY <1>1, <1>2, AuditInv
<1> QED BY <1>1, <1>2, <1>3 DEF SearchInv, Searched, LengthsInv

LEMMA FinalAuditInv == SearchInv /\ FinalAudit => SearchInv'
<1> SUFFICES ASSUME SearchInv, FinalAudit PROVE SearchInv'
  OBVIOUS
<1>1. /\ loop = "codes" /\ loop' = "count" /\ data' = data /\ pass = "tune" /\ pass' = "final"
      /\ LET a == Audited(ids, entries) IN ids' = a.ids /\ entries' = a.entries
  BY DEF FinalAudit
<1>2. data \in Seq(Literals)
  BY <1>1 DEF SearchInv, Searched
<1>3. InStep' /\ AllUsed(ids, entries)'
  BY <1>1, AuditInv
<1> QED BY <1>1, <1>2, <1>3 DEF SearchInv, Searched, LengthsInv

LEMMA ParseInv ==
  SearchInv /\ ParseRound =>
    SearchInv' /\ \A s \in Parses(data, entries) : Price(ids') <= Price(s)
<1> SUFFICES ASSUME SearchInv, ParseRound
             PROVE  SearchInv' /\ \A s \in Parses(data, entries) : Price(ids') <= Price(s)
  OBVIOUS
<1>1. /\ loop = "codes" /\ loop' = "count" /\ data' = data /\ pass = "tune" /\ pass' = "tune"
      /\ entries' = entries /\ ids' = Parse(data, entries)
  BY DEF ParseRound
<1>2. data \in Seq(Literals) /\ LengthsTyped /\ Listed(entries)
  BY <1>1 DEF SearchInv, Searched, LengthsInv, InStep
<1>3. entries \in Seq(Strings)
  BY <1>2 DEF Listed
<1> DEFINE p == Parse(data, entries)
<1>4. /\ p \in Seq(SymbolsOf(entries)) /\ Expand(p, entries) = data
      /\ \A s \in Parses(data, entries) : Price(p) <= Price(s)
  BY <1>2, <1>3, ParseSound
<1> HIDE DEF p
<1>5. ids' = p
  BY <1>1 DEF p
<1>6. InStep'
  BY <1>1, <1>2, <1>4, <1>5 DEF InStep
<1>7. SearchInv'
  BY <1>1, <1>2, <1>6 DEF SearchInv, Searched, LengthsInv
<1>8. \A s \in Parses(data, entries) : Price(ids') <= Price(s)
  BY <1>4, <1>5
<1> QED BY <1>7, <1>8

LEMMA CountInv == SearchInv /\ CountIds => SearchInv'
<1> SUFFICES ASSUME SearchInv, CountIds PROVE SearchInv'
  OBVIOUS
<1>1. /\ loop = "count" /\ loop' = "lengths" /\ data' = data /\ pass' = pass
      /\ entries' = entries /\ ids' = ids
      /\ weight' = [x \in {ids[i] : i \in DOMAIN ids} |-> Tally(ids, x)]
      /\ length' = [x \in DOMAIN weight' |-> 0]
      /\ level' = IF limit = 0 THEN Leaves' ELSE <<>>
  BY DEF CountIds, search
<1>2. pass # "none" /\ pass # "search" /\ Searched /\ Listed(entries) /\ ids \in Seq(SymbolsOf(entries))
  BY <1>1 DEF SearchInv, Searched, InStep
<1>3. Counted(weight')
  <2> DEFINE X == SymbolsOf(entries)
             W == {ids[i] : i \in DOMAIN ids}
             f == [x \in W |-> Tally(ids, x)]
  <2>1. X \subseteq Nat
    BY <1>2, BytesOf DEF Listed
  <2> HIDE DEF X
  <2>2. ids \in Seq(X)
    BY <1>2 DEF X
  <2>3. Len(ids) \in Nat /\ DOMAIN ids = 1 .. Len(ids) /\ \A i \in DOMAIN ids : ids[i] \in X
    BY <2>2
  <2>4. IsFiniteSet(W)
    BY <2>3, FiniteUpto, Mapped
  <2>5. W \subseteq Nat
    BY <2>1, <2>3
  <2>6. \A x \in W : Tally(ids, x) \in Nat
    BY <2>2, TallyOf
  <2> HIDE DEF W
  <2>7. DOMAIN f = W /\ f \in [W -> Nat]
    BY <2>6
  <2>8. weight' = f
    BY <1>1 DEF W
  <2> HIDE DEF f
  <2> QED BY <2>4, <2>5, <2>7, <2>8 DEF Counted
<1>4. level' \in Seq(Packages)
  <2>1. CASE limit = 0
    <3>1. (Counted(weight) => Leaves \in Seq(Packages))'
      BY LeavesType, PTL
    <3> QED BY <1>1, <1>3, <2>1, <3>1
  <2>2. CASE limit # 0
    BY <1>1, <2>2
  <2> QED BY <2>1, <2>2
<1>5. length' \in [DOMAIN weight' -> Nat]
  BY <1>1
<1> QED BY <1>1, <1>2, <1>3, <1>4, <1>5 DEF SearchInv, Searched, InStep, LengthsInv

\* What the steps of the length loops must leave in order.
LEMMA LengthsKeep ==
  ASSUME SearchInv, loop = "lengths", UNCHANGED search, loop' \in {"lengths", "codes", "refused"},
         pass # "none" => LengthsInv'
  PROVE  SearchInv'
<1>1. data' = data /\ pass' = pass /\ ids' = ids /\ entries' = entries
  BY DEF search
<1> QED BY <1>1 DEF SearchInv, Searched, InStep

\* A step of either loop that computes code lengths.
LEMMA LengthsStep == SearchInv /\ Lengths /\ UNCHANGED search => SearchInv'
<1> SUFFICES ASSUME SearchInv, Lengths, UNCHANGED search PROVE SearchInv'
  BY SMTT(40)
<1>1. loop = "lengths"
  BY ZenonT(60) DEF Lengths, SingleSymbol, TooManySymbols, PackageLevel, CountPackages, TakeTwo, RootReached
<1>2. SUFFICES ASSUME pass # "none"
               PROVE  loop' \in {"lengths", "codes", "refused"} /\ LengthsInv'
  <2>1. loop' \in {"lengths", "codes", "refused"}
    BY ZenonT(60), <1>1 DEF Lengths, SingleSymbol, TooManySymbols, PackageLevel, CountPackages, TakeTwo,
                RootReached
  <2> QED BY <1>1, <1>2, <2>1, LengthsKeep
<1>3. Counted(weight) /\ level \in Seq(Packages) /\ length \in [DOMAIN weight -> Nat]
  BY <1>1, <1>2 DEF SearchInv, Searched, LengthsInv
<1>4. CASE SingleSymbol
  <2>1. loop' = "codes" /\ length' = AtLeastOne(length)
    BY <1>4 DEF SingleSymbol
  <2>2. length' \in [DOMAIN weight -> Nat]
    BY <1>3, <2>1, AtLeastOneType
  <2> QED BY <2>1, <2>2 DEF LengthsInv, LengthsTyped
<1>5. CASE TooManySymbols
  BY <1>5 DEF TooManySymbols, LengthsInv
<1>6. CASE PackageLevel
  <2>1. /\ loop' = "lengths" /\ weight' = weight /\ length' = length
        /\ level' = Merge(Leaves, Pairs(level))
    BY <1>1, <1>6 DEF PackageLevel
  <2>2. Leaves \in Seq(Packages) /\ Pairs(level) \in Seq(Packages)
    BY <1>3, LeavesType, PairsType
  <2>3. level' \in Seq(Packages)
    BY <2>1, <2>2, MergeType
  <2> QED BY <1>3, <2>1, <2>3 DEF LengthsInv
<1>7. CASE CountPackages
  <2> DEFINE n == 2 * Alphabet - 2
             s == Slice(level, n)
  <2>1. loop' = "codes" /\ length' = AtLeastOne(Counts(s)) /\ Alphabet > 1
    BY <1>7 DEF CountPackages
  <2>2. n \in Nat
    <3>1. Alphabet \in Nat
      BY <1>3, FS_CardinalityType DEF Counted, Alphabet
    <3> QED BY <2>1, <3>1
  <2> HIDE DEF n
  <2>3. s \in Seq(Packages)
    BY <1>3, <2>2, SliceOf
  <2> HIDE DEF s
  <2>4. length' \in [DOMAIN weight -> Nat]
    BY <2>1, <2>3, CountsType, AtLeastOneType
  <2> QED BY <2>1, <2>4 DEF LengthsInv, LengthsTyped
<1>8. CASE TakeTwo
  <2> DEFINE node == Join(level[1], level[2])
             m == Len(level)
             rest == SubSeq(level, 3, m)
             n == Len(rest)
             lighter == {k \in DOMAIN rest : rest[k].w <= node.w}
             h == Cardinality(lighter)
             before == SubSeq(rest, 1, h)
             after == SubSeq(rest, h + 1, n)
  <2>1. /\ loop' = "lengths" /\ weight' = weight /\ m > 1
        /\ level' = before \o <<node>> \o after
        /\ length' = [x \in DOMAIN length |-> length[x] + Counts(<<node>>)[x]]
    BY ZenonT(60), <1>1, <1>8 DEF TakeTwo
  <2>2. m \in Nat /\ \A k \in 1 .. m : level[k] \in Packages
    BY <1>3
  <2> HIDE DEF m
  <2>3. node \in Packages
    <3> DEFINE one == 1
               two == 2
               a == level[one]
               b == level[two]
    <3>0. m \in Nat /\ m > 1
      BY ZenonT(60), <2>1, <2>2
    <3>1. one \in 1 .. m /\ two \in 1 .. m
      BY <3>0
    <3> HIDE DEF one, two
    <3>2. a \in Packages /\ b \in Packages
      BY <2>2, <3>1
    <3> HIDE DEF a, b
    <3>3. Join(a, b) \in Packages
      BY <3>2, JoinType
    <3> QED BY SMTT(40), <3>3 DEF a, b, one, two
  <2>4. rest \in Seq(Packages)
    <3> DEFINE three == 3
    <3>1. three \in Int /\ m \in Int /\ \A k \in three .. m : level[k] \in Packages
      BY <2>2
    <3> HIDE DEF three
    <3>2. SubSeq(level, three, m) \in Seq(Packages)
      BY <3>1, SubSeqProperties
    <3> QED BY <3>2 DEF three
  <2> HIDE DEF rest, node
  <2>5. n \in Nat /\ DOMAIN rest = 1 .. n /\ \A k \in 1 .. n : rest[k] \in Packages
    BY <2>4
  <2>6. h \in 0 .. n
    <3> DEFINE one == 1
    <3>1. lighter \subseteq 1 .. n
      BY <2>5
    <3>2. one \in Int /\ n \in Int
      BY <2>5
    <3> HIDE DEF one, n, lighter
    <3>3. IsFiniteSet(one .. n) /\ Cardinality(one .. n) = (IF one > n THEN 0 ELSE n - one + 1)
      BY <3>2, FS_Interval
    <3>4. lighter \in SUBSET (one .. n)
      BY <3>1 DEF one
    <3>5. IsFiniteSet(lighter) /\ Cardinality(lighter) <= Cardinality(one .. n)
      BY <3>3, <3>4, FS_Subset
    <3>6. Cardinality(one .. n) = n
      BY <2>5, <3>3 DEF one
    <3>7. h \in Nat
      BY <3>5, FS_CardinalityType
    <3> HIDE DEF h
    <3>8. h <= n
      BY <3>5, <3>6 DEF h
    <3> QED BY <2>5, <3>7, <3>8
  <2> HIDE DEF lighter, h, n
  <2>7. before \in Seq(Packages)
    <3> DEFINE one == 1
    <3>1. one \in Int /\ h \in Int /\ \A k \in one .. h : rest[k] \in Packages
      BY <2>5, <2>6
    <3> HIDE DEF one
    <3>2. SubSeq(rest, one, h) \in Seq(Packages)
      BY <3>1, SubSeqProperties
    <3> QED BY <3>2 DEF one
  <2>8. after \in Seq(Packages)
    <3> DEFINE g == h + 1
    <3>1. g \in Int /\ n \in Int /\ \A k \in g .. n : rest[k] \in Packages
      BY <2>5, <2>6
    <3> HIDE DEF g
    <3>2. SubSeq(rest, g, n) \in Seq(Packages)
      BY <3>1, SubSeqProperties
    <3> QED BY <3>2 DEF g
  <2> HIDE DEF before, after
  <2>9. <<node>> \in Seq(Packages)
    BY <2>3
  <2>10. level' \in Seq(Packages)
    <3> DEFINE one == <<node>>
    <3>1. one \in Seq(Packages)
      BY <2>9
    <3> HIDE DEF one
    <3>2. before \o one \in Seq(Packages)
      BY <2>7, <3>1, ConcatProperties
    <3> DEFINE two == before \o one
    <3>3. two \in Seq(Packages)
      BY <3>2
    <3> HIDE DEF two
    <3>4. two \o after \in Seq(Packages)
      BY <2>8, <3>3, ConcatProperties
    <3> QED BY <2>1, <3>4 DEF one, two
  <2>11. length' \in [DOMAIN weight -> Nat]
    <3>1. Counts(<<node>>) \in [DOMAIN weight -> Nat]
      BY <2>9, CountsType
    <3> DEFINE c == Counts(<<node>>)
    <3> HIDE DEF c
    <3>2. c \in [DOMAIN weight -> Nat] /\ length' = [x \in DOMAIN length |-> length[x] + c[x]]
      BY <2>1, <3>1 DEF c
    <3> QED BY <1>3, <3>2
  <2> QED BY <1>3, <2>1, <2>10, <2>11 DEF LengthsInv
<1>9. CASE RootReached
  <2>1. loop' = "codes" /\ length' = AtLeastOne(length)
    BY <1>9 DEF RootReached
  <2>2. length' \in [DOMAIN weight -> Nat]
    BY <1>3, <2>1, AtLeastOneType
  <2> QED BY <2>1, <2>2 DEF LengthsInv, LengthsTyped
<1>10. loop' \in {"lengths", "codes", "refused"}
  BY ZenonT(60), <1>1 DEF Lengths, SingleSymbol, TooManySymbols, PackageLevel, CountPackages, TakeTwo,
              RootReached
<1>11. LengthsInv'
  BY <1>4, <1>5, <1>6, <1>7, <1>8, <1>9 DEF Lengths
<1> QED BY <1>10, <1>11

\* Once there are codes the search is over.
Packed == {"pack_dictionary", "pack_text", "read_dictionary", "read_text", "done", "refused",
           "corrupt"}

\* After the search the lengths are all that is left of it.
LEMMA Later ==
  ASSUME SearchInv, loop \notin {"select", "grow"}, loop' \in Packed, UNCHANGED search
  PROVE  SearchInv'
<1>1. data' = data /\ pass' = pass /\ ids' = ids /\ entries' = entries
  BY DEF search
<1> QED BY <1>1 DEF SearchInv, Searched, InStep, LengthsInv, Packed

\* Writing and reading the container never go back to the search.
LEMMA DecodeLater == Decode => loop \in Packed /\ loop' \in Packed
<1>1. PackDictionary => loop \in Packed /\ loop' \in Packed
  BY DEF PackDictionary, Packed
<1>2. Refill => loop \in Packed /\ loop' \in Packed
  BY DEF Refill, Reading, Packed
<1>3. LookUp => loop \in Packed /\ loop' \in Packed
  BY DEF LookUp, Reading, Corrupt, Packed
<1>4. WalkBit => loop \in Packed /\ loop' \in Packed
  BY DEF WalkBit, Reading, Corrupt, Packed
<1>5. WalkTruncated => loop \in Packed /\ loop' \in Packed
  BY DEF WalkTruncated, Reading, Corrupt, Packed
<1>6. DictionaryRead => loop \in Packed /\ loop' \in Packed
  BY DEF DictionaryRead, Packed
<1>7. TextRead => loop \in Packed /\ loop' \in Packed
  BY DEF TextRead, Packed
<1>8. loop \in {"done", "refused", "corrupt"} /\ UNCHANGED machine
        => loop \in Packed /\ loop' \in Packed
  BY DEF machine, Packed
<1> QED BY <1>1, <1>2, <1>3, <1>4, <1>5, <1>6, <1>7, <1>8 DEF Decode

LEMMA EmitLater ==
  ASSUME NEW ps, NEW coded, Emit(ps, coded)
  PROVE  loop = "codes" /\ loop' \in Packed
BY DEF Emit, Packed

LEMMA PackLater ==
  /\ \A x : PackSymbol(x) => loop \in Packed /\ loop' \in Packed
  /\ \A lost : PackEnd(lost) => loop \in Packed /\ loop' \in Packed
BY DEF PackSymbol, PackEnd, Packed

\* Every step keeps SearchInv.
LEMMA StepInv == SearchInv /\ [SearchNext]_all => SearchInv'
<1> SUFFICES ASSUME SearchInv, [SearchNext]_all PROVE SearchInv'
  OBVIOUS
<1>1. CASE Select
  BY <1>1, SelectInv
<1>2. CASE Grow
  BY <1>2, GrowInv
<1>3. CASE Grown
  BY <1>3, GrownInv
<1>4. CASE CountIds
  BY <1>4, CountInv
<1>5. CASE ParseRound
  BY <1>5, ParseInv
<1>6. CASE FinalAudit
  BY <1>6, FinalAuditInv
<1>7. ASSUME NEW coded \in BOOLEAN, EmitFound(coded) PROVE SearchInv'
  <2>1. Emit(entries, coded) /\ UNCHANGED search
    BY <1>7 DEF EmitFound
  <2>2. loop = "codes" /\ loop' \in Packed
    BY <2>1, EmitLater
  <2> QED BY <2>1, <2>2, Later
<1>8. CASE PackNext
  <2>1. PackSymbol(ids[Len(text) + 1]) /\ UNCHANGED search
    BY <1>8 DEF PackNext
  <2>2. loop \in Packed /\ loop' \in Packed
    BY <2>1, PackLater
  <2> QED BY <2>1, <2>2, Later DEF Packed
<1>9. ASSUME NEW lost \in 0 .. MaxCut, PackFound(lost) PROVE SearchInv'
  <2>1. PackEnd(lost) /\ UNCHANGED search
    BY <1>9 DEF PackFound
  <2>2. loop \in Packed /\ loop' \in Packed
    BY <2>1, PackLater
  <2> QED BY <2>1, <2>2, Later DEF Packed
<1>10. CASE Searching
  BY <1>1, <1>2, <1>3, <1>4, <1>5, <1>6, <1>7, <1>8, <1>9, <1>10 DEF Searching
<1>11. CASE Lengths /\ UNCHANGED search
  BY <1>11, LengthsStep
<1>12. CASE Decode /\ UNCHANGED search
  <2>1. loop \in Packed /\ loop' \in Packed
    BY <1>12, DecodeLater
  <2> QED BY <1>12, <2>1, Later DEF Packed
<1>13. CASE Free /\ UNCHANGED search
  <2>1. loop \notin {"select", "grow"} /\ loop' \in Packed
    <3>1. ASSUME NEW ps \in Dictionaries, NEW coded \in BOOLEAN, Emit(ps, coded)
          PROVE  loop \notin {"select", "grow"} /\ loop' \in Packed
      BY <3>1, EmitLater
    <3>2. ASSUME NEW x \in DOMAIN length, PackSymbol(x)
          PROVE  loop \notin {"select", "grow"} /\ loop' \in Packed
      BY <3>2, PackLater DEF Packed
    <3>3. ASSUME NEW lost \in 0 .. MaxCut, PackEnd(lost)
          PROVE  loop \notin {"select", "grow"} /\ loop' \in Packed
      BY <3>3, PackLater DEF Packed
    <3> QED BY <1>13, <3>1, <3>2, <3>3 DEF Free
  <2> QED BY <1>13, <2>1, Later
<1>14. CASE UNCHANGED all
  <2>1. /\ loop' = loop /\ weight' = weight /\ level' = level /\ length' = length
        /\ data' = data /\ pass' = pass /\ ids' = ids /\ entries' = entries
    BY <1>14 DEF all, machine, coder, search
  <2> QED BY <2>1 DEF SearchInv, Searched, InStep, LengthsInv, LengthsTyped
<1> QED BY <1>10, <1>11, <1>12, <1>13, <1>14 DEF SearchNext

(***************************************************************************)
(* The theorems                                                            *)
(***************************************************************************)
\* What the invariant says of the dictionary that is stored.
LEMMA InvTight == SearchInv => DictionaryTight
<1> SUFFICES ASSUME SearchInv PROVE DictionaryTight
  OBVIOUS
<1>1. ASSUME loop # "select", pass # "none"
      PROVE  /\ \A i \in DOMAIN ids : ids[i] \notin Literals => ids[i] <= Id(Len(entries))
             /\ Expand(ids, entries) = data
  <2>1. Listed(entries) /\ ids \in Seq(SymbolsOf(entries)) /\ Expand(ids, entries) = data
    BY <1>1 DEF SearchInv, Searched, InStep
  <2> DEFINE n == Len(entries)
  <2>2. n \in Nat /\ DOMAIN entries = 1 .. n
    BY <2>1 DEF Listed
  <2> HIDE DEF n
  <2>3. ASSUME NEW i \in DOMAIN ids, ids[i] \notin Literals PROVE ids[i] <= Id(n)
    <3>1. ids[i] \in SymbolsOf(entries)
      <4> DEFINE X == SymbolsOf(entries)
      <4>1. ids \in Seq(X)
        BY <2>1
      <4> HIDE DEF X
      <4>2. ids[i] \in X
        BY <4>1
      <4> QED BY <4>2 DEF X
    <3>2. PICK k \in 1 .. n : ids[i] = Id(k)
      BY <2>2, <2>3, <3>1 DEF SymbolsOf
    <3>3. FirstPattern \in Nat
      BY SearchBounds
    <3>4. Id(k) <= Id(n)
      BY <2>2, <3>3 DEF Id
    <3> QED BY <3>2, <3>4
  <2> QED BY <2>1, <2>3 DEF n
<1>2. ASSUME pass = "final"
      PROVE  /\ Len(entries) <= MaxDict
             /\ \A k \in DOMAIN entries :
                  /\ Len(entries[k]) <= LongestEntry /\ Tally(ids, Id(k)) > 0
                  /\ \A j \in DOMAIN entries : entries[j] = entries[k] => j = k
  <2>1. loop # "select" /\ AllUsed(ids, entries)
    BY <1>2 DEF SearchInv, Searched
  <2>2. Listed(entries)
    BY <1>2, <2>1 DEF SearchInv, Searched, InStep
  <2> QED BY <2>1, <2>2 DEF Listed, Distinct, AllUsed
<1> QED BY <1>1, <1>2 DEF DictionaryTight

THEOREM DictionaryIsTight == SearchSpec => []DictionaryTight
<1>1. SearchInit => SearchInv
  BY InitInv
<1>2. SearchInv /\ [SearchNext]_all => SearchInv'
  BY StepInv
<1>3. SearchInv => DictionaryTight
  BY InvTight
<1> QED BY <1>1, <1>2, <1>3, PTL DEF SearchSpec

THEOREM ParseIsBest == SearchSpec => BestParse
<1>1. SearchInit => SearchInv
  BY InitInv
<1>2. SearchInv /\ [SearchNext]_all => SearchInv'
  BY StepInv
<1>3. SearchInv /\ [SearchNext]_all =>
        [ParseRound => \A s \in Parses(data, entries) : Price(ids') <= Price(s)]_all
  BY ParseInv
<1> QED BY <1>1, <1>2, <1>3, PTL DEF SearchSpec, BestParse

(***************************************************************************)
(* All parses                                                              *)
(***************************************************************************)

\* What two sequences in a row have of the file.
LEMMA SplitOf ==
  ASSUME NEW S, NEW d \in Seq(S), NEW j \in 0 .. Len(d), NEW t \in Seq(S), NEW p \in Seq(S),
         t \o p = SubSeq(d, 1, j)
  PROVE  /\ Len(t) \in 0 .. j /\ Len(p) = j - Len(t)
         /\ t = SubSeq(d, 1, Len(t)) /\ p = SubSeq(d, Len(t) + 1, j)
<1> DEFINE n == Len(d)
           m == Len(t)
           l == Len(p)
           one == 1
           q == SubSeq(d, one, j)
<1>1. n \in Nat /\ j \in 0 .. n /\ m \in Nat /\ l \in Nat
      /\ DOMAIN t = 1 .. m /\ DOMAIN p = 1 .. l /\ \A i \in 1 .. n : d[i] \in S
  OBVIOUS
<1>2. one \in Int /\ j \in Int /\ \A i \in one .. j : d[i] \in S
  BY <1>1
<1>3. /\ t \o p \in Seq(S) /\ Len(t \o p) = m + l
      /\ \A i \in 1 .. m + l : (t \o p)[i] = IF i <= m THEN t[i] ELSE p[i - m]
  BY ConcatProperties
<1> HIDE DEF n, m, l
<1>4. Len(q) = IF one <= j THEN j - one + 1 ELSE 0
  <2> HIDE DEF one
  <2> QED BY <1>2, SubSeqProperties
<1>5. \A i \in 1 .. j - one + 1 : q[i] = d[one + i - 1]
  <2> HIDE DEF one
  <2> QED BY <1>2, SubSeqProperties
<1>6. q = t \o p
  OBVIOUS
<1> HIDE DEF q
<1>7. Len(q) = j /\ \A i \in 1 .. j : q[i] = d[i]
  BY <1>1, <1>4, <1>5
<1>8. m + l = j
  BY <1>3, <1>6, <1>7
<1>9. \A i \in 1 .. m : t[i] = d[i]
  BY <1>1, <1>3, <1>6, <1>7, <1>8
<1>10. \A i \in 1 .. l : p[i] = d[m + i]
  <2> SUFFICES ASSUME NEW i \in 1 .. l PROVE p[i] = d[m + i]
    OBVIOUS
  <2>1. m + i \in 1 .. m + l /\ ~ (m + i <= m) /\ (m + i) - m = i /\ m + i \in 1 .. j
    BY <1>1, <1>8
  <2> QED BY <1>3, <1>6, <1>7, <2>1
<1>11. t = SubSeq(d, 1, m)
  <2> DEFINE r == SubSeq(d, one, m)
  <2>1. m \in Int /\ \A i \in one .. m : d[i] \in S
    BY <1>1, <1>8
  <2>2. /\ r \in Seq(S) /\ Len(r) = (IF one <= m THEN m - one + 1 ELSE 0)
        /\ \A i \in 1 .. m - one + 1 : r[i] = d[one + i - 1]
    <3> HIDE DEF one
    <3> QED BY <1>2, <2>1, SubSeqProperties
  <2> HIDE DEF r
  <2>3. Len(r) = m /\ \A i \in 1 .. m : r[i] = t[i]
    BY <1>1, <1>9, <2>2
  <2>4. t = r
    BY <2>2, <2>3, SeqEqual DEF m
  <2> QED BY <2>4 DEF r
<1>12. p = SubSeq(d, m + 1, j)
  <2> DEFINE a == m + 1
             r == SubSeq(d, a, j)
  <2>1. a \in Int /\ \A i \in a .. j : d[i] \in S
    BY <1>1
  <2>2. /\ r \in Seq(S) /\ Len(r) = (IF a <= j THEN j - a + 1 ELSE 0)
        /\ \A i \in 1 .. j - a + 1 : r[i] = d[a + i - 1]
    <3> HIDE DEF a
    <3> QED BY <1>2, <2>1, SubSeqProperties
  <2> HIDE DEF r
  <2>3. Len(r) = l /\ \A i \in 1 .. l : r[i] = p[i]
    <3>1. j - a + 1 = l /\ \A i \in 1 .. l : a + i - 1 = m + i
      BY <1>1, <1>8
    <3>2. Len(r) = l
      BY <1>1, <1>8, <2>2
    <3> HIDE DEF a
    <3> QED BY <1>10, <2>2, <3>1, <3>2
  <2>4. p = r
    BY <2>2, <2>3, SeqEqual DEF l
  <2> QED BY <2>4 DEF r
<1>13. m \in 0 .. j /\ l = j - m
  BY <1>1, <1>8
<1> QED BY ZenonT(60), <1>11, <1>12, <1>13 DEF m, l

\* A symbol that stands for the end of what comes up to a place ends there.
LEMMA EndsHere ==
  ASSUME NEW ps \in Seq(Strings), NEW d \in Seq(Literals), NEW j \in 1 .. Len(d),
         NEW x \in SymbolsOf(ps), NEW m \in 0 .. j,
         Bytes(x, ps) = SubSeq(d, m + 1, j), Len(Bytes(x, ps)) = j - m
  PROVE  [x |-> x, from |-> m + 1] \in Ending(d, ps, j)
<1>0. j \in Nat /\ m \in Nat /\ Len(d) \in Nat /\ j <= Len(d)
  OBVIOUS
<1>1. CASE x \in Literals
  <2>1. Bytes(x, ps) = <<x>>
    BY <1>1 DEF Bytes
  <2>2. Len(<<x>>) = 1 /\ <<x>>[1] = x
    OBVIOUS
  <2>3. j - m = 1
    BY <2>1, <2>2
  <2>4. m + 1 = j
    BY <1>0, <2>3
  <2>5. SubSeq(d, j, j)[1] = d[j]
    <3>1. \A i \in j .. j : d[i] \in Literals
      OBVIOUS
    <3>2. \A i \in 1 .. j - j + 1 : SubSeq(d, j, j)[i] = d[j + i - 1]
      BY <1>0, <3>1, SubSeqProperties
    <3>3. 1 \in 1 .. j - j + 1 /\ j + 1 - 1 = j
      BY <1>0
    <3> QED BY <3>2, <3>3
  <2>6. x = d[j]
    BY <2>1, <2>2, <2>4, <2>5
  <2> QED BY <2>4, <2>6 DEF Ending
<1>2. CASE x \notin Literals
  <2>1. PICK k \in DOMAIN ps : x = Id(k)
    BY <1>2 DEF SymbolsOf
  <2>2. Bytes(x, ps) = ps[k]
    BY <2>1, BytesOf
  <2> DEFINE l == Len(ps[k])
  <2>3. l = j - m
    BY <2>2
  <2> HIDE DEF l
  <2>4. l <= j /\ j - l + 1 = m + 1 /\ m + 1 + l - 1 = j
    BY <1>0, <2>3
  <2>5. At(d, m + 1, ps[k])
    BY <1>0, <2>2, <2>4 DEF At, l
  <2> DEFINE at == j - l + 1
  <2>6. at = m + 1
    BY <2>4
  <2> HIDE DEF at
  <2>7. At(d, at, ps[k])
    BY <2>5, <2>6
  <2>8. [x |-> Id(k), from |-> at] \in Ending(d, ps, j)
    BY <2>4, <2>7 DEF Ending, at, l
  <2> QED BY <2>1, <2>6, <2>8
<1> QED BY <1>1, <1>2

\* Every symbol stands for something.
LEMMA ExpandNone ==
  ASSUME NEW ps \in Seq(Strings), NEW s \in Seq(SymbolsOf(ps)), Expand(s, ps) = <<>>
  PROVE  s = <<>>
<1> DEFINE X == SymbolsOf(ps)
<1> SUFFICES ASSUME s # <<>> PROVE FALSE
  OBVIOUS
<1>1. PICK q \in Seq(X), x \in X : s = Append(q, x)
  <2> HIDE DEF X
  <2>1. s \in Seq(X)
    BY DEF X
  <2> QED BY <2>1, SequenceEmptyOrAppend
<1>2. Expand(s, ps) = Expand(q, ps) \o Bytes(x, ps)
  BY <1>1, ExpandAppend
<1> DEFINE a == Expand(q, ps)
           b == Bytes(x, ps)
<1>3. a \in Seq(Literals) /\ b \in Seq(Literals) /\ b # <<>>
  BY SpelledType, BytesOf DEF Strings
<1> HIDE DEF a, b
<1>4. Len(b) \in Nat \ {0} /\ Len(a) \in Nat /\ Len(a \o b) = Len(a) + Len(b)
  BY <1>3, EmptySeq, ConcatProperties
<1>5. a \o b = <<>>
  BY <1>2 DEF a, b
<1>6. Len(a \o b) = 0
  BY <1>5
<1> QED BY <1>4, <1>6

\* The rows are all ways to write what comes before each place up to j.
RowsTo(a, d, ps, j) ==
  /\ a \in Seq(SUBSET Seq(SymbolsOf(ps))) /\ Len(a) = j + 1
  /\ \A i \in 0 .. j : a[i + 1] = {s \in Seq(SymbolsOf(ps)) : Expand(s, ps) = SubSeq(d, 1, i)}

\* Before the first place there is one way to write: no symbol.
LEMMA RowsStart ==
  ASSUME NEW ps \in Seq(Strings), NEW d
  PROVE  RowsTo(<<{<<>>}>>, d, ps, 0)
<1> DEFINE X == SymbolsOf(ps)
           e == <<>>
           S == {e}
           a == <<S>>
           T == SUBSET Seq(X)
           W == {s \in Seq(X) : Expand(s, ps) = SubSeq(d, 1, 0)}
<1>1. e \in Seq(X)
  OBVIOUS
<1>2. S \in T
  BY <1>1
<1>3. SubSeq(d, 1, 0) = <<>>
  <2> DEFINE one == 1
             none == 0
  <2>1. one \in Int /\ none \in Int /\ none < one
    OBVIOUS
  <2> HIDE DEF one, none
  <2>2. SubSeq(d, one, none) = <<>>
    BY <2>1, SubSeqEmpty
  <2> QED BY <2>2 DEF one, none
<1>4. W = S
  <2>1. Expand(e, ps) = <<>>
    BY ExpandEmpty
  <2>2. \A s \in Seq(X) : Expand(s, ps) = <<>> => s = e
    BY ExpandNone
  <2> HIDE DEF X, e
  <2> QED BY <1>1, <1>3, <2>1, <2>2
<1> HIDE DEF S, T, W
<1>5. a \in Seq(T) /\ Len(a) = 0 + 1 /\ a[1] = S
  BY <1>2
<1> HIDE DEF a
<1>6. \A i \in 0 .. 0 : i = 0
  OBVIOUS
<1>7. a[0 + 1] = W
  BY <1>4, <1>5
<1>8. \A i \in 0 .. 0 : a[i + 1] = {s \in Seq(X) : Expand(s, ps) = SubSeq(d, 1, i)}
  BY <1>6, <1>7 DEF W
<1> QED BY <1>5, <1>8 DEF RowsTo, T, X, a, S

\* One place more.
LEMMA RowsNext ==
  ASSUME NEW ps \in Seq(Strings), NEW d \in Seq(Literals), NEW j \in 1 .. Len(d),
         NEW a, RowsTo(a, d, ps, j - 1)
  PROVE  RowsTo(Append(a, WaysTo(a, Ending(d, ps, j))), d, ps, j)
<1> DEFINE X == SymbolsOf(ps)
           S == SUBSET Seq(X)
           Way(i) == {s \in Seq(X) : Expand(s, ps) = SubSeq(d, 1, i)}
           ends == Ending(d, ps, j)
           every == WaysTo(a, ends)
           b == Append(a, every)
<1>1. j \in Nat \ {0} /\ j - 1 + 1 = j /\ j \in 0 .. Len(d) /\ Len(d) \in Nat
  OBVIOUS
<1>2. a \in Seq(S) /\ Len(a) = j /\ \A i \in 0 .. j - 1 : a[i + 1] = Way(i)
  <2>1. Len(a) = j - 1 + 1
    BY DEF RowsTo
  <2>2. a \in Seq(S) /\ \A i \in 0 .. j - 1 : a[i + 1] = Way(i)
    BY DEF RowsTo
  <2> QED BY <1>1, <2>1, <2>2
<1>3. \A e \in ends : /\ e.x \in X /\ e.from \in 1 .. j
                      /\ SubSeq(d, 1, e.from - 1) \o Bytes(e.x, ps) = SubSeq(d, 1, j)
  BY EndingOf
<1>4. \A s : s \in every <=> \E e \in ends : \E t \in a[e.from] : s = Append(t, e.x)
  BY DEF WaysTo
<1>5. ASSUME NEW e \in ends, NEW t \in a[e.from] PROVE Append(t, e.x) \in Way(j)
  <2> DEFINE i == e.from - 1
  <2>1. i \in 0 .. j - 1 /\ i + 1 = e.from
    <3>1. e.from \in 1 .. j
      BY <1>3
    <3> QED BY <1>1, <3>1
  <2>2. t \in Way(i)
    <3> HIDE DEF i, Way
    <3> QED BY <1>2, <1>5, <2>1
  <2>3. t \in Seq(X) /\ Expand(t, ps) = SubSeq(d, 1, e.from - 1)
    BY <2>2
  <2>4. Append(t, e.x) \in Seq(X)
    <3> HIDE DEF X
    <3> QED BY <1>3, <2>3
  <2>5. Expand(Append(t, e.x), ps) = Expand(t, ps) \o Bytes(e.x, ps)
    BY <1>3, <2>3, ExpandAppend
  <2>6. Expand(Append(t, e.x), ps) = SubSeq(d, 1, j)
    BY <1>3, <2>3, <2>5
  <2> QED BY <2>4, <2>6
<1>6. ASSUME NEW s \in Way(j) PROVE \E e \in ends : \E t \in a[e.from] : s = Append(t, e.x)
  <2>1. s \in Seq(X) /\ Expand(s, ps) = SubSeq(d, 1, j)
    OBVIOUS
  <2>2. s # <<>>
    <3>1. Len(SubSeq(d, 1, j)) = j
      <4> DEFINE one == 1
      <4>1. one \in Int /\ j \in Int /\ one <= j /\ j - one + 1 = j /\ \A i \in one .. j : d[i] \in Literals
        BY <1>1
      <4> HIDE DEF one
      <4>2. Len(SubSeq(d, one, j)) = (IF one <= j THEN j - one + 1 ELSE 0)
        BY <4>1, SubSeqProperties
      <4> QED BY <4>1, <4>2 DEF one
    <3>2. Len(<<>>) = 0 /\ j # 0
      BY <1>1
    <3> QED BY <2>1, <3>1, <3>2, ExpandEmpty
  <2>3. PICK t \in Seq(X), x \in X : s = Append(t, x)
    <3> HIDE DEF X, Way
    <3> QED BY <2>1, <2>2, SequenceEmptyOrAppend
  <2> DEFINE u == Expand(t, ps)
             p == Bytes(x, ps)
             m == Len(u)
  <2>4. u \o p = SubSeq(d, 1, j)
    BY <2>1, <2>3, ExpandAppend
  <2>5. u \in Seq(Literals) /\ p \in Seq(Literals) /\ p # <<>>
    BY SpelledType, BytesOf DEF Strings
  <2>6. m \in 0 .. j /\ Len(p) = j - m /\ u = SubSeq(d, 1, m) /\ p = SubSeq(d, m + 1, j)
    <3> HIDE DEF u, p
    <3> QED BY <1>1, <2>4, <2>5, SplitOf
  <2> DEFINE e == [x |-> x, from |-> m + 1]
  <2>7. e \in ends
    <3> HIDE DEF m
    <3> QED BY <2>6, EndsHere
  <2>8. m \in 0 .. j - 1
    <3>1. Len(p) \in Nat \ {0}
      <4> HIDE DEF p
      <4> QED BY <2>5, EmptySeq
    <3> HIDE DEF m, p
    <3> QED BY <1>1, <2>6, <3>1
  <2>9. t \in Way(m)
    <3> HIDE DEF m
    <3> QED BY <2>6
  <2>10. t \in a[m + 1]
    <3> HIDE DEF m, Way
    <3> QED BY <1>2, <2>8, <2>9
  <2> HIDE DEF m
  <2>11. e.from = m + 1 /\ e.x = x
    OBVIOUS
  <2> HIDE DEF e, ends
  <2> QED BY <2>3, <2>7, <2>10, <2>11
<1>7. every = Way(j)
  <2> DEFINE W == Way(j)
  <2>1. \A s \in every : s \in W
    <3> HIDE DEF every, ends, W
    <3> SUFFICES ASSUME NEW s \in every PROVE s \in W
      OBVIOUS
    <3>1. PICK e \in ends : \E t \in a[e.from] : s = Append(t, e.x)
      BY <1>4
    <3>2. PICK t \in a[e.from] : s = Append(t, e.x)
      BY <3>1
    <3>3. Append(t, e.x) \in W
      <4> HIDE DEF Way
      <4> QED BY <1>5 DEF W
    <3> QED BY <3>2, <3>3
  <2>2. \A s \in W : s \in every
    <3> SUFFICES ASSUME NEW s \in W PROVE s \in every
      OBVIOUS
    <3> HIDE DEF every, ends, Way
    <3> QED BY <1>4, <1>6
  <2> HIDE DEF W, every
  <2>3. every = W
    BY <2>1, <2>2
  <2> QED BY <2>3 DEF W
<1> HIDE DEF every
<1>8. every \in S
  BY <1>7
<1>9. b \in Seq(S) /\ Len(b) = j + 1 /\ b[j + 1] = every /\ \A i \in 1 .. j : b[i] = a[i]
  <2> HIDE DEF S
  <2> QED BY <1>1, <1>2, <1>8
<1> HIDE DEF b
<1>10. ASSUME NEW i \in 0 .. j PROVE b[i + 1] = Way(i)
  <2> HIDE DEF Way
  <2>1. CASE i = j
    BY <1>7, <1>9, <2>1
  <2>2. CASE i # j
    <3>1. i \in 0 .. j - 1 /\ i + 1 \in 1 .. j
      BY <1>1, <2>2
    <3> QED BY <1>2, <1>9, <3>1
  <2> QED BY <2>1, <2>2
<1> QED BY <1>9, <1>10 DEF RowsTo, S, X, b, every, ends

\* Parses lists every sequence of literals and entries that stands for the
\* file, and nothing else.
THEOREM ParsesAreAll ==
  ASSUME NEW ps \in Seq(Strings), NEW d \in Seq(Literals)
  PROVE  Parses(d, ps) = {s \in Seq(SymbolsOf(ps)) : Expand(s, ps) = d}
<1> DEFINE n == Len(d)
           list == [j \in DOMAIN d |-> j]
           c == <<d, ps>>
           ways == <<{<<>>}>>
<1>1. n \in Nat /\ Len(list) = n /\ DOMAIN list = 1 .. n /\ \A j \in 1 .. n : list[j] = j
  <2>1. n \in Nat /\ DOMAIN d = 1 .. n
    OBVIOUS
  <2> HIDE DEF n
  <2>2. list = [j \in 1 .. n |-> j]
    BY <2>1
  <2> HIDE DEF list
  <2>3. list \in Seq(Nat) /\ Len(list) = n
    BY <2>1, <2>2
  <2> QED BY <2>1, <2>2, <2>3
<1> HIDE DEF list, ways
<1>2. PICK g : Listing!Unrolls(c, ways, list, g) /\ Listing!Fold(c, ways, list) = g[n]
  <2>1. Len(list) \in Nat /\ DOMAIN list = 1 .. Len(list)
    BY <1>1
  <2> HIDE DEF c
  <2>2. \E g : Listing!Unrolls(c, ways, list, g) /\ Listing!Fold(c, ways, list) = g[Len(list)]
    BY <2>1, Listing!Unrolled
  <2> QED BY <1>1, <2>2
<1>3. Parses(d, ps) = g[n][n + 1]
  BY <1>2, ParsesFold DEF list, ways
<1> DEFINE G == {j \in Nat : j <= n => RowsTo(g[j], d, ps, j)}
<1>4. 0 \in G
  <2>1. g[0] = ways
    BY <1>2 DEF Listing!Unrolls
  <2>2. RowsTo(g[0], d, ps, 0)
    BY <2>1, RowsStart DEF ways
  <2> QED BY <2>2
<1>5. ASSUME NEW i \in Nat, i \in G PROVE i + 1 \in G
  <2> DEFINE j == i + 1
  <2> SUFFICES ASSUME j <= n PROVE RowsTo(g[j], d, ps, j)
    OBVIOUS
  <2>1. j \in 1 .. n /\ j - 1 = i /\ i <= n
    BY <1>1
  <2> DEFINE a == g[j - 1]
  <2>2. RowsTo(a, d, ps, j - 1)
    <3> HIDE DEF j, n
    <3> QED BY <1>5, <2>1
  <2> HIDE DEF j
  <2>3. g[j] = Append(a, WaysTo(a, Ending(d, ps, j)))
    <3>1. g[j] = AllStep(c, a, list[j])
      BY <1>1, <1>2, <2>1 DEF Listing!Unrolls
    <3>2. list[j] = j
      BY <1>1, <2>1
    <3> QED BY <3>1, <3>2 DEF AllStep, WaysTo
  <2> HIDE DEF a
  <2>4. RowsTo(Append(a, WaysTo(a, Ending(d, ps, j))), d, ps, j)
    BY <2>1, <2>2, RowsNext
  <2> QED BY <2>3, <2>4
<1>6. Nat \subseteq G
  <2> HIDE DEF G
  <2> QED BY <1>4, <1>5, Induction
<1>7. RowsTo(g[n], d, ps, n) /\ n \in 0 .. n
  <2> HIDE DEF n
  <2> QED BY <1>1, <1>6
<1>8. g[n][n + 1] = {s \in Seq(SymbolsOf(ps)) : Expand(s, ps) = SubSeq(d, 1, n)}
  BY <1>7 DEF RowsTo
<1>9. SubSeq(d, 1, n) = d
  BY SubSeqFull
<1> QED BY <1>3, <1>8, <1>9

\* The price of a round's text is the least there is among all sequences of
\* literals and entries that stand for the file ("shortest-path segmentation
\* over actual code lengths", _segment_optimal).
ShortestParse ==
  ParseRound => \A s \in Seq(SymbolsOf(entries)) :
                  Expand(s, entries) = data => Price(ids') <= Price(s)

\* A round's text is a shortest of all the sequences that stand for the file.
LEMMA ParseShortest == SearchInv => ShortestParse
<1> SUFFICES ASSUME SearchInv, ParseRound,
                    NEW s \in Seq(SymbolsOf(entries)), Expand(s, entries) = data
             PROVE  Price(ids') <= Price(s)
  BY DEF ShortestParse
<1>1. loop = "codes" /\ pass = "tune"
  BY DEF ParseRound
<1>2. data \in Seq(Literals) /\ entries \in Seq(Strings)
  BY <1>1 DEF SearchInv, Searched, InStep, Listed
<1>3. Parses(data, entries) = {t \in Seq(SymbolsOf(entries)) : Expand(t, entries) = data}
  BY <1>2, ParsesAreAll
<1>4. s \in Parses(data, entries)
  BY <1>3
<1>5. \A t \in Parses(data, entries) : Price(ids') <= Price(t)
  BY ParseInv
<1> QED BY <1>4, <1>5

\* No round of the optimal parse could have been shorter: BestParse, for every
\* sequence there is.
THEOREM NoneShorter == SearchSpec => [][ShortestParse]_all
<1>1. SearchInit => SearchInv
  BY InitInv
<1>2. SearchInv /\ [SearchNext]_all => SearchInv'
  BY StepInv
<1>3. SearchInv /\ [SearchNext]_all => [ShortestParse]_all
  BY ParseShortest
<1> QED BY <1>1, <1>2, <1>3, PTL DEF SearchSpec

(***************************************************************************)
(* What is packed is the file                                              *)
(***************************************************************************)

\* Before Emit nothing is written; until PackEnd a part of the text found is,
\* with the dictionary found; afterwards all of it is.
Unwritten == {"select", "grow", "count", "lengths", "codes", "refused"}
Writing   == {"pack_dictionary", "pack_text"}
Written   == {"read_dictionary", "read_text", "done", "corrupt"}

Begun == /\ pass = "final" /\ patterns = entries
         /\ text \in Seq(SymbolsOf(entries)) /\ Len(text) <= Len(ids)
         /\ \A i \in DOMAIN text : text[i] = ids[i]

PackInv ==
  pass # "none" => /\ loop \in Unwritten \cup Writing \cup Written
                   /\ loop \in Unwritten => text = <<>>
                   /\ loop \in Writing => Begun
                   /\ loop \in Written => Begun /\ text = ids

\* PackInv holds when a file is handed over.
LEMMA PackInit == SearchInit => PackInv
BY DEF SearchInit, Entered, PackInv, Unwritten, Writing, Written

\* Before the container is begun no step writes.
LEMMA PackSearching ==
  ASSUME PackInv, SearchInv, pass # "none",
         Select \/ Grow \/ Grown \/ CountIds \/ ParseRound \/ FinalAudit
           \/ (Lengths /\ UNCHANGED search)
  PROVE  PackInv'
<1>1. loop \in Unwritten /\ loop' \in Unwritten /\ text' = text
  <2>1. Select => loop = "select" /\ loop' = "grow" /\ text' = text
    BY DEF Select, Coder, input
  <2>2. Grow => loop = "grow" /\ loop' = "grow" /\ text' = text
    BY DEF Grow, Coder, input
  <2>3. Grown => loop = "grow" /\ loop' = "count" /\ text' = text
    BY DEF Grown, Coder, input
  <2>4. CountIds => loop = "count" /\ loop' = "lengths" /\ text' = text
    BY DEF CountIds, input
  <2>5. ParseRound => loop = "codes" /\ loop' = "count" /\ text' = text
    BY DEF ParseRound, Coder, input
  <2>6. FinalAudit => loop = "codes" /\ loop' = "count" /\ text' = text
    BY DEF FinalAudit, Coder, input
  <2>7. Lengths => loop = "lengths" /\ loop' \in {"lengths", "codes", "refused"} /\ text' = text
    BY ZenonT(60) DEF Lengths, SingleSymbol, TooManySymbols, PackageLevel, CountPackages, TakeTwo,
                      RootReached, input
  <2> QED BY <2>1, <2>2, <2>3, <2>4, <2>5, <2>6, <2>7 DEF Unwritten
<1>2. text = <<>>
  BY <1>1 DEF PackInv
<1>3. loop' \notin Writing /\ loop' \notin Written
  BY <1>1 DEF Unwritten, Writing, Written
<1> QED BY <1>1, <1>2, <1>3 DEF PackInv

\* The dictionary and the text found are what is written, to its end.
LEMMA PackFinal ==
  ASSUME PackInv, SearchInv, pass # "none",
         (\E coded \in BOOLEAN : EmitFound(coded)) \/ PackNext
           \/ (\E lost \in 0 .. MaxCut : PackFound(lost))
  PROVE  PackInv'
<1>1. pass = "final" /\ pass' = pass /\ ids' = ids /\ entries' = entries
  BY DEF EmitFound, PackNext, PackFound, search
<1>2. ASSUME NEW coded \in BOOLEAN, EmitFound(coded) PROVE PackInv'
  <2>1. /\ loop = "codes" /\ loop' \in Writing
        /\ patterns' = entries /\ text' = text
    BY <1>2 DEF EmitFound, Emit, Writing
  <2>2. text = <<>>
    BY <1>1, <2>1 DEF PackInv, Unwritten
  <2>3. ids \in Seq(SymbolsOf(entries))
    BY <1>1, <2>1 DEF SearchInv, Searched, InStep
  <2>4. Len(ids) \in Nat
    <3> DEFINE X == SymbolsOf(entries)
    <3>1. ids \in Seq(X)
      BY <2>3
    <3> HIDE DEF X
    <3> QED BY <3>1
  <2>5. <<>> \in Seq(SymbolsOf(entries)) /\ Len(<<>>) = 0 /\ DOMAIN <<>> = {}
    OBVIOUS
  <2>6. Begun'
    BY <1>1, <2>1, <2>2, <2>4, <2>5 DEF Begun
  <2> QED BY <2>1, <2>6 DEF PackInv, Unwritten, Writing, Written
<1>3. CASE PackNext
  <2> DEFINE X == SymbolsOf(entries)
             n == Len(text)
             x == ids[n + 1]
  <2>1. /\ n < Len(ids) /\ loop = "pack_text" /\ loop' = "pack_text"
        /\ text' = Append(text, x) /\ patterns' = patterns
    BY <1>3 DEF PackNext, PackSymbol
  <2>2. Begun
    BY <1>1, <2>1 DEF PackInv, Writing
  <2>3. ids \in Seq(X)
    BY <1>1, <2>1 DEF SearchInv, Searched, InStep
  <2>4. text \in Seq(X) /\ \A i \in DOMAIN text : text[i] = ids[i]
    BY <2>2 DEF Begun
  <2> HIDE DEF X
  <2>5. n \in Nat /\ n + 1 \in 1 .. Len(ids) /\ x \in X
    BY <2>1, <2>3, <2>4
  <2>6. DOMAIN text = 1 .. n
    BY <2>4
  <2> HIDE DEF x
  <2>7. /\ Append(text, x) \in Seq(X) /\ Len(Append(text, x)) = n + 1
        /\ DOMAIN Append(text, x) = 1 .. n + 1
        /\ \A i \in 1 .. n : Append(text, x)[i] = text[i]
        /\ Append(text, x)[n + 1] = x
    BY <2>4, <2>5
  <2>8. ASSUME NEW i \in 1 .. n + 1 PROVE Append(text, x)[i] = ids[i]
    <3>1. CASE i = n + 1
      BY <2>7, <3>1 DEF x
    <3>2. CASE i # n + 1
      <4>1. i \in 1 .. n
        BY <2>5, <3>2
      <4> QED BY <2>4, <2>6, <2>7, <4>1
    <3> QED BY <3>1, <3>2
  <2>9. Len(Append(text, x)) <= Len(ids)
    BY <2>5, <2>7
  <2>10. Begun'
    BY <1>1, <2>1, <2>2, <2>7, <2>8, <2>9 DEF Begun, X
  <2> QED BY <2>1, <2>10 DEF PackInv, Unwritten, Writing, Written
<1>4. ASSUME NEW lost \in 0 .. MaxCut, PackFound(lost) PROVE PackInv'
  <2>1. /\ Len(text) = Len(ids) /\ loop = "pack_text" /\ loop' \in Written
        /\ text' = text /\ patterns' = patterns
    BY <1>4 DEF PackFound, PackEnd, input, Written
  <2>2. Begun
    BY <1>1, <2>1 DEF PackInv, Writing
  <2>3. ids \in Seq(SymbolsOf(entries))
    BY <1>1, <2>1 DEF SearchInv, Searched, InStep
  <2>4. text = ids
    <3> DEFINE X == SymbolsOf(entries)
    <3>1. text \in Seq(X) /\ ids \in Seq(X) /\ \A i \in DOMAIN text : text[i] = ids[i]
      BY <2>2, <2>3 DEF Begun
    <3> HIDE DEF X
    <3>2. DOMAIN text = 1 .. Len(text)
      BY <3>1
    <3> QED BY SMTT(40), <2>1, <3>1, <3>2, SeqEqual
  <2>5. Begun'
    BY <1>1, <2>1, <2>2 DEF Begun
  <2> QED BY <1>1, <2>1, <2>4, <2>5 DEF PackInv, Unwritten, Writing, Written
<1> QED BY <1>2, <1>3, <1>4

\* Reading changes neither the dictionary nor the text that were written.
LEMMA PackDecode ==
  ASSUME PackInv, Decode, UNCHANGED search
  PROVE  PackInv'
<1>1. patterns' = patterns /\ text' = text
  BY ZenonT(60) DEF Decode, PackDictionary, Refill, LookUp, WalkBit, WalkTruncated, DictionaryRead,
                    TextRead, input, machine
<1>2. \/ loop \in Writing /\ loop' \in Writing
      \/ loop \in Written /\ loop' \in Written
      \/ loop = "refused" /\ loop' = "refused"
  <2>1. PackDictionary => loop \in Writing /\ loop' \in Writing
    BY DEF PackDictionary, Writing
  <2>2. Refill => loop \in Written /\ loop' \in Written
    BY DEF Refill, Reading, Written
  <2>3. LookUp => loop \in Written /\ loop' \in Written
    BY DEF LookUp, Reading, Corrupt, Written
  <2>4. WalkBit => loop \in Written /\ loop' \in Written
    BY DEF WalkBit, Reading, Corrupt, Written
  <2>5. WalkTruncated => loop \in Written /\ loop' \in Written
    BY DEF WalkTruncated, Reading, Corrupt, Written
  <2>6. DictionaryRead => loop \in Written /\ loop' \in Written
    BY DEF DictionaryRead, Written
  <2>7. TextRead => loop \in Written /\ loop' \in Written
    BY DEF TextRead, Written
  <2>8. loop \in {"done", "refused", "corrupt"} /\ UNCHANGED machine
          => loop' = loop /\ (loop = "refused" \/ loop \in Written)
    BY DEF machine, Written
  <2> QED BY <2>1, <2>2, <2>3, <2>4, <2>5, <2>6, <2>7, <2>8 DEF Decode
<1>3. pass' = pass /\ ids' = ids /\ entries' = entries
  BY DEF search
<1>4. Begun => Begun'
  BY <1>1, <1>3 DEF Begun
<1> QED BY <1>1, <1>2, <1>3, <1>4 DEF PackInv, Unwritten, Writing, Written

\* Every step keeps PackInv.
LEMMA PackStep == SearchInv /\ PackInv /\ [SearchNext]_all => PackInv'
<1> SUFFICES ASSUME SearchInv, PackInv, [SearchNext]_all PROVE PackInv'
  OBVIOUS
<1>1. CASE UNCHANGED all
  <2>1. /\ loop' = loop /\ patterns' = patterns /\ text' = text
        /\ pass' = pass /\ ids' = ids /\ entries' = entries
    BY <1>1 DEF all, machine, input, search
  <2> QED BY <2>1 DEF PackInv, Begun
<1>2. CASE Decode /\ UNCHANGED search
  BY <1>2, PackDecode
<1>3. CASE pass = "none"
  <2>1. CASE Searching
    <3>1. loop = "count" \/ loop = "select" \/ loop = "grow" \/ pass # "none"
      BY <2>1 DEF Searching, Select, Grow, Grown, CountIds, ParseRound, FinalAudit, EmitFound,
                  PackNext, PackFound
    <3> QED BY <1>3, <3>1 DEF SearchInv
  <2>2. CASE UNCHANGED search
    BY <1>3, <2>2 DEF PackInv, search
  <2> QED BY <1>1, <2>1, <2>2 DEF SearchNext, all
<1>4. CASE pass # "none" /\ Searching
  BY <1>4, PackSearching, PackFinal DEF Searching
<1>5. CASE pass # "none" /\ Lengths /\ UNCHANGED search
  BY <1>5, PackSearching
<1> QED BY <1>1, <1>2, <1>3, <1>4, <1>5 DEF SearchNext

\* Once the container is written, the text in it stands for the file that was
\* searched, whatever the dictionary, the rounds and the options.
PackedIsFile == pass # "none" /\ loop \in Written => Data = data

LEMMA PackedData == SearchInv /\ PackInv => PackedIsFile
<1> SUFFICES ASSUME SearchInv, PackInv, pass # "none", loop \in Written PROVE Data = data
  BY DEF PackedIsFile
<1>1. patterns = entries /\ text = ids
  BY DEF PackInv, Begun
<1>2. Expand(ids, entries) = data
  BY DEF SearchInv, Searched, InStep, Written
<1> QED BY <1>1, <1>2 DEF Data, Expand

\* The search loses nothing: what is written into the container is the file,
\* so that the whole engine is lossless as soon as its coder is (RoundTrip and
\* TruncationDetected are all that is left of Lossless).
THEOREM SearchLosesNothing ==
  SearchSpec => [](PackedIsFile /\ (RoundTrip /\ TruncationDetected => Lossless))
<1> DEFINE Inv == SearchInv /\ PackInv
<1>1. SearchInit => Inv
  BY InitInv, PackInit
<1>2. Inv /\ [SearchNext]_all => Inv'
  BY StepInv, PackStep
<1>3. Inv => PackedIsFile /\ (RoundTrip /\ TruncationDetected => Lossless)
  <2> SUFFICES ASSUME Inv
               PROVE  PackedIsFile /\ (RoundTrip /\ TruncationDetected => Lossless)
    OBVIOUS
  <2>1. PackedIsFile
    BY PackedData
  <2>2. ASSUME RoundTrip, loop = "done", pass = "final", cut = 0 PROVE out = data
    BY <2>1, <2>2 DEF RoundTrip, PackedIsFile, Written
  <2> QED BY <2>1, <2>2 DEF Lossless
<1> QED BY <1>1, <1>2, <1>3, PTL DEF SearchSpec
=============================================================================
