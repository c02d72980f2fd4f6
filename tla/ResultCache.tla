---------------------------- MODULE ResultCache ----------------------------
(***************************************************************************)
(* The in-memory download cache of app.py: RESULTS, a dict from token to   *)
(* result, the oldest of which _stash evicts beyond MAX_KEEP entries.      *)
(*                                                                         *)
(* A request stashes one result (compression, decompression) or one per    *)
(* member (api_archive_extract) before it answers with the tokens.  No     *)
(* lock protects the dict: under the threaded development server another   *)
(* request may run between any two of _stash's bytecode calls, and each of *)
(* them is a step here.  Threads is one under the production server.       *)
(*                                                                         *)
(* Abstraction.  uuid4 tokens are numbered in the order of insertion; a    *)
(* dict iterates in that order, so its first key is the smallest number.   *)
(***************************************************************************)
EXTENDS Integers, FiniteSets, FiniteSetsExt

CONSTANTS
  Threads,    \* request threads
  MaxKeep,    \* MAX_KEEP
  MaxMembers, \* most results one request stashes (bound)
  MaxTokens,  \* tokens handed out in all (bound)
  None

ASSUME ThreadsFinite == IsFiniteSet(Threads) /\ None \notin Int
ASSUME KeepNatural   == MaxKeep \in Nat /\ MaxMembers \in Nat /\ MaxTokens \in Nat
\* Every thread may take one entry too many, and next(iter()) needs one left.
ASSUME KeepEnough    == MaxKeep >= Cardinality(Threads)

VARIABLES
  cache,  \* RESULTS: the tokens it holds
  last,   \* the newest token
  pc,     \* where each thread is in its request
  mine,   \* the tokens its request has been given so far
  left,   \* results it still has to stash
  seen    \* iter(RESULTS): the size it saw; next(): the key it found

vars == <<cache, last, pc, mine, left, seen>>

Pcs == {"idle", "insert", "check", "iter", "next", "pop", "answer"}

TypeOK ==
  /\ cache \in SUBSET (1 .. last)
  /\ last \in 0 .. MaxTokens
  /\ pc \in [Threads -> Pcs]
  /\ mine \in [Threads -> SUBSET (1 .. last)]
  /\ left \in [Threads -> 0 .. MaxMembers]
  /\ seen \in [Threads -> Nat \cup {None}]

Init ==
  /\ cache = {} /\ last = 0
  /\ pc = [t \in Threads |-> "idle"]
  /\ mine = [t \in Threads |-> {}]
  /\ left = [t \in Threads |-> 0]
  /\ seen = [t \in Threads |-> None]

Goto(t, where) == pc' = [pc EXCEPT ![t] = where]

\* A request has n results to hand over, one at a time.
Begin(t, n) ==
  /\ pc[t] = "idle"
  /\ Goto(t, "insert")
  /\ left' = [left EXCEPT ![t] = n]
  /\ UNCHANGED <<cache, last, mine, seen>>

\* RESULTS[token] = (...)
Insert(t) ==
  /\ pc[t] = "insert"
  /\ last < MaxTokens
  /\ last' = last + 1
  /\ cache' = cache \cup {last + 1}
  /\ mine' = [mine EXCEPT ![t] = @ \cup {last + 1}]
  /\ left' = [left EXCEPT ![t] = @ - 1]
  /\ Goto(t, "check")
  /\ UNCHANGED seen

\* Mutation: the cache is kept one entry below MAX_KEEP.
CheckLen_Early(t) ==
  /\ pc[t] = "check"
  /\ Goto(t, IF Cardinality(cache) >= MaxKeep THEN "iter"
             ELSE IF left[t] > 0 THEN "insert" ELSE "answer")
  /\ UNCHANGED <<cache, last, mine, left, seen>>

\* while len(RESULTS) > MAX_KEEP: otherwise the next member, or the answer.
CheckLen(t) ==
  /\ pc[t] = "check"
  /\ Goto(t, IF Cardinality(cache) > MaxKeep THEN "iter"
             ELSE IF left[t] > 0 THEN "insert" ELSE "answer")
  /\ UNCHANGED <<cache, last, mine, left, seen>>

\* iter(RESULTS) remembers the size of the dict.
Iterate(t) ==
  /\ pc[t] = "iter"
  /\ seen' = [seen EXCEPT ![t] = Cardinality(cache)]
  /\ Goto(t, "next")
  /\ UNCHANGED <<cache, last, mine, left>>

\* An exception leaves the request, whatever it stashed before.
Raise(t) ==
  /\ Goto(t, "idle")
  /\ mine' = [mine EXCEPT ![t] = {}]
  /\ left' = [left EXCEPT ![t] = 0]
  /\ seen' = [seen EXCEPT ![t] = None]
  /\ UNCHANGED <<cache, last>>

\* next(...) finds the first key, or RuntimeError where the size has changed.
First(t) ==
  /\ pc[t] = "next"
  /\ IF Cardinality(cache) = seen[t]
       THEN /\ seen' = [seen EXCEPT ![t] = Min(cache)]
            /\ Goto(t, "pop")
            /\ UNCHANGED <<cache, last, mine, left>>
       ELSE Raise(t)

\* Mutation: evict once per result instead of until the cache fits.
Pop_Once(t) ==
  /\ pc[t] = "pop"
  /\ IF seen[t] \in cache
       THEN /\ cache' = cache \ {seen[t]}
            /\ seen' = [seen EXCEPT ![t] = None]
            /\ Goto(t, IF left[t] > 0 THEN "insert" ELSE "answer")
            /\ UNCHANGED <<last, mine, left>>
       ELSE Raise(t)

\* RESULTS.pop(key): KeyError where another thread popped it first.
Pop(t) ==
  /\ pc[t] = "pop"
  /\ IF seen[t] \in cache
       THEN /\ cache' = cache \ {seen[t]}
            /\ seen' = [seen EXCEPT ![t] = None]
            /\ Goto(t, "check")
            /\ UNCHANGED <<last, mine, left>>
       ELSE Raise(t)

\* The response carries the tokens of `mine`.
Answer(t) ==
  /\ pc[t] = "answer"
  /\ Raise(t)

Evict(t) == Iterate(t) \/ First(t) \/ Pop(t)

Next == \E t \in Threads :
  \/ \E n \in 1 .. MaxMembers : Begin(t, n)
  \/ Insert(t) \/ CheckLen(t) \/ Evict(t) \/ Answer(t)

Spec == Init /\ [][Next]_vars

(***************************************************************************)
(* Safety                                                                  *)
(***************************************************************************)

\* Between requests the cache holds at most MAX_KEEP results, although any
\* request may die of a race inside its own eviction loop: whoever changed
\* the dict under it goes on to check the size again.
CacheBounded ==
  (\A t \in Threads : pc[t] \in {"idle", "answer"}) => Cardinality(cache) <= MaxKeep

\* Racing evictions take too many entries, but at most one for each other
\* thread: the newest MaxKeep - (Threads - 1) tokens can be downloaded.
RecentKept ==
  \A k \in 1 .. last :
    k > last - (MaxKeep - (Cardinality(Threads) - 1)) => k \in cache

\* Evictions that race take neither too little nor too much.
CacheKept == CacheBounded /\ RecentKept
=============================================================================
