---------------------------- MODULE PresetSearch ----------------------------
(***************************************************************************)
(* One compression under a preset (presets.py compress_with): the          *)
(* container routing of containers.compress_container, driving for each    *)
(* buffer a ladder of search profiles whose rungs run as jobs of one       *)
(* thread pool that all requests share.  A step is the start or the end of *)
(* a job, the submission of a batch, or one decision of the router.        *)
(*                                                                         *)
(* Abstractions.  A buffer is named by the stage that compresses it, and   *)
(* "guard" and "plain" compress the same one, the file.  The size a rung   *)
(* gives is arbitrary but fixed: the engine is deterministic, and requests *)
(* compress the same file.  For a component it is the length of the whole  *)
(* AFC3, AFC4 or AFC6 wrapper.  A file is a ZIP or a PDF, so there is one  *)
(* "tokens" candidate, AFC4 or AFC6.                                       *)
(***************************************************************************)
EXTENDS Integers, Sequences, FiniteSets

CONSTANTS
  Requests,    \* calls of compress_with
  Rungs,       \* length of the ladder
  Sizes,       \* lengths of compressed results
  TokensSizes, \* those the tokens buffer may have
  FileLen,     \* length of the file
  AfcCost, TokensCost, FileCost, \* bytes one job needs, by buffer
  Budget,      \* _INFLIGHT_BUDGET
  Cpus,        \* os.cpu_count()
  PoolSize,    \* max_workers of the pool, at least 4 in the code
  MaxFails,    \* most jobs that raise (bound)
  None

ASSUME LadderLong    == Rungs \in Nat \ {0} /\ Cpus \in Nat \ {0}
ASSUME SizesNatural  == Sizes \subseteq Nat
ASSUME CostsPositive == {AfcCost, TokensCost, FileCost} \subseteq Nat \ {0} /\ Budget \in Nat
ASSUME PoolNatural   == PoolSize \in Nat /\ MaxFails \in Nat

VARIABLES
  stage,    \* what the request is doing
  plan,     \* what containers.plan found: viable candidates, opaque-heavy
  start,    \* first rung of the batch
  awaited,  \* rungs of the batch whose futures are not consumed
  results,  \* [rung -> size] of the ladder, None before it is known
  found,    \* verified candidates, in order
  whole,    \* the cache of the file's own ladder
  answer,   \* what the request returns
  queue,    \* jobs that wait for a worker
  running,  \* jobs that run
  size,     \* the size each rung gives for each buffer
  fails     \* jobs that raised

request == <<stage, plan, start, awaited, results, found, whole, answer>>
vars == <<request, queue, running, size, fails>>

(***************************************************************************)
(* Ladders, jobs and memory                                                *)
(***************************************************************************)
Ladders == {"afc3", "tokens", "guard", "plain"}
Stages  == Ladders \cup {"idle", "route", "done", "failed"}
Buffer(s) == IF s \in {"guard", "plain"} THEN "file" ELSE s
Buffers == {"afc3", "tokens", "file"}

Ladder == 1 .. Rungs
Cost(s) == CASE Buffer(s) = "afc3"   -> AfcCost
             [] Buffer(s) = "tokens" -> TokensCost
             [] OTHER                -> FileCost

Least(S) == CHOOSE x \in S : \A y \in S : x <= y

\* _worker_count.
WorkerCount(s) ==
  IF Rungs = 1 \/ Budget < Cost(s) THEN 1
  ELSE Least({Rungs, Cpus, Budget \div Cost(s)})

Job(r, s, k) == [req |-> r, stage |-> s, rung |-> k]
Jobs == [req : Requests, stage : Ladders, rung : Ladder]

\* The ladder may run on the request's own thread.
OwnThread(s) == WorkerCount(s) = 1
Busy == Cardinality({j \in running : ~OwnThread(j.stage)})

\* min(results, key=len): the first of the smallest.
FirstSmallest(f) ==
  LET n == Least({f[k] : k \in DOMAIN f})
      k == Least({i \in DOMAIN f : f[i] = n})
  IN [rung |-> k, size |-> n]

Blob(s, b) == [buffer |-> Buffer(s), rung |-> b.rung, size |-> b.size]
Blobs == [buffer : Buffers, rung : Ladder, size : Sizes]

Nothing == [k \in Ladder |-> None]

\* A file that is no container has no plan.
Plans == [viable : SUBSET {"afc3", "tokens"}, heavy : BOOLEAN]
NoPlan == [viable |-> {}, heavy |-> FALSE]

TypeOK ==
  /\ stage \in [Requests -> Stages]
  /\ plan \in [Requests -> Plans]
  /\ start \in [Requests -> 1 .. Rungs + 1]
  /\ awaited \in [Requests -> SUBSET Ladder]
  /\ results \in [Requests -> [Ladder -> Sizes \cup {None}]]
  /\ \A r \in Requests : Len(found[r]) <= 2
                         /\ \A i \in DOMAIN found[r] : found[r][i] \in Blobs
  /\ whole \in [Requests -> Blobs \cup {None}]
  /\ answer \in [Requests -> Blobs \cup {None}]
  /\ \A i \in DOMAIN queue : queue[i] \in Jobs
  /\ running \subseteq Jobs /\ Busy <= PoolSize
  /\ size \in [Buffers -> [Ladder -> Sizes]]
  /\ fails \in 0 .. MaxFails

Init ==
  /\ stage = [r \in Requests |-> "idle"]
  /\ plan = [r \in Requests |-> NoPlan]
  /\ start = [r \in Requests |-> 1]
  /\ awaited = [r \in Requests |-> {}]
  /\ results = [r \in Requests |-> Nothing]
  /\ found = [r \in Requests |-> <<>>]
  /\ whole = [r \in Requests |-> None]
  /\ answer = [r \in Requests |-> None]
  /\ queue = <<>> /\ running = {}
  /\ size \in [Buffers -> [Ladder -> Sizes]]
  /\ \A k \in Ladder : size["tokens"][k] \in TokensSizes
  /\ fails = 0

\* A new ladder, from its first rung.
Enter(r, s) ==
  /\ stage' = [stage EXCEPT ![r] = s]
  /\ start' = [start EXCEPT ![r] = 1]
  /\ awaited' = [awaited EXCEPT ![r] = {}]
  /\ results' = [results EXCEPT ![r] = Nothing]

\* The first stage of a plan: AFC3, then AFC4 or AFC6, then the choice.
FirstStage(p) == IF "afc3" \in p.viable THEN "afc3"
                 ELSE IF "tokens" \in p.viable THEN "tokens" ELSE "route"
AfterAfc3(r) == IF "tokens" \in plan[r].viable THEN "tokens" ELSE "route"

Begin(r, p) ==
  /\ stage[r] = "idle"
  /\ plan' = [plan EXCEPT ![r] = p]
  /\ Enter(r, FirstStage(p))
  /\ UNCHANGED <<found, whole, answer, queue, running, size, fails>>

(***************************************************************************)
(* _run_ladder                                                             *)
(***************************************************************************)
Cached(r) == stage[r] \in {"guard", "plain"} /\ whole[r] # None

InLadder(r) == stage[r] \in Ladders /\ ~Cached(r)

\* Mutation: the next batch goes to the pool while the last one still runs.
Submit_NoBarrier(r) ==
  LET s == stage[r]
      batch == {k \in Ladder : start[r] <= k /\ k < start[r] + WorkerCount(s)}
  IN
  /\ InLadder(r) /\ start[r] <= Rungs
  /\ OwnThread(s) => awaited[r] = {}
  /\ awaited' = [awaited EXCEPT ![r] = @ \cup batch]
  /\ start' = [start EXCEPT ![r] = Least({Rungs + 1, @ + WorkerCount(s)})]
  /\ IF OwnThread(s)
       THEN running' = running \cup {Job(r, s, k) : k \in batch}
            /\ UNCHANGED queue
       ELSE queue' = queue \o [i \in 1 .. Cardinality(batch) |->
                                 Job(r, s, start[r] + i - 1)]
            /\ UNCHANGED running
  /\ UNCHANGED <<stage, plan, results, found, whole, answer, size, fails>>

\* One batch: all rungs, as many as the memory budget allows, or one rung on
\* the request's own thread.
Submit(r) ==
  LET s == stage[r]
      batch == {k \in Ladder : start[r] <= k /\ k < start[r] + WorkerCount(s)}
  IN
  /\ InLadder(r) /\ awaited[r] = {} /\ start[r] <= Rungs
  /\ awaited' = [awaited EXCEPT ![r] = batch]
  /\ start' = [start EXCEPT ![r] = Least({Rungs + 1, @ + WorkerCount(s)})]
  /\ IF OwnThread(s)
       THEN running' = running \cup {Job(r, s, k) : k \in batch}
            /\ UNCHANGED queue
       ELSE queue' = queue \o [i \in 1 .. Cardinality(batch) |->
                                 Job(r, s, start[r] + i - 1)]
            /\ UNCHANGED running
  /\ UNCHANGED <<stage, plan, results, found, whole, answer, size, fails>>

\* A worker takes the oldest job.
StartJob ==
  /\ queue # <<>> /\ Busy < PoolSize
  /\ running' = running \cup {Head(queue)}
  /\ queue' = Tail(queue)
  /\ UNCHANGED <<request, size, fails>>

\* A request listens to the jobs of the ladder it is in.
Listens(j) == stage[j.req] = j.stage /\ j.rung \in awaited[j.req]

\* Mutation: results are kept in the order in which the jobs end.
JobDone_Arrival(j) ==
  LET r == j.req
      n == size[Buffer(j.stage)][j.rung]
      k == Least({i \in Ladder : results[r][i] = None} \cup {Rungs})
  IN
  /\ j \in running
  /\ running' = running \ {j}
  /\ IF Listens(j)
       THEN /\ awaited' = [awaited EXCEPT ![r] = @ \ {j.rung}]
            /\ results' = [results EXCEPT ![r][k] = n]
       ELSE UNCHANGED <<awaited, results>>
  /\ UNCHANGED <<stage, plan, start, found, whole, answer, queue, size, fails>>

\* Its future is consumed as it completes; the result goes to its own place.
JobDone(j) ==
  LET r == j.req
      n == size[Buffer(j.stage)][j.rung]
  IN
  /\ j \in running
  /\ running' = running \ {j}
  /\ IF Listens(j)
       THEN /\ awaited' = [awaited EXCEPT ![r] = @ \ {j.rung}]
            /\ results' = [results EXCEPT ![r][j.rung] = n]
       ELSE UNCHANGED <<awaited, results>>
  /\ UNCHANGED <<stage, plan, start, found, whole, answer, queue, size, fails>>

\* Where an exception in a ladder leads: build_afc3 and the guard are called
\* outside any try of compress_container, so compress_with falls back to the
\* plain file; the token transform declines; in the plain file the request
\* fails.
AfterRaise(r) ==
  CASE stage[r] \in {"afc3", "guard"} -> "plain"
    [] stage[r] = "tokens"            -> "route"
    [] OTHER                          -> "failed"

\* Mutation: an exception is swallowed and its rung never arrives.
JobRaises_Swallowed(j) ==
  /\ j \in running /\ fails < MaxFails
  /\ fails' = fails + 1
  /\ running' = running \ {j}
  /\ UNCHANGED <<stage, start, awaited, results, plan, found, whole, answer,
                 queue, size>>

\* future.result() raises: the other jobs of the batch go on, unheard.
JobRaises(j) ==
  /\ j \in running /\ fails < MaxFails
  /\ fails' = fails + 1
  /\ running' = running \ {j}
  /\ IF Listens(j) THEN Enter(j.req, AfterRaise(j.req))
                   ELSE UNCHANGED <<stage, start, awaited, results>>
  /\ UNCHANGED <<plan, found, whole, answer, queue, size>>

LadderDone(r) == stage[r] \in Ladders /\ start[r] > Rungs /\ awaited[r] = {}

(***************************************************************************)
(* compress_container and the end of compress_with                         *)
(***************************************************************************)

\* A component's wrapper is verified byte for byte, then kept or dropped.
Candidate(r, kept) ==
  /\ stage[r] \in {"afc3", "tokens"} /\ LadderDone(r)
  /\ found' = [found EXCEPT ![r] =
       IF kept THEN Append(@, Blob(stage[r], FirstSmallest(results[r])))
               ELSE @]
  /\ Enter(r, IF stage[r] = "afc3" THEN AfterAfc3(r) ELSE "route")
  /\ UNCHANGED <<plan, whole, answer, queue, running, size, fails>>

\* min(candidates, key=len).
Best(r) == LET f == [i \in DOMAIN found[r] |-> found[r][i].size]
           IN found[r][FirstSmallest(f).rung]

Return(r, blob) ==
  /\ answer' = [answer EXCEPT ![r] = blob]
  /\ Enter(r, "done")

\* An AFC3 of an opaque-heavy, large file skips the comparison with the plain
\* file; it only has to be smaller than the file itself.
Shortcut(r) == found[r] # <<>> /\ Best(r).buffer = "afc3" /\ plan[r].heavy

Route(r) ==
  /\ stage[r] = "route"
  /\ IF Shortcut(r)
       THEN IF Best(r).size < FileLen THEN Return(r, Best(r))
                                      ELSE Enter(r, "plain") /\ UNCHANGED answer
       ELSE Enter(r, IF found[r] = <<>> THEN "plain" ELSE "guard")
            /\ UNCHANGED answer
  /\ UNCHANGED <<plan, found, whole, queue, running, size, fails>>

\* searched(data) keeps the result of the file's ladder.
KeepWhole(r) ==
  /\ stage[r] \in {"guard", "plain"} /\ LadderDone(r) /\ ~Cached(r)
  /\ whole' = [whole EXCEPT ![r] = Blob(stage[r], FirstSmallest(results[r]))]
  /\ UNCHANGED <<stage, plan, start, awaited, results, found, answer, queue,
                 running, size, fails>>

\* Mutation: the component wrapper wins whenever there is one.
Guard_Skipped(r) ==
  /\ stage[r] = "guard" /\ Cached(r)
  /\ Return(r, Best(r))
  /\ UNCHANGED <<plan, found, whole, queue, running, size, fails>>

\* The component wrapper has to beat the plain file.
Guard(r) ==
  /\ stage[r] = "guard" /\ Cached(r)
  /\ IF Best(r).size >= whole[r].size
       THEN Enter(r, "plain") /\ UNCHANGED answer
       ELSE Return(r, Best(r))
  /\ UNCHANGED <<plan, found, whole, queue, running, size, fails>>

Plain(r) ==
  /\ stage[r] = "plain" /\ Cached(r)
  /\ Return(r, whole[r])
  /\ UNCHANGED <<plan, found, whole, queue, running, size, fails>>

RequestStep(r) ==
  \/ Submit(r) \/ Route(r) \/ KeepWhole(r) \/ Guard(r) \/ Plain(r)
  \/ \E kept \in BOOLEAN : Candidate(r, kept)

JobEnds(j) == JobRaises(j) \/ JobDone(j)

Next ==
  \/ \E r \in Requests, p \in Plans : Begin(r, p)
  \/ \E r \in Requests : RequestStep(r)
  \/ StartJob
  \/ \E j \in running : JobEnds(j)

Spec == Init /\ [][Next]_vars

\* Threads run, and the engine ends on every input.
FairSpec == /\ Spec
            /\ \A r \in Requests : WF_vars(RequestStep(r))
            /\ WF_vars(StartJob)
            /\ \A j \in Jobs : WF_vars(j \in running /\ JobEnds(j))

(***************************************************************************)
(* Properties                                                              *)
(***************************************************************************)

\* The smallest, then first, rung for a buffer, by the sizes themselves.
Smallest(b) == LET f == size[b]
                   k == CHOOSE i \in Ladder : \A j \in Ladder :
                          \/ f[i] < f[j]
                          \/ f[i] = f[j] /\ i <= j
               IN [buffer |-> b, rung |-> k, size |-> f[k]]

\* The answer does not depend on the order in which jobs start and end, nor
\* on jobs of other ladders and requests: whatever ladder it comes from, it is
\* what that ladder gives when run rung after rung (presets.py _run_ladder,
\* "deterministic and reproducible").
Reproducible ==
  \A r \in Requests : stage[r] = "done" =>
    answer[r] = Smallest(answer[r].buffer)

\* Outside the shortcut a component wrapper is returned only when it beats the
\* plain file's best rung, and that rung is what is returned otherwise.
GuardKept ==
  \A r \in Requests : stage[r] = "done" /\ ~Shortcut(r) =>
    LET plain == Smallest("file") IN
    IF answer[r].buffer = "file" THEN answer[r] = plain
                                 ELSE answer[r].size < plain.size

\* The same without the exception: what the docstring of compress_container
\* and CHANGES_v7.md promise.
NeverLargerThanPlain ==
  \A r \in Requests :
    stage[r] = "done" => answer[r].size <= Smallest("file").size

Memory(r) == Cardinality(UNION {{j} \X (1 .. Cost(j.stage)) :
                                j \in {x \in running : x.req = r}})

WithinBudget(r) == \/ Memory(r) <= Budget
                   \/ Cardinality({j \in running : j.req = r}) = 1

\* As long as no job has raised, the jobs of a request stay inside the memory
\* budget, or there is only one.  A job that raises leaves the others of its
\* batch running beside the next ladder, and so does another request.
BudgetKept == fails = 0 => \A r \in Requests : WithinBudget(r)

\* Nobody waits for ever: although the jobs of a ladder that raised go on and
\* may take every worker of the pool, a request returns or fails.
RequestsEnd == \A r \in Requests :
                 stage[r] # "idle" ~> stage[r] \in {"done", "failed"}
=============================================================================
