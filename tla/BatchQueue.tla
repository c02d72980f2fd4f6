----------------------------- MODULE BatchQueue -----------------------------
(***************************************************************************)
(* The batch queue of the compress page (static/js/queue.js) and the       *)
(* requests it sends to /api/batch, one per file.  Page code runs to       *)
(* completion, so a step of the page is a whole event handler: a click, a  *)
(* drop, or the settling of a fetch.  The server works on its own.         *)
(*                                                                         *)
(* Abstractions.  A drop brings one file.  An item is an object that the   *)
(* queue, the pending list of a run and the answers all refer to, so items *)
(* are numbered, in the order they come in and so the order of the queue:  *)
(* the pending list is a set, taken from its lowest number up.  Batch ids, *)
(* random in the code, are numbered by run.                                *)
(***************************************************************************)
EXTENDS Integers, FiniteSets, Sequences, SequencesExt

CONSTANTS
  Files,     \* what a user may drop
  Size,      \* [Files -> bytes]
  InScope,   \* those with an allowed extension
  MinSize, FileMax, BatchMax, \* the limits, known to server and /api/config
  MaxItems,  \* most files dropped (bound)
  MaxRuns,   \* most runs (bound)
  MaxLost,   \* most answers that do not arrive (bound)
  MaxSlips,  \* most files stored and yet answered with an error (bound)
  None

ASSUME SizesNatural == Size \in [Files -> Nat] /\ InScope \subseteq Files
ASSUME BoundsNatural ==
  /\ MinSize \in Nat /\ FileMax \in Nat /\ BatchMax \in Nat
  /\ MaxItems \in Nat /\ MaxRuns \in Nat
  /\ MaxLost \in Nat /\ MaxSlips \in Nat

VARIABLES
  cfg,     \* /api/config has been answered
  items,   \* every file dropped: its file and status
  queue,   \* the items in the queue
  results, \* completed results: item and batch
  running,
  batch,   \* the last run
  pending, \* items the run has not sent yet
  total,   \* batch_total_bytes of the run
  awaited, \* the request whose answer the page waits for
  shown,   \* the table as last rendered: rows, remove links, run button
  panel,   \* the results panel: results and the batch its buttons export
  serving, \* requests the server works on
  reply,   \* its answer on the way to the page
  rows,    \* history rows: item and batch
  lost,    \* answers that did not arrive
  slips    \* files stored and answered with an error

page   == <<cfg, items, queue, results, running, batch, pending, total,
            awaited, shown, panel>>
server == <<serving, reply, rows, lost, slips>>
vars   == <<page, server>>

Statuses == {"Queued", "Compressing", "Done", "Error"}
Ids == 1 .. MaxItems
Item    == [file : Files, status : Statuses]
Result  == [item : Ids, batch : 1 .. MaxRuns]
Request == [item : Ids, batch : 1 .. MaxRuns, total : Nat]
Panel   == [results : Seq(Result), batch : 1 .. MaxRuns]

ASSUME NoneFresh ==
  None \notin Request \cup Panel /\ None \notin {"ok", "error"}

TypeOK ==
  /\ cfg \in BOOLEAN /\ running \in BOOLEAN
  /\ items \in Seq(Item) /\ Len(items) <= MaxItems
  /\ queue \in Seq(DOMAIN items) /\ pending \subseteq DOMAIN items
  /\ results \in Seq(Result)
  /\ batch \in 0 .. MaxRuns /\ total \in Nat
  /\ awaited \in Request \cup {None} /\ (awaited # None <=> running)
  /\ shown \in [rows : Seq(DOMAIN items), open : SUBSET Ids, canRun : BOOLEAN]
  /\ panel \in Panel \cup {None}
  /\ serving \subseteq Request /\ rows \subseteq Result
  /\ reply \in {"ok", "error", None}
  /\ lost \in 0 .. MaxLost /\ slips \in 0 .. MaxSlips

Init ==
  /\ cfg = FALSE /\ running = FALSE
  /\ items = <<>> /\ queue = <<>> /\ pending = {} /\ results = <<>>
  /\ batch = 0 /\ total = 0 /\ awaited = None
  /\ shown = [rows |-> <<>>, open |-> {}, canRun |-> FALSE]
  /\ panel = None
  /\ serving = {} /\ reply = None /\ rows = {}
  /\ lost = 0 /\ slips = 0

Valid(f) == Size[f] \in MinSize .. FileMax
Bytes(ids) == Cardinality(UNION {{i} \X (1 .. Size[items[i].file]) : i \in ids})
Queued(its, q) == {i \in ToSet(q) : its[i].status = "Queued"}

(***************************************************************************)
(* The page                                                                *)
(***************************************************************************)

\* renderQueue: queued files that break a limit become errors, the rest is
\* drawn.  Without the configuration validate() finds nothing wrong.
Drawn(its, q) ==
  [i \in DOMAIN its |->
     IF /\ i \in ToSet(q) /\ its[i].status = "Queued"
        /\ cfg /\ ~Valid(its[i].file)
       THEN [its[i] EXCEPT !.status = "Error"] ELSE its[i]]

Render(its, q, run) ==
  LET open == Queued(Drawn(its, q), q)
  IN /\ items' = Drawn(its, q)
     /\ queue' = q
     /\ shown' = [rows |-> q, open |-> open, canRun |-> ~run /\ open # {}]

ConfigArrives ==
  /\ ~cfg /\ cfg' = TRUE
  /\ UNCHANGED <<items, queue, results, running, batch, pending, total,
                 awaited, shown, panel, server>>

\* Mutation: a file dropped during a run is not drawn until the run ends.
AddFile_NotDrawn(f) ==
  LET new == [file |-> f, status |-> "Queued"] IN
  /\ Len(items) < MaxItems /\ f \in InScope
  /\ IF running
       THEN /\ items' = Append(items, new)
            /\ queue' = Append(queue, Len(items) + 1)
            /\ UNCHANGED shown
       ELSE Render(Append(items, new), Append(queue, Len(items) + 1), running)
  /\ UNCHANGED <<cfg, results, running, batch, pending, total, awaited, panel,
                 server>>

AddFile(f) ==
  LET new == [file |-> f, status |-> "Queued"] IN
  /\ Len(items) < MaxItems /\ f \in InScope
  /\ Render(Append(items, new), Append(queue, Len(items) + 1), running)
  /\ UNCHANGED <<cfg, results, running, batch, pending, total, awaited, panel,
                 server>>

\* A file out of scope is named in an error, and the table drawn again.
RejectFile(f) ==
  /\ f \notin InScope
  /\ Render(items, queue, running)
  /\ UNCHANGED <<cfg, results, running, batch, pending, total, awaited, panel,
                 server>>

\* The remove link of row k, which holds the position the row had when drawn.
RemoveFile(k) ==
  /\ k \in DOMAIN shown.rows /\ shown.rows[k] \in shown.open
  /\ ~running
  /\ Render(items, RemoveAt(queue, k), running)
  /\ UNCHANGED <<cfg, results, running, batch, pending, total, awaited, panel,
                 server>>

Clear ==
  /\ ~running
  /\ results' = <<>> /\ panel' = None
  /\ Render(items, <<>>, running)
  /\ UNCHANGED <<cfg, running, batch, pending, total, awaited, server>>

\* next(): send the next file, or end the run and show its results.
SendNext(its, todo, res, b, bytes, busy) ==
  \/ /\ todo = {}
     /\ running' = FALSE /\ pending' = {} /\ awaited' = None
     /\ Render(its, queue, FALSE)
     /\ panel' = IF res = <<>> THEN panel ELSE [results |-> res, batch |-> b]
     /\ serving' = busy
  \/ \E i \in todo :
     /\ \A j \in todo : i <= j
     /\ running' = TRUE /\ pending' = todo \ {i}
     /\ awaited' = [item |-> i, batch |-> b, total |-> bytes]
     /\ serving' = busy \cup {awaited'}
     /\ Render([its EXCEPT ![i].status = "Compressing"], queue, TRUE)
     /\ UNCHANGED panel

\* Mutation: a run takes the whole queue.
Run_Everything ==
  /\ shown.canRun /\ ~running /\ batch < MaxRuns
  /\ cfg => Bytes(ToSet(queue)) <= BatchMax
  /\ batch' = batch + 1
  /\ total' = Bytes(ToSet(queue))
  /\ SendNext(items, ToSet(queue), results, batch + 1, Bytes(ToSet(queue)),
              serving)
  /\ UNCHANGED <<cfg, results, reply, rows, lost, slips>>

\* Mutation: all files of the run are sent at once.
Run_AtOnce ==
  LET todo == Queued(items, queue) IN
  /\ shown.canRun /\ ~running /\ batch < MaxRuns
  /\ cfg => Bytes(ToSet(queue)) <= BatchMax
  /\ batch' = batch + 1
  /\ total' = Bytes(ToSet(queue))
  /\ SendNext(items, todo, results, batch + 1, Bytes(ToSet(queue)),
              serving \cup {[item |-> i, batch |-> batch + 1,
                             total |-> Bytes(ToSet(queue))] : i \in todo})
  /\ UNCHANGED <<cfg, results, reply, rows, lost, slips>>

\* The run button: what is queued now is the run, the bytes of all rows are
\* its total.  Over the limit, the page only says so.
Run ==
  /\ shown.canRun /\ ~running /\ batch < MaxRuns
  /\ cfg => Bytes(ToSet(queue)) <= BatchMax
  /\ batch' = batch + 1
  /\ total' = Bytes(ToSet(queue))
  /\ SendNext(items, Queued(items, queue), results, batch + 1,
              Bytes(ToSet(queue)), serving)
  /\ UNCHANGED <<cfg, results, reply, rows, lost, slips>>

Finished(ok) ==
  [items EXCEPT ![awaited.item].status = IF ok THEN "Done" ELSE "Error"]

\* Mutation: the first result of a batch replaces those before it.
Hear_Restart ==
  LET new == [item |-> awaited.item, batch |-> awaited.batch]
      res == IF reply = "ok" THEN <<new>> ELSE results
  IN
  /\ awaited # None /\ reply # None
  /\ results' = res /\ reply' = None
  /\ SendNext(Finished(reply = "ok"), pending, res, awaited.batch, total,
              serving)
  /\ UNCHANGED <<cfg, batch, total, rows, lost, slips>>

\* The answer arrives.
Hear ==
  LET new == [item |-> awaited.item, batch |-> awaited.batch]
      res == IF reply = "ok" THEN Append(results, new) ELSE results
  IN
  /\ awaited # None /\ reply # None
  /\ results' = res /\ reply' = None
  /\ SendNext(Finished(reply = "ok"), pending, res, awaited.batch, total,
              serving)
  /\ UNCHANGED <<cfg, batch, total, rows, lost, slips>>

\* Mutation: a lost answer does not start the next file.
AnswerLost_Stops(reached) ==
  /\ awaited # None /\ lost < MaxLost
  /\ ~reached => awaited \in serving
  /\ lost' = lost + 1 /\ reply' = None
  /\ serving' = IF reached THEN serving ELSE serving \ {awaited}
  /\ awaited' = None
  /\ Render(Finished(FALSE), queue, running)
  /\ UNCHANGED <<cfg, results, running, batch, pending, total, panel, rows,
                 slips>>

\* The connection fails, or a proxy gives up: an error for the page, which
\* goes on, while the server may have stored the file or still work on it.
AnswerLost(reached) ==
  /\ awaited # None /\ lost < MaxLost
  /\ ~reached => awaited \in serving
  /\ lost' = lost + 1 /\ reply' = None
  /\ SendNext(Finished(FALSE), pending, results, awaited.batch, total,
              IF reached THEN serving ELSE serving \ {awaited})
  /\ UNCHANGED <<cfg, results, batch, total, rows, slips>>

(***************************************************************************)
(* The server                                                              *)
(***************************************************************************)

\* size_error, and the extension of compression_scope_error.
Acceptable(req) ==
  LET f == items[req.item].file
  IN Valid(f) /\ Size[f] > 0 /\ req.total <= BatchMax /\ f \in InScope

\* Nobody waits for the answer to a request that the page has given up.
Answer(req, what) ==
  /\ serving' = serving \ {req}
  /\ reply' = IF req = awaited THEN what ELSE reply

\* Mutation: the total is not looked at, as in api_compress.
Store_NoTotal(req) ==
  LET f == items[req.item].file IN
  /\ req \in serving /\ Valid(f) /\ Size[f] > 0 /\ f \in InScope
  /\ rows' = rows \cup {[item |-> req.item, batch |-> req.batch]}
  /\ Answer(req, "ok")
  /\ UNCHANGED <<page, lost, slips>>

\* api_batch: compressed and stored, with its history row.
Store(req) ==
  /\ req \in serving /\ Acceptable(req)
  /\ rows' = rows \cup {[item |-> req.item, batch |-> req.batch]}
  /\ Answer(req, "ok")
  /\ UNCHANGED <<page, lost, slips>>

\* An error after the history row is committed: _stash loses the race in its
\* eviction loop, or the undo of a refused artifact fails itself.
StoreUnheard(req) ==
  /\ req \in serving /\ Acceptable(req) /\ slips < MaxSlips
  /\ slips' = slips + 1
  /\ rows' = rows \cup {[item |-> req.item, batch |-> req.batch]}
  /\ Answer(req, "error")
  /\ UNCHANGED <<page, lost>>

\* A limit, the scope of the content, the quota or any exception before the
\* row is committed, or after it with the row taken back.
Refuse(req) ==
  /\ req \in serving
  /\ Answer(req, "error")
  /\ UNCHANGED <<page, rows, lost, slips>>

Serve(req) == Store(req) \/ StoreUnheard(req) \/ Refuse(req)

Next ==
  \/ ConfigArrives
  \/ \E f \in Files : AddFile(f) \/ RejectFile(f)
  \/ \E k \in Ids : RemoveFile(k)
  \/ Clear \/ Run \/ Hear
  \/ \E reached \in BOOLEAN : AnswerLost(reached)
  \/ \E req \in serving : Serve(req)

\* The server ends every request, and a reply that is not lost is heard.  No
\* user has to click, and no answer has to get lost.
FairSpec == /\ Init /\ [][Next]_vars
            /\ WF_vars(\E req \in serving : Serve(req))
            /\ WF_vars(Hear)

(***************************************************************************)
(* Properties                                                              *)
(***************************************************************************)

\* "STRICTLY SEQUENTIAL" (queue.js runQueue), "one request per file,
\* sequentially" (api_batch): the server works on one file at a time, and on
\* one more for each answer that was lost.
OneAtATime == Cardinality(serving) <= 1 + lost

\* The files stored under one batch id fit the batch limit, whatever is added
\* or cleared while it runs, although the server sees one file at a time and
\* believes the total it is told, and the page may not know the limit yet.
BatchWithinLimit ==
  \A b \in 1 .. MaxRuns :
    Bytes({r.item : r \in {s \in rows : s.batch = b}}) <= BatchMax

\* The server's work and the user's storage stay within what was promised.
LimitsKept == OneAtATime /\ BatchWithinLimit

\* The stored files that the page does not know of, and will not hear of.
Unheard ==
  {r \in rows : /\ items[r.item].status # "Done"
                /\ running => r.item # awaited.item}

\* The panel's export by batch id holds at most one file that the panel does
\* not show for each answer that was lost or was an error for a stored file.
ExportShown ==
  panel # None /\ ~running =>
    Cardinality({r \in rows : r.batch = panel.batch} \ ToSet(panel.results))
      <= lost + slips

\* No file is stored twice by running again; the results are the files that
\* are done, each stored under the batch it is shown with; and what is stored
\* without the page knowing, or exported without being shown, is at most one
\* file for each answer that was lost or wrongly an error.
ResultsTrue ==
  /\ \A r, s \in rows : r.item = s.item => r = s
  /\ ToSet(results) \subseteq rows
  /\ {r.item : r \in ToSet(results)} =
       {i \in ToSet(queue) : items[i].status = "Done"}
  /\ Cardinality(Unheard) <= lost + slips
  /\ ExportShown

\* What the user can click is what there is: the rows drawn are the rows of
\* the queue, remove links are on files that are not sent (so that the
\* position in a link is still that of its file), and the run button can be
\* pressed when there is something to run.
RowsFresh ==
  /\ shown.rows = queue
  /\ shown.open = {i \in ToSet(queue) : items[i].status = "Queued"}
  /\ shown.canRun <=> ~running /\ shown.open # {}

\* A run ends, and each of its files is done or in error by then.
RunsEnd ==
  /\ running ~> ~running
  /\ \A i \in Ids : i \in pending ~> /\ i \in DOMAIN items
                                            /\ items[i].status \in {"Done", "Error"}
=============================================================================
