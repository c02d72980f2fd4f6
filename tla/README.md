# A TLA+ development of ByteSize (HuffmanV7)

ByteSize is a Flask application around a Huffman compression engine.  A signed-in
user uploads files, the engine turns them into AFC containers, and the
service keeps the results: for a moment in memory, and durably as private files
beside a database.  This directory models what the code does, checks it with
TLC and proves the core of it with TLAPS.

Paths such as `app.py:148` are files and lines of the repository.

## 1. Inventory

| Component | Code | State | Operations | Interacts with |
|---|---|---|---|---|
| Durable artifact storage | `app.py`, `artifact_store.py`, `db.py`, `admin.py`, `schema.sql` | tables `users`, `compression_history`, `stored_artifacts`; files in `RESULT_STORAGE_DIR`; database locks | store a result or an archive, download, delete, retention pass, close account, reconcile at boot, reset | every request; both database backends; local or remote store |
| Result cache | `app.py` `RESULTS`, `_stash`, `/download` | dict token → result, at most `MAX_KEEP` | stash and evict, look up | compress, decompress, archive requests |
| Remote object store | `storage_supabase.py` | bucket of objects, parts and manifests | put, get, exists, delete, list | `artifact_store` calls it in place of the file system |
| Accounts, sessions, rate limit | `auth.py`, `admin.py`, `db.py` | `users`, `login_attempts`, `app_meta.session_epoch`, cookies | login, register, change password, disable, enable, delete | every request through `before_request` |
| Database layer | `db.py`, `db_pg.py`, `schema*.sql` | connections, open transactions | connect, begin exclusive, commit, migrate | all of the above |
| Batch queue | `static/js/queue.js`, `app.py` `api_batch` | queue, results, batch id, running flag in the page | add, remove, clear, run, sort | one request per file, strictly in sequence |
| Preset ladder | `presets.py` | shared thread pool, futures of one search | compress under each profile, keep the smallest | `afc2`, `containers` |
| Container routing | `containers.py` | segments of one input | plan, merge, validate, build and rebuild AFC3/4/6 | ladder (as its `compress_fn`), `deflate_tokens` |
| DEFLATE recipes | `deflate_tokens.py` | token list of one stream | transform, restore | `containers` |
| AFC codec | `afc.py` | – (pure) | code lengths, canonical codes, AFC1/AFC2 read and write | `afc2`, `containers`, `analysis` |
| Structural search | `afc2.py` | – (pure) | candidates, segmentation, growth, audit | `afc`, native library |
| Envelope, archive | `afc5.py`, `afcpak.py` | – (pure) | wrap, parse; pack, unpack | requests, `afc2` |
| Native and browser engines | `afc_native.*`, `afc_engine.js` | loaded library | the engine again | `afc2` |
| Reports, analysis, UI | `analysis.py`, `filetypes.py`, templates, JS | – | read-only | – |
| Benchmarks, tools, tests | `benchmarks`, `tools`, `tests` | – | measure, test | – |

What is hard here, and what must be right:

* **Storage.**  A stored result is three things written separately: a history
  row, a file and an artifact row, on two database connections.  Requests
  overlap (the development server is threaded, `app.run`, and the reservation
  is written to serialise "across threads/processes", `db.py:469`), statements and
  file operations fail, connections drop, processes die.  An account must
  stay below its quota, an acknowledged result must stay whole, failures must not leave
  rows or files behind, and no lock may stay held.
* **Remote store.**  No transactions at all, calls that fail after taking effect,
  removals that take effect in part.
* **Result cache.**  A shared dict without a lock, and a bound that one
  request can exceed on its own.
* **Accounts.**  Check-then-act in the rate limiter; cookies that outlive their
  account, and a reset that gives old ids to new accounts; starts that overlap on an
  empty disk and die halfway; a seeded password that must not be used for anything.
* **Requests on containers.**  What is saved must be readable, and a verdict of
  "verified" true, with two pages that reach it in code of their own and a
  history to which every decompression adds rows.
* **Ladder, routing, search, codec.**  Results must not depend on the order in which
  searches finish, segments must tile the input exactly, symbols and dictionary must
  stay in step through merges, audits and renumbering, code lengths must stay decodable
  at the depth limit, and a damaged stream must not decode to something else.
* **Batch queue.**  Files added while a batch runs, limits that arrive late,
  answers that do not arrive at all, totals and batch ids of different runs.

`PROJECT.json` lists all components with their status, and every hazard at its
line with the properties that cover it.

Production runs one gunicorn worker with one thread (`Procfile`,
`Dockerfile:57-62`), so there requests do not overlap, except in deployments with several
replicas and while a replaced worker is still draining.  The models allow
overlap because the code is written for it.

## 2. Plan

Everything planned is written; the order was that of importance.

1. `ArtifactLifecycle` (core), with `StorageLedger` as its abstract
   specification.  Runs `artifact_postgres`, `artifact_sqlite`,
   `archive_failure_postgres`.  Proofs in `ArtifactLifecycle_proofs`.
2. `RemoteStore`: runs `remote_store_faults`, `remote_store_delete`; proofs in
   `RemoteStore_proofs`.
3. `Accounts`: run `accounts`; proofs in `Accounts_proofs`.
4. `Envelope`, and `Workspace`, which composes it with `ResultCache`: run
   `workspace_requests`; proofs in `Workspace_proofs`.
5. `HuffmanCode`, and `StructuralSearch`, which composes the search with it: run
   `structural_search`; proofs of the search in `Search_proofs`.
6. `PresetSearch`: runs `preset_search`, `preset_guard`; proofs in
   `Search_proofs` too.
7. `TokenRecipe`, and `ContainerTiling`, which extends it: run `container_tiling`;
   proofs in `ContainerTiling_proofs`.
8. `BatchQueue`: run `batch_queue`; proofs in `BatchQueue_proofs`.

`RecursionLemmas` serves the proofs of 4, 5 and 7: induction, recursive functions, folds and
sorting in a form the provers can use.

What could follow: proofs about the codes and the bit streams of `HuffmanCode`; a composition of
`BatchQueue` with `ArtifactLifecycle`, so that a lost answer meets a full quota; the sorting and the tree extras of the page.

Every module is written so that it can be proved about: parameters are `CONSTANTS` with named
assumptions, one action per operation, no `RECURSIVE` operator anywhere.

## 3. Modules

### ArtifactLifecycle

The life of stored results under any number of request handlers (`Procs`).

| State | Code |
|---|---|
| `users`, `rows`, `owner`, `parent`, `bytes` | committed `users` and `compression_history` rows; columns `user_id`, `parent_history_id`; length of the container |
| `art` | `stored_artifacts.integrity_status`, `None` without a row |
| `file` | absent, partial (temporary), intact or damaged file |
| `lock` | SQLite's one writer lock, or PostgreSQL's advisory lock per account |
| `pc`, `job` | where each handler is and its local variables |
| `up` | the service runs |
| `fate`, `clean` | history variables: what clients were told, and whether a clean-up step failed or a crash hit a request |

A step is one database statement with its commit, one file operation, or the
start of a request.

| Actions | Code |
|---|---|
| `BeginStore`, `AddHistory`, `AddHistoryFails` | `_ensure_storage_capacity` (no lock) and `add_history` |
| `Reserve`, `ReserveFails` | `db.storage_reservation`: lock, sum, compare |
| `WriteTemporary`, `Publish`, `WriteFails` | `artifact_store.write`: temporary file, rename, `finally` |
| `Commit`, `InsertRefused`, `CommitFails` | `add_stored_artifact` and the commit; refused foreign key; failed or hidden commit |
| `UndoFile`, `Undo`, `UndoFails` | the `except` clauses of `_persist_history_artifact` |
| `AddMember`, `AddMemberFails`, `ArchiveUndo...` | the member loop and the handler of `api_archive_create` |
| `BeginDownload`, `ReadVerified`, `SetIntegrity...` | `download_stored` |
| `BeginDelete`, `DeleteFile...`, `DeleteRow...` | `delete_stored` |
| `BeginPrune`, `Prune...` | `_prune_expired_artifacts`, one transaction over the pass |
| `BeginDeleteUser`, `DeleteUser...` | `admin.delete_user` under `db.user_deletion_lock` |
| `Crash`, `Boot`, `Rot` | process death, which is the environment's; `create_app` with `_reconcile_artifact_store`; a decaying disk |

Abstractions.  A file is named by the history row it is written for:
`artifact_store.write` draws a fresh key and a row is persisted at most once.
The age of results is open, so retention may name any rows.  A commit hidden by
a lost connection is modelled where it matters most, at the artifact's commit;
the other statements take effect or fail.  Removing one file is one
step that takes effect or raises.  A download that cannot open or read a file that is
there calls it corrupt (`Verdicts`), although nothing is wrong with it; and where `StatFails`,
`os.path.isfile` may answer `False` for it, so that a download or a start calls it missing.  On PostgreSQL, writers do not wait
for each other except at the advisory lock; on SQLite every write waits for
the writer lock, and a refused foreign key leaves the implicit transaction (and
the lock) open until the handler commits or the request ends.  `db_pg.py` opens
connections with `autocommit=False` and the request's connection is never rolled
back, so a statement that follows a failed one fails too; `UndoFails` and
`AddMemberFails` follow from that.

### StorageLedger

What storage promises to owners: a ledger from which results are deposited within the
quota, withdrawn, or closed with their account.  `ArtifactLifecycle` implements it
(`KeepsLedger`), with the artifact rows as the ledger; all other steps stutter.

### Accounts

Accounts, sessions, the login rate limit and the start of a worker, from an empty
disk on.

| State | Code |
|---|---|
| `keyfile`, `key` | the file of `SECRET_KEY_PATH` and every worker's `app.secret_key` |
| `schema`, `have` | how far tables and columns have been made; what `_migrate` of a worker has read of them |
| `epoch` | `app_meta.session_epoch` |
| `users`, `lastId` | the table `users` and its `AUTOINCREMENT` |
| `failures` | rows of `login_attempts` inside the window |
| `files` | stored results, by the account they belong to |
| `sessions` | every cookie sent so far; a browser may send any of them at any time |
| `pc`, `req` | where each worker is, and the row its handler goes by (`g.user`) |
| `reset`, `listed`, `blind` | where the command `reset_db` is, what it has listed, and whether the store hid or kept a file without saying so |
| `made`, `epochs` | history variables: numbers for accounts and epochs, so that accounts that share an id can be told apart |

| Actions | Code |
|---|---|
| `CreateKey`, `WriteKey`, `ReadKey` | `_installation_secret` |
| `Schema`, `ReadColumns`, `AddColumn`, `Epoch` | `init_db`, `_migrate` |
| `Seed`, `InsertAdmin` | `_seed_admin` |
| `StartDies` | a process that ends while it starts |
| `Count`, `Check`, `RecordFailure`, `SignIn`, `Expire` | `login` with `is_rate_limited` and the passing of time |
| `Validate`, `Insert` | `register` |
| `AskChange`, `Change` | the forced and the voluntary change of password |
| `AskWork`, `Work` | any other protected page |
| `AskToggle`, `Toggle`, `AskDelete`, `Delete` | the administrator's pages |
| `ResetBegins` to `ResetSeed`, `ResetEnds` | `reset_db` and its interruption |

`Valid` is `current_user`, `Admitted` the hooks `_load_user`, `login_required` and
`role_required`.  A request goes by the row it read when it was let in
(`Enter`) and not by the one that is there when its statement runs.  The reset is
run with the server stopped, as its documentation says.  It does not look at what
`artifact_store.delete` answers, and the remote store answers `False` for every error, so a file may
stay although nothing was raised (`ResetRemoves`).

### Envelope

The AFC5 envelope and the AFCPAK archive as pure functions on sequences of cells: a
magic, a number, a digest, a byte of a name, a manifest, a coded body.

| Definitions | Code |
|---|---|
| `Utf8`, `Decodable`, `Chars`, `Basename`, `Strip`, `SafeName` | `safe_name`, `_encode_name` and the decoding in `parse` |
| `Wrap`, `Parses`, `Unwrapped` | `wrap`, `parse` with its checks in their order, `decompress` |
| `Inner`, `Restored` | the containers below, and the dispatch of `afc2.decompress_bytes` |
| `SafePath`, `Packs`, `Pack`, `HasManifest`, `Member`, `Unpacks` | `afcpak.py` |

A digest is what it was taken of, so that two digests are equal only where the contents are.
The engine is exact; a body that is damaged decodes to something else, which AFC1 to
AFC6 cannot notice.  Names keep what `safe_name` looks at: separators, blanks, control
characters, and characters of two bytes, which the cut to `MAX_NAME_BYTES` may split.
`Without` drops cells, as the filters over characters and path components do.

### ResultCache and Workspace

`ResultCache` is `RESULTS` under threads, at the grain of the dict operations of `_stash`:
insert, `len`, `iter` (which remembers the size), `next` (which raises when it changed), `pop` (which
raises when the key is gone).  Tokens are numbered by insertion, the order in which a
dict iterates.

`Workspace` drives it with the requests that make and read containers, over `Envelope`.

| State | Code |
|---|---|
| `held`, `damage`, `nested` | the container the user keeps, what it was made from, how often it was damaged and wrapped again |
| `rows` | `compression_history`: operation, digests, verdict; and the truth, which only the model knows |

| Actions | Code |
|---|---|
| `CompressText`, `CompressAgain` | `_process_one` and `api_compress`, explicit nesting |
| `Import` | a bare container of an older version, in the history or not |
| `Decompress`, `DecompressBatch` | `api_decompress`; `_process_one` on a container |
| `CreateArchive`, `ExtractArchive` | `api_archive_create`, `api_archive_extract` |
| `Damage` | any one cell changed, the end lost, something appended, the border between name and payload moved |
| `CacheStep` | the steps of `_stash` |

### RemoteStore

The bucket as a set of objects.  `UploadPart`, `Publish`, `PutFails` and `Rollback`
are `put`; `DeleteHead`, `DeleteHeadFails` and `DeleteRemove` are `delete`; `GetHead`,
`GetPart`, `GetFails` and `Exists` are `get` and the check after it.  `Commit`, `DropRow`
and `SetIntegrity` are the metadata statements of the callers.  A failed
upload may have been made, a failed removal may have removed a part, `exists`
may answer `False` because the bucket could not be asked, and a process may die anywhere.

Parts are numbered from 1 and object 0 is the manifest (or the whole
of a short result).

### PresetSearch

One call of `presets.compress_with`: the router of `containers.py` asks for
the best result of a component, then of the whole file, and each of these
questions is a *ladder* of search profiles whose rungs run as jobs in one thread
pool that all requests share.

| State | Code |
|---|---|
| `stage`, `plan` | where `compress_with` and `compress_container` are; what the analysis of the file found |
| `start`, `awaited`, `results` | `_run_ladder`: the batch, its futures, the list of results |
| `found`, `whole`, `answer` | the verified candidates, the cached ladder of the file, the return value |
| `queue`, `running` | the pool: waiting and running jobs |
| `size`, `fails` | what the engine gives for each rung and buffer; jobs that raised |

| Actions | Code |
|---|---|
| `Begin` | the analysis, whose outcome is open |
| `Submit` | one batch of `_run_ladder`, or one rung on the request's own thread |
| `StartJob`, `JobDone`, `JobRaises` | the pool's workers and `as_completed` |
| `Candidate`, `Route`, `Guard` | `compress_container`: keep a verified wrapper, take the shortcut or compare with the plain file |
| `KeepWhole`, `Plain` | `searched` and its cache, the fall-back to the plain file |

The engine is deterministic, so the size of a rung for a buffer is arbitrary but
fixed.  The sizes of a component's rungs stand for the length of the finished
wrapper.  A request whose rung raised leaves the rest of its batch in the pool;
`Listens` tells those jobs from the ones that are waited for.

### HuffmanCode and StructuralSearch

`HuffmanCode` is the entropy coder behind every AFC1 and AFC2 container, as a machine that takes one
turn of a loop at a time and whose result is fed into the next stage: weights to code
lengths, lengths to codes, a text and a dictionary to bytes, bytes back to
data.

| Actions | Code |
|---|---|
| `PackageLevel`, `CountPackages`, `TooManySymbols` | `package_merge_lengths` |
| `TakeTwo`, `RootReached`, `SingleSymbol` | `huffman_lengths` |
| `Emit` | the container is put together |
| `PackDictionary`, `PackSymbol`, `PackEnd` | `emit_afc2`, `pack_ids`, `BitWriter` |
| `Refill`, `LookUp` | the table decoder of `_decode_bitstream`, with `Table` for `_build_decode_lut` |
| `WalkBit`, `WalkTruncated` | its bit-by-bit decoder for codes longer than 16 |
| `DictionaryRead`, `TextRead` | `decompress_bytes` between and after the two streams |

`StructuralSearch` puts the search of `afc2.py` in front of it.

| State | Code |
|---|---|
| `data`, `floor`, `refund` | the input, the admission floor of the trial, `options.refund` |
| `ids`, `entries` | `ids` and the list of patterns of `_compress_core` |
| `turn`, `pass` | the rounds left of the loop that runs; which of the loops it is |

| Actions | Code |
|---|---|
| `Select` | `_tier2_ngrams`, `_tier3_words`, `_select_candidates`, `_segment_greedy` |
| `Grow`, `Grown` | a round of `_grow_blocks`; its end with `_final_audit` |
| `CountIds` | `_build_lengths`, whose loop is `HuffmanCode`'s |
| `ParseRound` | `_segment_optimal` over the lengths of the round before |
| `FinalAudit` | the last audit |
| `EmitFound`, `PackNext`, `PackFound` | the coder, on what the search has found |

Without a search the coder starts with arbitrary weights, and then
the text is arbitrary and not the one the weights were counted in, the
dictionary arbitrary too, and whether it is packed is left open where the code
decides by size.  All patterns have one length.  The header is carried without loss.
Bytes have `ByteBits` bits, so that codes straddle bytes although they are short.
The two queues of `huffman_lengths` are one ascending list: merges come out in
ascending order, and a leaf is preferred to a merge of the same weight.

### TokenRecipe

A DEFLATE stream as block headers, tokens and padding, the bytes it stands for, and
the recipe that gives the stream back.

| Definitions | Code |
|---|---|
| `ReadHeader`, `ReadStored`, `ReadToken`, `Read`, `Recipe` | the loop of `transform`: output, literal runs, records, the limit on the output |
| `AppendMatch`, `MatchFits` | `_append_match`, which copies byte by byte and so from its own output |
| `RestoreHeader`, `RestoreStored`, `RestoreToken`, `Complete`, `Restore` | `restore`, with every condition under which it raises |
| `Verified`, `Transform` | the comparison at the end of `transform` |
| `TransformZlib`, `RestoreZlib` | the zlib forms: header, sum, verification |

A function that raises is modelled as one that returns nothing (`{}` or `<<>>`).  A recipe
keeps the bits of a block header and both sides build the same code tables from them, so
codes are left out; bits and the coding of the tables are not modelled.  Of the alignment there
remains what decides whether a stream comes back: `restore` reads each header again as though it
began a byte (`_header_trees`), so it finds the length of a stored block, which `align()` has
to skip to, only if the header did begin one (`ReadsAgain`).
`Streamed` says which cells a stream may hold.

### ContainerTiling

One call of `containers.compress_container` up to its candidates, and the readers of
what it writes.

| State | Code |
|---|---|
| `file`, `inventory` | `data`; what `pdf_components` or `zip_components` made of it |
| `phase`, `pos`, `found` | which analysis runs, where it is, its `segs` |
| `segs` | the plan: of `plan`, then of `pdf_transform_plan` or `docx_transform_plan` |
| `blob`, `kept` | the container written last, the members of `candidates` |

| Actions | Code |
|---|---|
| `ScanStream`, `ScanLocal`, `ScanMember`, `ScanEnds` | `analyze_pdf`, `_analyze_zip_local`, `analyze_zip` |
| `Plan` | `plan`: `_merge_adjacent` and `_validate_tiling` |
| `Direct` | the viability gate, `build_afc3`, `decompress_afc3` and the comparison |
| `TransformMember`, `TransformStream`, `StreamsOverlap` | the loops of `docx_transform_plan` and `pdf_transform_plan` |
| `TransformEnds` | their ends, `_build_transformed_container`, `_decompress_transformed_container` and the comparison |

`Build` writes all three formats and `Decode` reads them: AFC3 is the case without
transformed segments.  What parsers find is open: any components of the
file in any number up to a bound, overlapping or empty ones included, and a search
may stop at any point; only a stream that is to be transformed is not empty, since
`pdf_components` finds it between two keywords (`Streams`).  A cell stands for a stretch of bytes, a number takes one
cell.  The engine is exact and refuses a damaged stream (`HuffmanCode`), so a
damaged container is one that is cut or followed by something.  The choice among the
candidates is `PresetSearch`'s.

### BatchQueue

The compress page and the requests it sends, one per file.  Page code runs to
completion, so a step of the page is one event handler with everything it calls.

| State | Code |
|---|---|
| `items`, `queue` | the objects of `queue`, with `status` |
| `results`, `panel` | `results`; the results panel as last rendered, with the batch id in its export links |
| `running`, `batch`, `pending`, `total` | `running`, `batchId`, and the closure of `runQueue`: what is left of `pending`, `totalBytes` |
| `shown` | the table as last drawn by `renderQueue`: its rows, its remove links, the run button |
| `cfg` | `CFG` has arrived |
| `awaited`, `reply` | the `fetch` in flight and the answer on its way |
| `serving`, `rows` | requests the server works on; the history rows it has written |
| `lost`, `slips` | history variables: answers that did not arrive, errors answered for a file that was stored |

| Actions | Code |
|---|---|
| `ConfigArrives` | `fetch("/api/config")` |
| `AddFile`, `RejectFile` | `addFiles` |
| `RemoveFile`, `Clear` | the remove link, the clear button |
| `Run` | the run button and `runQueue` up to the first request |
| `Hear`, `AnswerLost` | the two ways a `fetch` settles, and `next` |
| `Store`, `Refuse` | `api_batch`, with the row and without it |
| `StoreUnheard` | `api_batch` answers an error although the row is committed: `_stash` raises after it (`app.py:594`, `app.py:123`), or the undo of a refused artifact fails (`app.py:165`, `app.py:180`) |

`Render` is part of every action whose handler ends in `renderQueue`; it
changes statuses, so it is more than a view.  A drop brings one file.  The queue keeps the order
in which files came, so what a run has still to send is a set, taken from the lowest up.  Items and
batch ids, objects and random strings in the code, are numbered.  A lost answer may be one
whose request never reached the server, is still being worked on, or is done.

## 4. Runs

| Run | Question | Bounds |
|---|---|---|
| `artifact_postgres` | quota, durability, clean-up, account closing and the ledger, with two accounts whose locks are independent | 2 accounts, 2 rows, 2 requests, size 2, limit 3, archives of 1 member; `isfile` can look |
| `artifact_sqlite` | the same core under the single writer lock (`StorageSound` joins the three safety properties of storage), failed archives, and liveness: requests end, locks are released, a store whose account was closed undoes itself | 1 account, 2 rows, 2 requests, size 2, limit 3; `isfile` may fail |
| `archive_failure_postgres` | does a failed archive disappear? **No** | 1 account, 2 rows, 1 request |
| `remote_store_faults` | nothing saved is torn; nothing stray and nothing called missing that is there, as long as failed calls had no effect | 2 keys, 2 requests, up to 2 parts |
| `remote_store_delete` | does the row go last? **No** | 1 key, 1 request |
| `accounts` | rate limit, sessions, seeded password, an administrator, whole starts, files before accounts | 2 workers, 2 names, 1 failed login allowed, 2 columns to migrate, 3 accounts, 1 reset |
| `workspace_requests` | is everything saved readable, every verdict true and the same on both pages, damage refused, the cache within its bounds? | 2 threads, `MAX_KEEP` 2, 4 tokens; 3 texts (one empty), 4 names, 3 paths, 2 kinds of container, archives of 2 files, 1 damaged cell, 1 nesting |
| `structural_search` | is every parse the cheapest, do dictionary and symbols stay in step, are codes optimal and complete, does everything come back, is a cut file refused? | all 32 files of 6 bytes over two values that begin with 0, and 4 of 9 to 11 bytes that repeat themselves; dictionary of 3, blocks of 6, 2 merge and 2 parse rounds; weights 1 and 3 over 5 symbols, limits 2, 3 or none, 3-bit bytes, table up to 2 bits, 1 byte lost |
| `preset_search` | does the answer depend on scheduling or failures, does memory stay in the budget, does a request end? | 1 request, 4 rungs, sizes 1 and 2 (1 for the second component), pool of 4 with 4 processors, costs 1, 5 and 2 with a budget of 4, 1 exception |
| `preset_guard` | is the answer never larger than the plain file's? **No** | 1 request, 2 rungs, 3 sizes, pool of 4 |
| `container_tiling` | whatever the parsers find, do plans tile, do streams and containers come back or get refused, does the engine get what it should? | files of up to 3 pieces, at most 2 of them coded; inventories of up to 2 components; `MinSegment` 2, 11 cells of expansion, ratio 3, early probe at 2 streams |
| `batch_queue` | limits kept, results and table true, every run ends | files of 1, 2 and 4 bytes and one out of scope; limits 3 a file and 4 a batch; 3 drops, 2 runs, 1 lost answer, 1 error for a stored file |

Why the bounds are enough.  Every property of storage relates at most two requests and two results of one
account, or one account and another.  Two rows allow two competing results, or an
archive and its member; a limit of 3 with size 2 takes one of them,
leaves room that is not enough for the second, and breaks when any check lets it in.  Two requests give every pairwise interleaving, such as a store against the closing of its
account or a retention pass against a delete.  Rows are never reused (`AUTOINCREMENT`), so behaviours
stop being able to store once both are used, while everything else goes on.  The proofs
of section 6 lift all these bounds.  Two
parts are the fewest a manifest may have; `RemoteStore` switches the deadlock check off
because it stops when its keys are used up.

In `accounts` two workers are the fewest that start, or try passwords, side by side;
three accounts let one be deleted and its name be registered again beside the
administrator, and one reset gives ids out a second time while the cookies of the
first life are still around.  Two columns let a migration die, or another worker's run,
between them.

In `workspace_requests` the names are those on which the steps of `safe_name` interfere:
nothing left, a control character before a blank, a cut through a character, a cut behind a blank.
The paths are one that stays what it is, one that climbs, and one that begins like a drive once its dots are
gone.  Two members are the fewest whose extents can be confused.  One damaged cell suffices because
a digest either covers a cell or does not.  The run also
contains the case the code refuses itself: a name that `safe_name` makes and
`parse` rejects.  `Threads = 2` with `MAX_KEEP = 2` is the tightest cache
`KeepEnough` admits; the theorem about it holds for any number.  Its deadlock check is off because tokens run out.

The files of `structural_search` include ones where blocks grow over blocks, where an
entry stops paying once a larger one exists, and where the second parse differs
from the first.  `ByteCost` and `EntryBytes` are smaller than in the code so that texts
this short have a dictionary that pays; the bounds are reached (dictionary full,
block at its longest).  The five symbols of the free coder are the fewest that do not fit limit
2, do fit limit 3, and give codes of 4 bits without a limit.  With the table decoder ending at 2 bits, both decoders run,
and a byte of 3 bits is cut by codes of each length.

The three costs of `preset_search` with a budget of 4 give the three ways a
ladder is run: all at once (component, cost 1), in two batches of two (file, cost
2), and one after another on the request's thread (second component, cost 5).
The pool has 4 workers, the fewest `presets.py:218` makes, so it would take all four rungs of the
file at once, at twice the budget: what keeps the bound is that a batch waits for the one before,
and the mutant that drops this breaks it.  Four rungs are the fewest for that, and two
sizes are the fewest for ties.  The jobs that a ladder abandons after an exception, up to three, compete with
the next ladder of the request, whose batch then does not fit beside them.  Other
requests compete in the same way, but are not part of this run: two of them make it too large for TLC, and what
is proved of the ladder holds for any number.  Deadlock checks of both runs are off
because a request that has returned is over.

In `batch_queue` two files of 2 bytes fill a batch and a third file exceeds it, the
4-byte file breaks the file limit on its own, and the same file may be dropped twice.  Three
items allow a run of two with one dropped in between, two runs allow results of
different batches, one lost answer shows each of its outcomes, and one error for a stored file
(`MaxSlips`) is a second way for a file to be stored without the page knowing, beside or without the first.  Its deadlock check
is off because a user may stop clicking.

In `container_tiling` the pieces are text, one small and one larger piece of high
entropy, and streams: one with a match that overlaps itself, one with a stored block
before a coded one and with padding, one with a stored block behind a coded one that ends in the middle
of a byte, as a flush leaves it (it is read, and then refused), one that expands to twice its length, and in ZIP files
one whose match reaches too far back and one followed by more than padding; in PDF
files one whose sum is wrong.  Two coded pieces are the fewest that share
a budget; 11 cells admit two small expansions or one large one.
Components may cover one piece or the first two, so that they overlap, or be empty.
Every container written is also read after each cut.  Its deadlock check is off because
the call returns.

Symmetry is used where threads, keys or rows are interchangeable and only safety or
step properties are checked.

What the runs that end in a violation show:

* `FailedArchiveGone` — `tests/test_app.py:1500` states that a failed archive
  leaves nothing.  On SQLite that holds (`artifact_sqlite` checks it, `FailedArchivesGo` proves it).  On
  PostgreSQL, when a member row cannot be inserted, the clean-up begins with a
  query on the aborted connection, which raises; archive, file and quota usage stay.
* `RowGoesLast` — `SCOPE_NOTES.md:125` says blobs are removed before the row.
  `storage_supabase.delete` turns every error into `False`, which nobody reads.
* `NeverLargerThanPlain` — the docstring of `compress_container`
  (`containers.py:1378`) and `CHANGES_v7.md:241` say a component container is only
  emitted when it beats the plain whole-file one, and `tests/test_app.py:2541`
  tests it on small files.  When 90 % of a file of 64 KB or more is opaque,
  `containers.py:1463` returns the AFC3 without that comparison.  Opaque bytes may still
  repeat: for a PDF of 73,705 bytes whose image stream is one
  permutation of the 256 bytes, 280 times over, the service returns an AFC3 of 72,382
  bytes, and the whole-file path gives 3,918.  `GuardKept` is what does hold.

Seen while reading, not the subject of a run:

* `app.py:1038` promises a download token per member.  With
  more members than `MAX_KEEP` the first tokens are evicted before the answer is sent.
* `safe_name` (`afc5.py:48`) is not idempotent.  A name such as a control character
  before a blank, or one cut behind a blank, makes an envelope that `parse` calls "unsafe
  AFC5 filename"; the round trip before saving refuses the upload, so nothing unreadable
  is kept (`SavedReadable`), but the file cannot be compressed under that name.
* `afcpak.pack` tests for a drive before it drops empty and `.` components, so a path such as
  `./C:/x` passes and is stored as `C:/x`, which `unpack` refuses.  `api_archive_create`
  verifies the members it packs and does not unpack the archive, so such an
  archive is kept although it cannot be read.  `SavedReadable` says exactly that: an undamaged
  archive unpacks if and only if all its paths are `Settled`.
* The docstring of `_segment_optimal` (`afc2.py:262`) says ties go to literals; the
  strict comparison in the order of starts gives them to the symbol that starts first.
* `list_keys` answers nothing for a directory it cannot read, so `reset_db` may then drop
  the owners of files that stay (`blind` in `Accounts`); under PostgreSQL it removes the
  objects but remakes only the local SQLite file.
* A crash between creating the key file and writing it makes every later start fail.
  Two workers that migrate at once do not both start: the `ALTER TABLE` of the second fails.
* After a lost answer the page sends the next file while the server may still work on
  the one before, although `queue.js` says "STRICTLY SEQUENTIAL"; the part `OneAtATime` of `LimitsKept` therefore
  allows one more request for each lost answer.
* The results panel accumulates over runs, while its export links carry the id of the
  last run only.  `ExportShown`, a part of `ResultsTrue`, states the direction that holds.
* `_process_one` puts its result into the cache after history row and artifact are committed.  When
  `_stash` raises there because another thread evicts at the same time, the page shows an error for a
  file that is stored, and dropping it again stores it a second time.
* `restore` refuses a stored block that did not begin a byte (`RecipesExact`).  That is what a flush writes
  behind coded data wherever that ends inside a byte, so such streams are not transformed; only the gain is lost.
* A file that was rejected has no remove link but its bytes count in the batch
  total, so a queue over the limit may have to be cleared as a whole.
* `README.md:396` says extracted members stay in memory "until downloaded", while
  `download` removes nothing.
* `exists`, and with it boot reconciliation, take an outage of the bucket for a missing
  object (`RemoteStore`'s `Exists`).
* `delete_user` blanks audit rows by `instr(detail, 'target=' || name)`, which
  also finds users whose names begin with the deleted name.

## 5. Fairness

`FairSpec` of `ArtifactLifecycle` assumes weak fairness of each handler's next step, and of nothing else: neither
requests, crashes nor reboots must happen, and a handler may always take the
failing branch.  The code justifies this because no handler waits without
bound: SQLite's busy timeout turns waiting into an error, PostgreSQL's lock is let go with
its transaction, and every statement returns or raises.  Symmetry is not
used in the liveness run.

`FairSpec` of `PresetSearch` assumes that a request's thread and the pool's workers get to
run, and that a search that has started ends, by a result or an exception: the
engine's loops are bounded by the input.  Nothing makes a job succeed.

`FairSpec` of `BatchQueue` assumes that the server ends each request and that an answer which
is not lost is heard.  No user is made to click.

`Accounts`, `RemoteStore` and `Workspace` state no liveness.  A start may fail for ever
(the empty key file above), a bucket may stay away for ever, and a request may die
of a race in `_stash`; nothing in the code promises more.

## 6. Proofs

TLAPS proves these for every value of the constants, where TLC checks one.  Each proof has the
same shape: an inductive invariant, one lemma per action that keeps it, and
`Spec => []...` from the two by `PTL`.

| Module | Theorems (property) | Assumptions on constants |
|---|---|---|
| `ArtifactLifecycle_proofs` | `TypeCorrect`, `QuotaSafe` (`QuotaHeld`), `ResultsStay` (`ResultsKept`), `MissingSaidTruly` (`MissingIsTrue`), `NothingLeftBehind` (`NoResidue`), `StoragePromise` (`StorageSound`), `ClosedAccountsEmpty` (`ClosedAccount`), `FailedArchivesGo` (`FailedArchiveGone`, on SQLite), `FilesFirst` (`FilesGoFirst`), `LedgerKept` (`KeepsLedger`) | `RowsFinite`, `SizesNatural`, `LimitNatural`, `BackendKnown`, `NoneIsFresh`, `NoneIsNoEntry` |
| `RemoteStore_proofs` | `TypeCorrect`, `ResultsWhole` (`StoredWhole`), `NothingStrays` (`NoStrays`), `MissingSaidTruly` (`MissingIsAbsent`) | `PartsNatural`, `NoneIsFresh`, `NoneIsNoLength` |
| `Accounts_proofs` | `TypeCorrect`, `RateLimit` (`AttemptsBounded`), `SessionSafety` (`SessionsOwn`), `SeedPassword` (`SeedPasswordUnused`), `AdminStays` (`AdminRemains`), `StartSafety` (`StartedWhole`), `FilesFirst` (`OwnersOutliveFiles`) | `WorkersFinite`, `AdminNamed`, `BoundsNatural`, `KeysDiffer` |
| `Workspace_proofs` | `CacheSafe` (`CacheKept`), `VerdictsAgree` (`PathsAgree`), `VerdictsAreTrue` (`VerdictsTrue`), `DamageIsRefused` (`DamageRefused`), `SavedIsReadable` (`SavedReadable`) | `ThreadsFinite`, `KeepNatural`, `KeepEnough`, `UploadsTyped`, `EngineMagics`, `NameBytes` |
| `Search_proofs`, on `PresetSearch` | `TypeCorrect`, `SameAnswer` (`Reproducible`), `GuardHolds` (`GuardKept`), `BudgetHolds` (`BudgetKept`) | `LadderLong`, `SizesNatural`, `CostsPositive`, `PoolNatural` |
| `Search_proofs`, on `StructuralSearch` | `DictionaryIsTight` (`DictionaryTight`), `ParseIsBest` (`BestParse`), `ParsesAreAll`, `NoneShorter`, `SearchLosesNothing` | `LiteralsBelow`, `SearchBounds` |
| `ContainerTiling_proofs` | `PlansHold`, `NothingLost` (`LosslessOrRefused`), `EngineFed` (`EngineInput`) | `LimitsNatural`, `FilesTyped` |
| `BatchQueue_proofs` | `TypeCorrect`, `TableFresh` (`RowsFresh`), `ResultsAreTrue` (`ResultsTrue`), `LimitsAreKept` (`LimitsKept`) | `SizesNatural`, `BoundsNatural`, `NoneFresh` |
| `RecursionLemmas` | lemmas only: the least number, induction, recursive functions, folds, flat sequences, sorted sets | none |

The arguments:

* **Quota.**  `QuotaHeld` speaks of committed artifacts only and is not inductive: between
  the comparison of `storage_reservation` and the commit, it is the
  handler's lock that keeps the room it found.  `IInv` adds `Roomy` (whoever has reserved
  holds the account's lock and still has room), `Named` (a store works on a row of its own
  user), `StoredOwned` (an artifact's row belongs to somebody) and `Counted` (what typing needs
  of local variables).  The sum over an account's results is the cardinality of a
  set of pairs (`UsedBy`), because a sum over a set is a recursion and a union of
  finite sets is not.
* **Results.**  `KInv` says of each row what a promise to a client implies
  (`RowsSound`), of each handler what it may still do to its row and file
  (`RequestsSound`), that two handlers never work on one new row (`Apart`), what holds as long
  as no clean-up has failed (`CleanSound`), and that a dead service has no handlers
  (`Stopped`).  `Apart` is what makes the undo of one store harmless to the others.  On top of it each step is shown to be a deposit,
  a withdrawal, a closing or a stutter of `StorageLedger`.
* **Remote store.**  One conjunct per key (what objects are there, whom they
  were said to be, and who holds them) and one per request (how far it
  got).  A key in the hands of a `put` is in nobody else's (`Private`), and its
  objects are exactly those the `put` knows of (`Loaded`), so that it can take them back; a key in the hands of
  a `delete` no longer counts as saved, and as long as failures are clean nothing that was called missing is there (`Judged`).
* **Accounts.**  `AttemptsBounded` is part of `IInv` as it stands.  `KeyKept` and
  `TablesKept` say how far a start has brought the key and the schema, which makes
  `StartedWhole` hold when the worker begins to serve.  A session of the current epoch denotes the account it
  was made for, or one that is gone (`SessionsSound`): ids are not reused within an epoch,
  and a new database has a new epoch.  `RowsSound` and `AdminKept` keep an active administrator
  from being disabled or deleted by a request that read its target earlier.
* **Cache.**  Tokens leave oldest first, so the cache is always an interval that ends with
  the newest (`Interval`), although a thread may hold a key that another has popped (`Marked`).  A thread
  that evicts saw more than `MAX_KEEP` entries and takes one at most (`Enough`), and a cache that
  is too full is always somebody's business (`Watched`).
  `VerdictsAgree` needs no invariant of the steps: it compares the two
  ways `Envelope` is used, for any container.
* **Ladder.**  A rung that is behind `start` and not awaited has its own result (`Filled`),
  so a ladder that is done has the array that a run in order would fill; that the job's stage and rung name the place
  it fills makes the order irrelevant, and a job of a ladder that was left is not listened
  to.  `FirstSmallest` is then proved to choose what `Smallest` defines.  For the
  budget, `Heard` says that until something raises every job is awaited and there once;
  its running jobs then map one to one into `awaited`, which `Batched` bounds by
  `WorkerCount`.  The statement has no exception for later because there is none to state: abandoned jobs
  run on beside the next ladder, and other requests do not share the budget.
  The theorem `MinExists` on which all minima rest is proved by the pigeonhole principle.
* **Dictionary.**  `DictionaryTight` speaks of one moment at a time; what keeps it is
  `SearchInv`.  From the first parse on, the entries are distinct and none is too long (`Listed`),
  every symbol is a literal or the number of an entry, and the symbols, written out, are
  the file (`InStep`).  Each round changes entries and symbols together.  The greedy parse is a recursion
  from the end of the file (`FromTheEnd`, `GreedyParses`).  Growing appends blocks, so old numbers keep their
  meaning (`ExtendedListed`), and gives a pair a number only when that entry spells the
  pair, whether the block is new or was there already (`ChosenBlocks`, `ReplacedSpells`).  The audit renumbers
  by a list that has each kept entry once, spells out the others, and
  leaves none that nothing uses (`AuditedSound`).  That there is such a list rests on the orders of the
  code being total: by gain and then by bytes, Python's order of byte strings
  (`LexTotal`, `LexTransitive`), so nothing is lost in sorting (`Enumerated`).
* **Parse.**  The table of `_segment_optimal` has at each place a sequence of symbols that writes the
  file up to there, with its price, and `AllUpto` sets it beside every sequence that does: the price of the
  best is no more than any of theirs, because a way to a place is a way to an earlier one
  and one symbol more.  Prices must be comparable for that, so the invariant follows the lengths too:
  through both loops that compute them the packages hold natural weights and symbols
  (`LengthsInv`), and what is counted in them are natural numbers.  `BestParse` compares with `Parses`,
  which is computed place by place so that TLC can list it; `ParsesAreAll` shows that this list is every
  sequence of literals and entries that stands for the file (its last symbol stands for the end of the file,
  and no symbol stands for nothing), so `NoneShorter` says the same of all sequences there are.
* **Packing.**  `PackInv` follows the container from there: nothing is written before `Emit`, then the dictionary is the
  one found and the text a beginning of the symbols found, and all of them once `PackEnd`
  is past.  With `SearchInv` what is packed stands for the file (`PackedIsFile`), and
  `SearchLosesNothing` says that `Lossless` can fail only where `RoundTrip` or `TruncationDetected`
  does: in the bits.

* **Requests on containers.**  `FInv` describes the file by what damage can make of it: an
  envelope still has the right digest or none (`WrapShape`), the entries of an archive too
  (`PackShape`), and a bare container has a history that knows of one original at most
  (`BareShape`, `Knows`).  `Truthful` then follows at each request, since an
  envelope that is read agrees with its digest and a bare container is compared with that one original.
  `SavedReadable` is inductive beside it because every step either saves what it has read
  back or damages what is there: each step is traced through `Wrap` and `Parses`, `Pack` and
  `Unpacks`, name by name.
* **Recipes.**  Reading a stream is a fold, whose states are followed cell by cell (`Tracks`):
  what has been expanded is what the records so far stand for, but for a run of literals or a stored block
  that is still open.  Restoring is a fold over those records, and is shown to be at each
  of them where reading was (`Follows`), so it ends with the stream (`Rewritten`).  The code compares
  the two as well (`Verified`).  The proof shows that for a stream whose stored blocks all begin a byte the
  comparison never fails, and that for any other `restore` raises at the first block that does not (`Refuses`), so that
  `transform` raises too and the stream stays as it is.
* **Plans.**  A plan is a chain of segments from the start of the file, without holes or overlaps
  (`Plans`).  Filling a gap, placing a segment and merging keep it one, and merging loses no
  segment except into its own kind (`Covered`).  `CInv` says for each phase how far the segments reach,
  that the next component of the inventory fits behind them (`Ahead`), and that a transformed
  segment restores to the bytes it replaces and is counted in the budget (`Proper`, `Drawn`).
* **Containers.**  `Laid` and `Frames` say where in a container its manifest, regions and lengths are.
  From that the fold that reads entries is known for the whole container and for each cut of it
  (`ManifestRead`, `Damaged`): a cut takes away an entry, a region or the end of one, and
  something appended is left over.  Putting the segments back takes from each region what each segment
  put there (`Trail`, `PutsBack`), so the result is the file (`Rebuilt`, `Decodes`).
* **Batch queue.**  The run is of files that nothing removes before it ends (`RunOfQueue`), an item is
  sent at most once (`SentOnce`), an answer tells the truth about its request
  (`AnswerTrue`), and requests that outlive their answer are counted by the losses (`LateWork`).
  `FewUnheard` sets what is stored, or may be yet, without the page hearing of it against the answers lost and the
  errors for stored files: each of them can leave one file behind, and nothing else can.  The limit on a batch rests on a set that no variable holds: the files that were in the queue
  together when the run began (`TotalsTrue`), whose bytes are the total every request carries.
* **Induction.**  The library's induction theorems are about predicates, which these provers cannot
  instantiate.  `RecursionLemmas` restates them for sets of numbers, and for a recursion whose
  step is a function, so that a set or a function is all there is to supply.  For folds the step is an operator of the
  module itself, supplied by `INSTANCE RecursionLemmas WITH Step <- ...`; `Unrolled` then gives the
  sequence of states of a `FoldLeft`.

Only model-checked:

* Liveness (`RequestsEnd`, `LocksReleased`, `OvertakenStoreUndone`, `RunsEnd`): fairness
  and `ENABLED` are beyond this prover.
* `CodesSound` and `Lossless` of `StructuralSearch`.  Codes, bit streams and both decoders are
  arithmetic with `2^n` for an `n` that is a variable, of which these provers know nothing, and that the
  codes are complete and the shortest possible is a statement about minima over all trees.  `Lossless`
  rests on it: the decoders find a symbol because no code begins another.  What is proved of the way there
  and back is its part before the bits (`SearchLosesNothing`).
* `NeverLargerThanPlain`, `RowGoesLast` and `FailedArchiveGone` on PostgreSQL, which do not hold.

## 7. Not modelled

`PROJECT.json` gives the reason for each component.  In short:

* The engines in C++ and JavaScript, whose agreement with the Python engine is a matter for the
  repository's differential tests.  Which backend answers is a function of the library found
  at import and has no state.
* The parsers of PDF and ZIP byte by byte: what they find is arbitrary in
  `ContainerTiling`, which is more than they can find.  Varints, header fields,
  checksums and bit order of the codec, code tables of DEFLATE.
* Read-only reports: file type detection, analysis, history, analytics, exports, the
  summary functions of the containers; templates, styles and the scripts that only show.
* Form tokens, the audit trail, redirects and wording; sorting and tree extras of the batch page.
* `afcpak.extract_to`, which the application does not call (two members that normalise
  to one path overwrite each other there).
* Deployment scripts, benchmarks, corpora, tools.
