----------------------------- MODULE Workspace ------------------------------
(***************************************************************************)
(* The requests of one account that make and read containers (app.py):     *)
(* /api/compress and /api/batch through _process_one, explicit nesting,    *)
(* /api/decompress, /api/archive/create and /api/archive/extract.  Each    *)
(* records rows of the history and hands its results over through the     *)
(* cache of ResultCache, where it races with the other threads.            *)
(*                                                                         *)
(* The user makes one container, or brings a bare one of an older version, *)
(* and keeps it; it may be damaged between requests.  What a request       *)
(* computes from its upload is one step; durable storage is                *)
(* ArtifactLifecycle's, and a refused request (size, scope, quota, an      *)
(* exception) changes nothing.                                             *)
(***************************************************************************)
EXTENDS ResultCache, Envelope

CONSTANTS
  Inputs,    \* texts that may be uploaded
  Filenames, \* names they may have
  Paths,     \* paths they may have in a folder
  Magics,    \* containers the engine answers with
  MaxItems,  \* most files in a folder (bound)
  MaxDamage, \* changes a file may suffer (bound)
  MaxNest    \* containers compressed again, one inside the other (bound)

ASSUME UploadsTyped ==
  /\ Inputs \subseteq [t : {"text"}, k : STRING, n : Nat]
  /\ Filenames \subseteq Seq(STRING) /\ Paths \subseteq Seq(STRING)
ASSUME EngineMagics == Magics \subseteq InnerMagics

VARIABLES
  held,    \* the user's file, and what it was made from
  damage,  \* changes it has suffered
  nested,  \* containers around its text
  rows     \* compression_history

user == <<held, damage, nested>>
work == <<vars, user, rows>>

Nobody == [file |-> Refused, truth |-> Refused]
Holds(f, truth, depth) ==
  held' = [file |-> f, truth |-> truth] /\ damage' = 0 /\ nested' = depth
Cells == held.file.cells
Single == held.file.t = "file" /\ Leading(Cells) \in InnerMagics \cup {Tag("AFC5")}
Archive == held.file.t = "file" /\ Leading(Cells) = Tag("AFCPAK")

\* A row of the history.  Its digests are the contents they are taken of,
\* Refused where the code leaves the column empty.  What the container was
\* made from, and whether it carries a digest of that, is known to the model.
Row(op, original, container, verified, truth, digest) ==
  [op |-> op, original |-> original, container |-> container, verified |-> verified,
   truth |-> truth, digest |-> digest]
MadeRow(original, container) ==
  Row("compress", original, container, TRUE, original, FALSE)

WorkInit ==
  /\ Init
  /\ held = Nobody /\ damage = 0 /\ nested = 0 /\ rows = {}

\* Mutation: the round trip is not verified.
Compressed_Unverified(data, f) == TRUE

\* The round trip that precedes everything that is saved.
Compressed(data, f) == Restored(f.cells) = data

\* A text, or with action=compress the container the user holds, is wrapped,
\* verified, recorded and kept.
Compress(t, data, depth, name, magic) ==
  LET f == Wrap(data, Payload(magic, data), name) IN
  /\ Size(data) > 0
  /\ Compressed(data, f)
  /\ rows' = rows \cup {MadeRow(data, f)}
  /\ Holds(f, data, depth)
  /\ Begin(t, 1)

CompressText(t, data, name, magic) ==
  held = Nobody /\ Compress(t, data, 0, name, magic)

\* A damaged file is like any other data, and not compressed again.
CompressAgain(t, magic) ==
  Single /\ damage = 0 /\ nested < MaxNest /\ Compress(t, held.file, nested + 1, <<>>, magic)

\* The user brings a container from before AFC5, known to the history or not.
Import(data, magic, known) ==
  LET f == File(Payload(magic, data)) IN
  /\ held = Nobody
  /\ Holds(f, data, 0)
  /\ rows' = IF known THEN rows \cup {MadeRow(data, f)} ELSE rows
  /\ UNCHANGED vars

\* Mutation: any row with this container will do.
Reference_AnyRow(f) == {r \in rows : r.container = f /\ r.original # Refused}

\* find_by_container_sha: the rows that made this container.
Reference(f) ==
  {r \in rows : r.op = "compress" /\ r.container = f /\ r.original # Refused}

\* api_decompress: what the header says of the length, and the digest of the
\* envelope or else of the history.
Declared(c) ==
  IF c[1] = Tag("AFC5") THEN OriginalLength(c) ELSE c[2].n

MatchesDigest(c) ==
  IF c[1] = Tag("AFC5") THEN Sha(Restored(c)) = OriginalSha(c)
  ELSE \E r \in Reference(File(c)) : r.original = Restored(c)

VerifiedByApi(c) == Size(Restored(c)) = Declared(c) /\ MatchesDigest(c)

\* Mutation: a container without any reference counts as verified.
VerifiedByBatch_Optimistic(c) ==
  IF c[1] = Tag("AFC5")
    THEN Size(Restored(c)) = OriginalLength(c) /\ Sha(Restored(c)) = OriginalSha(c)
    ELSE \A r \in Reference(File(c)) : r.original = Restored(c)

\* _process_one, for /api/compress and /api/batch.
VerifiedByBatch(c) ==
  IF c[1] = Tag("AFC5")
    THEN Size(Restored(c)) = OriginalLength(c) /\ Sha(Restored(c)) = OriginalSha(c)
    ELSE \E r \in Reference(File(c)) : r.original = Restored(c)

\* What was restored is recorded with the verdict and handed over.
Record(t, verified) ==
  /\ rows' = rows \cup {Row("decompress", Restored(Cells), held.file, verified,
                             held.truth, Leading(Cells) = Tag("AFC5"))}
  /\ Begin(t, 1)
  /\ UNCHANGED user

Decompress(t) ==
  /\ Single /\ Restored(Cells) # Refused
  /\ Record(t, VerifiedByApi(Cells))

DecompressBatch(t) ==
  /\ Single /\ Restored(Cells) # Refused
  /\ Record(t, VerifiedByBatch(Cells))

\* Empty files are left out; one member that cannot be packed ends it all.
CreateArchive(t, picked) ==
  LET items == Without(picked, {it \in ToSet(picked) : Size(it.data) = 0}) IN
  /\ held = Nobody
  /\ items # <<>> /\ Packs(items)
  /\ rows' = rows \cup {MadeRow(Refused, Pack(items)), MadeRow(Refused, Refused)}
  /\ Holds(Pack(items), items, 0)
  /\ Begin(t, 1)

\* One result and one row for each member.
ExtractArchive(t) ==
  /\ Archive /\ Unpacks(Cells)
  /\ rows' = rows \cup
       {Row("decompress", Members(Cells)[i].data, Refused, Members(Cells)[i].ok,
            held.truth[i].data, Cells[3].entries[i].sha # Junk) :
          i \in DOMAIN Members(Cells)}
  /\ Begin(t, Len(Members(Cells)))
  /\ UNCHANGED user

(***************************************************************************)
(* Damage                                                                  *)
(***************************************************************************)
Entries(ent) ==
  {[ent EXCEPT !.offset = 0], [ent EXCEPT !.offset = @ - 1],
   [ent EXCEPT !.stored = @ + 1], [ent EXCEPT !.stored = 0],
   [ent EXCEPT !.sha = Junk], [ent EXCEPT !.path = <<"..">>]}

Altered(x) ==
  CASE x.t = "tag" -> Magics \ {x}
    [] x.t = "num" -> {Num(x.n + 1)} \cup {Num(n) : n \in {x.n - 1} \cap Nat}
    [] x.t = "chr" -> {Chr(" "), Chr("/"), Chr("^"), Chr("b"), Chr("u1")}
    [] x.t = "body" -> {Body(Garbled(n)) : n \in {Size(x.of), Size(x.of) + 1}}
    [] x.t = "manifest" ->
         UNION {{Manifest([x.entries EXCEPT ![i] = ent]) : ent \in Entries(x.entries[i])} :
                i \in DOMAIN x.entries}
    [] OTHER -> {}

\* The end is lost, something follows, a cell is another, or the border
\* between the name and the payload moves.
Damaged(c) ==
  {SubSeq(c, 1, k) : k \in 0 .. Len(c) - 1} \cup {Append(c, Junk)}
  \cup (UNION {{[c EXCEPT ![i] = x] : x \in Altered(c[i]) \cup {Junk}} : i \in DOMAIN c})
  \cup (IF Len(c) > 5 /\ c[5].t = "num" /\ c[6].t = "num" /\ c[5].n > 0
          THEN {[c EXCEPT ![5] = Num(@.n - 1), ![6] = Num(@.n + 1)]} ELSE {})

Damage(c) ==
  /\ damage < MaxDamage
  /\ \A t \in Threads : pc[t] = "idle"
  /\ held' = [held EXCEPT !.file = File(c)]
  /\ damage' = damage + 1
  /\ UNCHANGED <<vars, nested, rows>>

CacheStep(t) ==
  /\ Insert(t) \/ CheckLen(t) \/ Evict(t) \/ Answer(t)
  /\ UNCHANGED <<user, rows>>

WorkNext ==
  \/ \E t \in Threads :
       \/ \E d \in Inputs, n \in Filenames, m \in Magics : CompressText(t, d, n, m)
       \/ \E m \in Magics : CompressAgain(t, m)
       \/ Decompress(t)
       \/ DecompressBatch(t)
       \/ \E picked \in SeqOf([path : Paths, data : Inputs], MaxItems), m \in Magics :
            CreateArchive(t, [i \in DOMAIN picked |->
              [path |-> picked[i].path, data |-> picked[i].data,
               payload |-> Payload(m, picked[i].data)]])
       \/ ExtractArchive(t)
       \/ CacheStep(t)
  \/ \E d \in Inputs, m \in Magics, known \in BOOLEAN : Import(d, m, known)
  \/ held # Nobody /\ \E c \in Damaged(Cells) : Damage(c)

WorkSpec == WorkInit /\ [][WorkNext]_work

(***************************************************************************)
(* Properties                                                              *)
(***************************************************************************)

\* A path that begins like a drive only once safe_member_path has taken the
\* dots before it away ("./C:/x") passes when the archive is written and is
\* refused when it is read.
Settled(p) == SafePath(p).parts[1] # "C:"

\* What a request has saved and handed over can be read again, and is what
\* was uploaded, whatever the file was called: safe_name may leave a name that
\* parse calls unsafe, and only the round trip before saving notices.  An
\* archive can be unpacked exactly if all its paths are settled.
SavedReadable ==
  held # Nobody /\ damage = 0 =>
    IF Archive
      THEN /\ Unpacks(Cells) <=> \A i \in DOMAIN held.truth : Settled(held.truth[i].path)
           /\ Unpacks(Cells) =>
                /\ Len(Members(Cells)) = Len(held.truth)
                /\ \A i \in DOMAIN held.truth :
                     /\ Members(Cells)[i].data = held.truth[i].data /\ Members(Cells)[i].ok
                     /\ Members(Cells)[i].path = SafePath(held.truth[i].path).parts
      ELSE Restored(Cells) = held.truth

\* A row that says verified is about exactly the bytes the container was made
\* from: neither damage nor what an earlier decompression of the same
\* container recorded can stand in for a reference ("never a fake match").
VerdictsTrue ==
  \A r \in rows : r.verified => r.original = r.truth

\* Where a file carries a digest, nothing but the original is ever handed over.
DamageRefused == \A r \in rows : r.digest => r.original = r.truth

\* The two pages that decompress one container give it the same verdict.
PathsAgree ==
  Single /\ Restored(Cells) # Refused =>
    VerifiedByApi(Cells) = VerifiedByBatch(Cells)
=============================================================================
