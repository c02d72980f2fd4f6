-------------------------- MODULE ContainerTiling --------------------------
(***************************************************************************)
(* Component-aware containers (containers.py): a PDF or a ZIP package is   *)
(* cut into segments that tile it, the segments are written to an AFC3 and *)
(* an AFC4 or AFC6 container, and each container is read again and         *)
(* compared before it may be chosen.                                       *)
(*                                                                         *)
(* Abstractions.  A cell stands for a stretch of bytes; a number takes one *)
(* cell.  What the parsers find in a file is arbitrary.  The engine is     *)
(* exact and refuses a damaged stream (HuffmanCode).  A payload without    *)
(* text is of high entropy.                                                *)
(***************************************************************************)
EXTENDS TokenRecipe, FiniteSets

CONSTANTS
  Files,         \* [format, data, components that the parsers may find]
  MaxComponents, \* most components in an inventory (bound)
  MinSegment, MinOpaque, MinPooled,
  MinTransform,  \* smallest payload worth a transform
  MaxTransform,  \* most cells that the transforms of a file may expand to
  Ratio,         \* viability ratio of one transform
  ProbeCount, ProbeCells, ProbeRatio \* early viability probe of a PDF

ASSUME LimitsNatural ==
  /\ {MinSegment, MinOpaque, MinPooled, MinTransform, MaxTransform, Ratio,
      ProbeCount, ProbeCells, ProbeRatio, MaxComponents} \subseteq Nat

\* A file is of cells that a stream may hold, whatever their order, and the
\* extents of a component lie in the file.
ASSUME FilesTyped ==
  \A f \in Files :
    /\ f.format \in {"pdf", "zip"}
    /\ f.data \in Seq(ToSet(f.data)) /\ \A c \in ToSet(f.data) : Streamed(c)
    /\ f.components \subseteq
         [s : 0 .. Len(f.data), e : 0 .. Len(f.data),
          text : BOOLEAN, coded : BOOLEAN, size : Nat]
    /\ \A c \in f.components : c.s <= c.e

VARIABLES
  file,
  inventory, \* pdf_components or zip_components, by start
  phase,
  pos,       \* where a search goes on, or the components done
  found,     \* segments so far; in the end, those before merging
  segs,      \* the plan: of AFC3, then of AFC4 or AFC6
  blob,      \* the container written last
  kept       \* the containers that were verified

vars == <<file, inventory, phase, pos, found, segs, blob, kept>>

Opaque == 0
Pooled == 1
Transformed == 2

Total == Len(file.data)
Payload(c) == SubSeq(file.data, c.s + 1, c.e)
Segment(kind, c) ==
  [kind |-> kind, s |-> c.s, e |-> c.e, source |-> <<>>, recipe |-> <<>>]
Length(c) == c.e - c.s
Greater(a, b) == IF a >= b THEN a ELSE b

SumOver(f(_), list) ==
  FoldLeft(LAMBDA sum, n : sum + n, 0, [i \in DOMAIN list |-> f(list[i])])
OfKind(kind, list) == SelectSeq(list, LAMBDA x : x.kind = kind)

\* _looks_textual and entropy_bits, which look at a sample.
TextCells == {Byte("a"), Byte("b")}
Classify(payload) ==
  IF Len(payload) >= MinSegment /\ \A i \in DOMAIN payload : payload[i] \notin TextCells
    THEN Opaque ELSE Pooled

\* What lies between the segments is structure, and pooled.
Cursor(list) == IF list = <<>> THEN 0 ELSE Last(list).e
Gap(from, to) ==
  IF from < to THEN <<Segment(Pooled, [s |-> from, e |-> to])>> ELSE <<>>
Place(list, seg) == list \o Gap(Cursor(list), seg.s) \o <<seg>>

(***************************************************************************)
(* Inventory and AFC3 plan                                                 *)
(***************************************************************************)

\* zip_components: members that overlap make the directory unreadable.
Directory(list) ==
  IF \A i \in 1 .. Len(list) - 1 : list[i].e <= list[i + 1].s THEN list ELSE <<>>

\* pdf_components: of the objects, the plans take those with a stream.
Streams(list) == \A i \in DOMAIN list : list[i].s < list[i].e

Init ==
  /\ file \in Files
  /\ \E list \in SeqOf(file.components, MaxComponents) :
       /\ \A i \in 1 .. Len(list) - 1 : list[i].s <= list[i + 1].s
       /\ \/ file.format = "zip" /\ inventory = Directory(list)
          \/ file.format = "pdf" /\ Streams(list) /\ inventory = list
  /\ phase = "scan" /\ pos = 0
  /\ found = <<>> /\ segs = <<>> /\ blob = <<>> /\ kept = {}

\* A payload of high entropy is set apart, any other stays in the pooled run.
SetApart(c) ==
  /\ phase = "scan" /\ c.s >= pos
  /\ pos' = c.e
  /\ found' = IF c.s < c.e /\ Classify(Payload(c)) = Opaque
                THEN Place(found, Segment(Opaque, c)) ELSE found
  /\ UNCHANGED <<file, inventory, phase, segs, blob, kept>>

\* analyze_pdf: the next "stream" ... "endstream".
ScanStream(c) == file.format = "pdf" /\ SetApart(c)

\* _analyze_zip_local: the next local header, when no directory is readable.
ScanLocal(c) == file.format = "zip" /\ inventory = <<>> /\ SetApart(c)

Preserve(c) ==
  IF c.coded THEN Opaque
  ELSE IF file.format = "zip" /\ c.text THEN Pooled ELSE Classify(Payload(c))

\* analyze_zip: the next member of the directory.
ScanMember ==
  /\ phase = "scan" /\ file.format = "zip" /\ pos < Len(inventory)
  /\ LET c == inventory[pos + 1] IN
     found' = IF c.s < c.e THEN Place(found, Segment(Preserve(c), c)) ELSE found
  /\ pos' = pos + 1
  /\ UNCHANGED <<file, inventory, phase, segs, blob, kept>>

\* No more is found, or a header that cannot be read ends the search.
ScanEnds ==
  /\ phase = "scan"
  /\ file.format = "zip" /\ inventory # <<>> => pos = Len(inventory)
  /\ found' = found \o Gap(Cursor(found), Total)
  /\ phase' = "plan"
  /\ UNCHANGED <<file, inventory, pos, segs, blob, kept>>

\* Mutation: small segments of both kinds are folded in.
Join_Any(out, x) ==
  IF out # <<>> /\ Last(out).e = x.s
     /\ (Last(out).kind = x.kind \/ Length(x) < MinSegment)
    THEN [out EXCEPT ![Len(out)].e = x.e] ELSE Append(out, x)

\* Neighbours of one kind become one, and so does an opaque segment that is
\* too small with whatever precedes it.
Join(out, x) ==
  IF out # <<>> /\ Last(out).e = x.s
     /\ (Last(out).kind = x.kind \/ (x.kind = Opaque /\ Length(x) < MinSegment))
    THEN [out EXCEPT ![Len(out)].e = x.e] ELSE Append(out, x)

MergeAdjacent(list) == FoldLeft(Join, <<>>, list)

\* _validate_tiling does not raise.
Tiles(list) ==
  /\ list # <<>> /\ list[1].s = 0 /\ Last(list).e = Total
  /\ \A i \in 1 .. Len(list) - 1 : /\ list[i].e = list[i + 1].s
                                   /\ list[i].s < list[i].e

Plan ==
  /\ phase = "plan"
  /\ segs' = MergeAdjacent(found)
  /\ phase' = IF Tiles(segs') THEN "direct" ELSE "done"
  /\ UNCHANGED <<file, inventory, pos, found, blob, kept>>

(***************************************************************************)
(* Writing and reading a container                                         *)
(***************************************************************************)

Magic(m)  == [t |-> "magic", magic |-> m]
Number(n) == [t |-> "number", n |-> n]
Entry(x)  == [t |-> "entry", kind |-> x.kind, n |-> Length(x)]

\* The engine, without loss; nothing is compressed to nothing.
Compress(pooled) == IF pooled = <<>> THEN <<>> ELSE <<[t |-> "engine", of |-> pooled]>>
Decompress(cells) == IF cells = <<>> THEN <<>> ELSE cells[1].of

Collect(part(_), list) == FlattenSeq([i \in DOMAIN list |-> part(list[i])])

OpaquePart(x) == IF x.kind = Opaque THEN Payload(x) ELSE <<>>

\* Mutation: the recipe is written before its source.
PooledPart_Swapped(x) ==
  IF x.kind = Transformed THEN x.recipe \o x.source
  ELSE IF x.kind = Pooled THEN Payload(x) ELSE <<>>

PooledPart(x) ==
  IF x.kind = Transformed THEN x.source \o x.recipe
  ELSE IF x.kind = Pooled THEN Payload(x) ELSE <<>>

Manifest(x) ==
  IF x.kind = Transformed
    THEN <<Entry(x), Number(Len(x.source)), Number(Len(x.recipe))>>
    ELSE <<Entry(x)>>

Build(magic, list) ==
  LET opaque == Collect(OpaquePart, list)
      pooled == Compress(Collect(PooledPart, list))
  IN <<Magic(magic), Number(Total), Number(Len(list))>> \o Collect(Manifest, list)
     \o <<Number(Len(opaque))>> \o opaque \o <<Number(Len(pooled))>> \o pooled

Refused(a) == [a EXCEPT !.ok = FALSE]

ReadEntry(m, cells) ==
  IF ~m.ok \/ m.at > Len(cells) \/ cells[m.at].n = 0 THEN Refused(m)
  ELSE IF cells[m.at].kind # Transformed
    THEN [m EXCEPT !.at = @ + 1,
                   !.list = Append(@, [kind |-> cells[m.at].kind, n |-> cells[m.at].n,
                                       source |-> 0, recipe |-> 0])]
  ELSE IF m.at + 2 > Len(cells) \/ 0 \in {cells[m.at + 1].n, cells[m.at + 2].n}
    THEN Refused(m)
  ELSE [m EXCEPT !.at = @ + 3,
                 !.list = Append(@, [kind |-> Transformed, n |-> cells[m.at].n,
                                     source |-> cells[m.at + 1].n,
                                     recipe |-> cells[m.at + 2].n])]

\* The manifest of a container, and the place behind it.
ReadManifest(cells) ==
  IF Len(cells) < 3 \/ cells[3].n > Len(cells)
    THEN [ok |-> FALSE, at |-> 1, list |-> <<>>]
    ELSE FoldLeft(LAMBDA m, i : ReadEntry(m, cells), [ok |-> TRUE, at |-> 4, list |-> <<>>],
                  [i \in 1 .. cells[3].n |-> i])

OpaqueWanted(x) == IF x.kind = Opaque THEN x.n ELSE 0

\* What a component takes of the pooled region.
Wanted(x) ==
  IF x.kind = Transformed THEN x.source + x.recipe
  ELSE IF x.kind = Pooled THEN x.n ELSE 0

\* Mutation: a container that is cut in the pooled region is read.
Fits_NoEnd(cells, m) ==
  /\ m.ok /\ m.at <= Len(cells)
  /\ SumOver(LAMBDA x : x.n, m.list) = cells[2].n
  /\ cells[m.at].n = SumOver(OpaqueWanted, m.list)
  /\ m.at + cells[m.at].n + 1 <= Len(cells)

\* The manifest adds up, and its regions reach exactly to the end.
Fits(cells, m) ==
  LET at == m.at + cells[m.at].n + 1 IN
  /\ m.ok /\ m.at <= Len(cells)
  /\ SumOver(LAMBDA x : x.n, m.list) = cells[2].n
  /\ cells[m.at].n = SumOver(OpaqueWanted, m.list)
  /\ at <= Len(cells) /\ at + cells[at].n = Len(cells)

RestoreAs(magic, source, recipe) ==
  IF magic = "AFC6" THEN RestoreZlib(source, recipe) ELSE Restore(source, recipe)

AddRestored(a, x, raw) ==
  IF raw # <<>> /\ Len(raw[1]) = x.n
    THEN [a EXCEPT !.out = @ \o raw[1], !.p = @ + Wanted(x)] ELSE Refused(a)

AddComponent(a, x, magic, r) ==
  CASE ~a.ok -> a
    [] x.kind = Opaque ->
         [a EXCEPT !.out = @ \o SubSeq(r.opaque, a.o + 1, a.o + x.n), !.o = @ + x.n]
    [] x.kind = Pooled ->
         [a EXCEPT !.out = @ \o SubSeq(r.pooled, a.p + 1, a.p + x.n), !.p = @ + x.n]
    [] OTHER ->
         AddRestored(a, x,
           RestoreAs(magic, SubSeq(r.pooled, a.p + 1, a.p + x.source),
                     SubSeq(r.pooled, a.p + x.source + 1, a.p + Wanted(x))))

UsedUp(a, r) ==
  IF a.ok /\ a.p = Len(r.pooled) /\ a.o = Len(r.opaque) THEN <<a.out>> ELSE <<>>

Rebuild(magic, list, r) ==
  IF Len(r.pooled) # SumOver(Wanted, list) THEN <<>>
  ELSE UsedUp(FoldLeft(LAMBDA a, x : AddComponent(a, x, magic, r),
                       [out |-> <<>>, p |-> 0, o |-> 0, ok |-> TRUE], list), r)

DecodeRegions(cells, m) ==
  IF ~Fits(cells, m) THEN <<>>
  ELSE Rebuild(cells[1].magic, m.list,
         [opaque |-> SubSeq(cells, m.at + 1, m.at + cells[m.at].n),
          pooled |-> Decompress(SubSeq(cells, m.at + cells[m.at].n + 2, Len(cells)))])

\* decompress_afc3, _afc4 and _afc6: <<the file>>, or <<>> when they raise.
Decode(cells) == DecodeRegions(cells, ReadManifest(cells))

\* A candidate is read again and compared before it is kept.
Write(magic, list) ==
  /\ blob' = Build(magic, list)
  /\ kept' = IF Decode(blob') = <<file.data>> THEN kept \cup {magic} ELSE kept

(***************************************************************************)
(* The candidates of compress_container                                    *)
(***************************************************************************)

\* AFC3, when it may pay for its manifest.
Direct ==
  LET opaque == SumOver(Length, OfKind(Opaque, segs))
      pooled == SumOver(Length, OfKind(Pooled, segs))
  IN
  /\ phase = "direct" /\ phase' = "transform"
  /\ found' = <<>> /\ pos' = 0
  /\ IF opaque >= MinOpaque /\ pooled >= MinPooled /\ 4 * opaque >= Total
       THEN Write("AFC3", segs) ELSE UNCHANGED <<blob, kept>>
  /\ UNCHANGED <<file, inventory, segs>>

Expanded(list) == SumOver(LAMBDA x : Len(x.source), list)

NextComponent == inventory[pos + 1]

TransformedSegment(c, u) ==
  [kind |-> Transformed, s |-> c.s, e |-> c.e, source |-> u.source, recipe |-> u.recipe]

\* docx_transform_plan: XML that fits the budget by its declared size.
MemberTransforms(c) ==
  IF /\ c.coded /\ c.text
     /\ c.size >= MinTransform \/ Length(c) >= c.size
     /\ c.size <= Greater(1, Ratio * Length(c))
     /\ Expanded(found) + c.size <= MaxTransform
    THEN {u \in Transform(Payload(c), c.size) :
            u.source # <<>> /\ Len(u.source) = c.size}
    ELSE {}

\* Encryption, a CRC or the text probe may still rule a transform out.
TransformMember ==
  LET c == NextComponent IN
  /\ phase = "transform" /\ file.format = "zip" /\ pos < Len(inventory)
  /\ pos' = pos + 1
  /\ \/ c.e <= c.s /\ UNCHANGED found
     \/ c.s < c.e /\ found' = Place(found, Segment(Preserve(c), c))
     \/ /\ c.s < c.e
        /\ \E u \in MemberTransforms(c) : found' = Place(found, TransformedSegment(c, u))
  /\ UNCHANGED <<file, inventory, phase, segs, blob, kept>>

\* Mutation: each stream may use the whole budget.
StreamTransforms_Whole(c) ==
  IF /\ c.coded /\ c.text /\ Length(c) >= MinTransform
     /\ Expanded(found) < MaxTransform
    THEN {u \in TransformZlib(Payload(c), MaxTransform) :
            /\ u.source # <<>>
            /\ Len(u.source) + Len(u.recipe) <= Greater(1, Ratio * Length(c))}
    ELSE {}

\* pdf_transform_plan: Flate streams, as far as the budget still reaches.  The
\* text probe, or the object's kind, may refuse any of them.
StreamTransforms(c) ==
  IF /\ c.coded /\ c.text /\ Length(c) >= MinTransform
     /\ Expanded(found) < MaxTransform
    THEN {u \in TransformZlib(Payload(c), MaxTransform - Expanded(found)) :
            /\ u.source # <<>>
            /\ Len(u.source) + Len(u.recipe) <= Greater(1, Ratio * Length(c))}
    ELSE {}

\* Enough streams have shown that the file expands too much.
Hopeless(list) ==
  LET done == OfKind(Transformed, list)
      encoded == SumOver(Length, done)
  IN /\ Len(done) >= ProbeCount /\ encoded >= ProbeCells
     /\ SumOver(LAMBDA x : Len(x.source) + Len(x.recipe), done) > ProbeRatio * encoded

TransformStream ==
  LET c == NextComponent IN
  /\ phase = "transform" /\ file.format = "pdf" /\ pos < Len(inventory)
  /\ c.s >= Cursor(found)
  /\ pos' = pos + 1
  /\ \/ /\ found' = Place(found, Segment(Preserve(c), c))
        /\ UNCHANGED phase
     \/ \E u \in StreamTransforms(c) :
          /\ found' = Place(found, TransformedSegment(c, u))
          /\ phase' = IF Hopeless(found') THEN "done" ELSE phase
  /\ UNCHANGED <<file, inventory, segs, blob, kept>>

\* Streams overlap: there is no plan for AFC6.
StreamsOverlap ==
  /\ phase = "transform" /\ file.format = "pdf" /\ pos < Len(inventory)
  /\ NextComponent.s < Cursor(found)
  /\ phase' = "done"
  /\ UNCHANGED <<file, inventory, pos, found, segs, blob, kept>>

TransformEnds ==
  LET list == found \o Gap(Cursor(found), Total) IN
  /\ phase = "transform" /\ pos = Len(inventory)
  /\ phase' = "done"
  /\ IF OfKind(Transformed, found) # <<>>
       THEN /\ segs' = list
            /\ IF Tiles(list)
                 THEN Write(IF file.format = "pdf" THEN "AFC6" ELSE "AFC4", list)
                 ELSE UNCHANGED <<blob, kept>>
       ELSE UNCHANGED <<segs, blob, kept>>
  /\ UNCHANGED <<file, inventory, pos, found>>

Next ==
  \/ \E c \in file.components : ScanStream(c) \/ ScanLocal(c)
  \/ ScanMember \/ ScanEnds \/ Plan \/ Direct
  \/ TransformMember \/ TransformStream \/ StreamsOverlap \/ TransformEnds

Spec == Init /\ [][Next]_vars

(***************************************************************************)
(* Properties                                                              *)
(***************************************************************************)

Extents == {x.e : x \in file.components} \cup {x.s : x \in file.components} \cup {0, Total}

TypeOK ==
  /\ ToSet(inventory) \subseteq file.components /\ Len(inventory) <= MaxComponents
  /\ phase \in {"scan", "plan", "direct", "transform", "done"}
  /\ pos \in IF phase = "transform" THEN 0 .. Len(inventory)
                                    ELSE Extents \cup 0 .. MaxComponents
  /\ \A x \in ToSet(found) \cup ToSet(segs) :
       /\ x.kind \in {Opaque, Pooled, Transformed} /\ {x.s, x.e} \subseteq Extents
       /\ x.kind = Transformed <=> x.recipe # <<>>
  /\ kept \subseteq {"AFC3", "AFC4", "AFC6"}

\* Every plan tiles the file, and _validate_tiling never has to refuse one.
PlansTile == segs # <<>> => Tiles(segs)

\* Every container written gives back the file byte by byte, and the
\* comparison before it is kept never has to refuse one.
ContainersExact == blob # <<>> => blob[1].magic \in kept

\* All stored blocks of a stream begin at a byte.
StoredAtBytes(raw) == \A c \in ToSet(raw) : c.t = "block" => ReadsAgain(c)

\* Of the streams that could be read to their end, those whose stored blocks
\* begin at a byte are restored token by token, so that the comparison in
\* transform has none of them to refuse; restore raises for every other one.
RecipesExact ==
  phase = "transform" /\ pos < Len(inventory) =>
    LET raw == Payload(NextComponent)
        a   == Read(raw, MaxTransform)
    IN a.mode = "trailing" /\ ShortRest(a.rest) =>
         Restore(a.plain, Recipe(a)) = IF StoredAtBytes(raw) THEN <<raw>> ELSE <<>>

\* A container that is cut anywhere, or followed by anything, is refused.
DamageRefused ==
  blob # <<>> => /\ \A n \in 0 .. Len(blob) - 1 : Decode(SubSeq(blob, 1, n)) = <<>>
                 /\ Decode(Append(blob, Pad)) = <<>>

\* "A worse ratio, never a wrong result" (containers.py): whatever the parsers
\* find, the file comes back or the container is refused.  The checks on the
\* way fire on damaged containers only, but for the one in transform, which
\* turns away the streams that restore cannot write again.
LosslessOrRefused == PlansTile /\ ContainersExact /\ RecipesExact /\ DamageRefused

Within(x, list) ==
  \E i \in DOMAIN list : list[i].kind = x.kind /\ list[i].s <= x.s /\ x.e <= list[i].e

\* What the engine gets: everything that can be compressed, nothing that
\* cannot unless it is too small to set apart, and no more of expanded
\* streams than the budget against hostile expansion allows.
EngineInput ==
  /\ phase = "direct" => \A i \in DOMAIN found :
       (found[i].kind = Opaque /\ Length(found[i]) < MinSegment) \/ Within(found[i], segs)
  /\ Expanded(found) <= MaxTransform /\ Expanded(segs) <= MaxTransform
=============================================================================
