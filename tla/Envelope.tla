------------------------------ MODULE Envelope ------------------------------
(***************************************************************************)
(* The two wrappers around the engine's containers: the AFC5 envelope of a *)
(* single file (afc5.py) and the AFCPAK archive of many (afcpak.py), and   *)
(* the dispatch of decompress_bytes (afc2.py) below them.                  *)
(*                                                                         *)
(* A file is a sequence of cells.  A cell is a magic, a number of the      *)
(* header, a digest, a byte of a name, a manifest, or a coded body; a      *)
(* digest is what it was taken of.  The engine is exact (StructuralSearch, *)
(* ContainerTiling): a body is what it decodes to, and a damaged body      *)
(* decodes to something else, which AFC1 to AFC6 have no digest to notice. *)
(***************************************************************************)
EXTENDS Integers, Sequences, SequencesExt

CONSTANTS
  MaxName \* MAX_NAME_BYTES

ASSUME NameBytes == MaxName \in Nat

Tag(m)  == [t |-> "tag", m |-> m]
Num(n)  == [t |-> "num", n |-> n]
Sha(x)  == [t |-> "sha", of |-> x]
Chr(c)  == [t |-> "chr", c |-> c]
Body(x) == [t |-> "body", of |-> x]
Manifest(entries) == [t |-> "manifest", entries |-> entries]
Junk == [t |-> "junk"]

\* What a file holds: text that nothing here looks into, or cells.
Text(k, n) == [t |-> "text", k |-> k, n |-> n]
File(c) == [t |-> "file", cells |-> c]
Size(x) == IF x.t = "file" THEN Len(x.cells) ELSE x.n
Garbled(n) == Text("garbled", n)
Refused == [t |-> "refused"]

Leading(c) == IF c = <<>> THEN Junk ELSE c[1]
From(c, i) == SubSeq(c, i, Len(c))

\* What is left of a sequence without the elements of a set.
Without(s, drop) ==
  LET keep[n \in 0 .. Len(s)] ==
        IF n = 0 THEN <<>>
        ELSE IF s[n] \in drop THEN keep[n - 1] ELSE Append(keep[n - 1], s[n])
  IN keep[Len(s)]

(***************************************************************************)
(* The containers of the engine                                            *)
(***************************************************************************)
Plain == {Tag("AFC1"), Tag("AFC2")}
Component == {Tag("AFC3"), Tag("AFC4"), Tag("AFC6")}
InnerMagics == Plain \cup Component

Payload(magic, data) == <<magic, Num(Size(data)), Body(data)>>

\* AFC1 and AFC2 decode as many bytes as the header asks for, and do not look
\* at what follows; the others compare every length.
Inner(c) ==
  IF Len(c) < 3 \/ c[1] \notin InnerMagics \/ c[2].t # "num" \/ c[3].t # "body"
    THEN Refused
  ELSE IF c[2].n = Size(c[3].of) /\ (c[1] \in Plain \/ Len(c) = 3)
    THEN c[3].of
  ELSE IF c[1] \in Plain THEN Garbled(c[2].n) ELSE Refused

(***************************************************************************)
(* AFC5                                                                    *)
(***************************************************************************)

\* A name is a sequence of characters; "u" takes two bytes, "^" is a control
\* character and "/" any separator.
Utf8(name) ==
  FlattenSeq([i \in DOMAIN name |->
                IF name[i] = "u" THEN <<Chr("u1"), Chr("u2")>> ELSE <<Chr(name[i])>>])

\* The text of these bytes, if there is one.
Decodable(raw) ==
  \A i \in DOMAIN raw :
    /\ raw[i].t = "chr"
    /\ raw[i] = Chr("u1") => i < Len(raw) /\ raw[i + 1] = Chr("u2")
    /\ raw[i] = Chr("u2") => i > 1 /\ raw[i - 1] = Chr("u1")
Chars(raw) ==
  LET starts == Without(raw, {Chr("u2")})
  IN [i \in DOMAIN starts |-> IF starts[i] = Chr("u1") THEN "u" ELSE starts[i].c]

Basename(s) ==
  LET cuts == {i \in DOMAIN s : s[i] = "/"}
  IN IF cuts = {} THEN s ELSE From(s, 1 + CHOOSE i \in cuts : \A j \in cuts : j <= i)

Strip(s) ==
  LET ink == {i \in DOMAIN s : s[i] # " "}
  IN IF ink = {} THEN <<>>
     ELSE SubSeq(s, CHOOSE i \in ink : \A j \in ink : i <= j,
                    CHOOSE i \in ink : \A j \in ink : j <= i)

\* safe_name: the blanks at both ends go before the control characters do, and
\* the cut to MaxName bytes comes last.
SafeName(s) ==
  LET clean == Without(Strip(Basename(s)), {"^"})
      fits == {k \in 0 .. Len(clean) : Len(Utf8(SubSeq(clean, 1, k))) <= MaxName}
  IN SubSeq(clean, 1, CHOOSE k \in fits : \A j \in fits : j <= k)

Wrap(original, payload, filename) ==
  LET name == Utf8(SafeName(filename)) IN
  File(<<Tag("AFC5"), Num(1), Num(IF name = <<>> THEN 0 ELSE 1),
         Num(Size(original)), Num(Len(payload)), Num(Len(name)),
         Sha(original), Sha(payload)>> \o name \o payload)

\* What parse finds in cells that pass it.
OriginalLength(c) == c[4].n
OriginalSha(c) == c[7]
RawName(c) == SubSeq(c, 9, 8 + c[6].n)
Wrapped(c) == From(c, 9 + c[6].n)

\* parse: the checks, in their order.
Parses(c) ==
  /\ Len(c) >= 6 /\ c[1] = Tag("AFC5") /\ c[2] = Num(1)
  /\ c[3] \in {Num(0), Num(1)}
  /\ c[4].t = "num" /\ c[5].t = "num" /\ c[6].t = "num"
  /\ c[6].n <= MaxName
  /\ 8 + c[6].n <= Len(c)
  /\ Decodable(RawName(c))
  /\ SafeName(Chars(RawName(c))) = Chars(RawName(c))
  /\ c[3] = Num(1) <=> RawName(c) # <<>>
  /\ c[5].n = Len(Wrapped(c))
  /\ Leading(Wrapped(c)) \in InnerMagics
  /\ c[8] = Sha(Wrapped(c))

\* decompress: the restored length and digest are those of the envelope.
Unwrapped(c) ==
  LET restored == IF Parses(c) THEN Inner(Wrapped(c)) ELSE Refused IN
  IF /\ restored # Refused
     /\ Size(restored) = OriginalLength(c) /\ Sha(restored) = OriginalSha(c)
    THEN restored ELSE Refused

\* afc2.decompress_bytes.
Restored(c) == IF Leading(c) = Tag("AFC5") THEN Unwrapped(c) ELSE Inner(c)

(***************************************************************************)
(* AFCPAK                                                                  *)
(***************************************************************************)

\* safe_member_path, on the components of a path: "C:" stands for one that may
\* not come first, as a drive.
SafePath(p) ==
  LET parts == Without(p, {"", "."}) IN
  IF p = <<>> \/ p[1] \in {"", "C:"} \/ Contains(p, "..") \/ parts = <<>>
    THEN Refused ELSE [t |-> "path", parts |-> parts]

\* pack: items are [path, data, payload].
Packs(items) ==
  \A i \in DOMAIN items : /\ SafePath(items[i].path) # Refused
                          /\ Restored(items[i].payload) = items[i].data

Pack(items) ==
  LET at[i \in 1 .. Len(items) + 1] ==
        IF i = 1 THEN 0 ELSE at[i - 1] + Len(items[i - 1].payload)
  IN File(<<Tag("AFCPAK"), Num(1),
            Manifest([i \in DOMAIN items |->
              [path |-> SafePath(items[i].path).parts, offset |-> at[i],
               stored |-> Len(items[i].payload), sha |-> Sha(items[i].data)]])>>
          \o FlattenSeq([i \in DOMAIN items |-> items[i].payload]))

\* read_manifest: exactly the manifest lies between the header and its length.
HasManifest(c) ==
  /\ Leading(c) = Tag("AFCPAK") /\ Len(c) > 1 /\ c[2].t = "num"
  /\ 2 + c[2].n <= Len(c)
  /\ c[2].n = 1 /\ c[3].t = "manifest"

\* Mutation: a member whose digest is another is only reported.
Member_Reported(c, ent) ==
  LET end == ent.offset + ent.stored
      data == IF /\ SafePath(ent.path) # Refused /\ ent.offset >= 0
                 /\ end >= ent.offset /\ end <= Len(c) - 3
                THEN Restored(SubSeq(c, 4 + ent.offset, 3 + end)) ELSE Refused
  IN IF data = Refused THEN Refused
     ELSE [t |-> "member", path |-> SafePath(ent.path).parts, data |-> data,
           ok |-> ent.sha = Sha(data)]

\* unpack, one member: its extent lies behind the manifest, and a digest that
\* is there is compared.
Member(c, ent) ==
  LET end == ent.offset + ent.stored
      data == IF /\ SafePath(ent.path) # Refused /\ ent.offset >= 0
                 /\ end >= ent.offset /\ end <= Len(c) - 3
                THEN Restored(SubSeq(c, 4 + ent.offset, 3 + end)) ELSE Refused
  IN IF data = Refused \/ (ent.sha # Junk /\ ent.sha # Sha(data)) THEN Refused
     ELSE [t |-> "member", path |-> SafePath(ent.path).parts, data |-> data,
           ok |-> ent.sha # Junk]

Members(c) == [i \in DOMAIN c[3].entries |-> Member(c, c[3].entries[i])]
Unpacks(c) ==
  HasManifest(c) /\ \A i \in DOMAIN Members(c) : Members(c)[i] # Refused
=============================================================================
