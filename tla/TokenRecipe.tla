---------------------------- MODULE TokenRecipe ----------------------------
(***************************************************************************)
(* Reversible parsing of DEFLATE streams (deflate_tokens.py): the bytes    *)
(* that a stream's tokens expand to, and a recipe from which the same      *)
(* tokens are written again.                                               *)
(*                                                                         *)
(* Abstractions.  A stream is a sequence of block headers, tokens and      *)
(* padding instead of bits.  A recipe holds the bits of each header, from  *)
(* which reader and writer build the same code tables, so the codes are    *)
(* left out: a token is its own code.  Of the place of a header in its     *)
(* byte there remain the bits that align() skips behind a stored one.      *)
(***************************************************************************)
EXTENDS Integers, Sequences, SequencesExt

Byte(b)     == [t |-> "byte", b |-> b]
Literal(b)  == [t |-> "literal", b |-> b]
Match(n, d) == [t |-> "match", n |-> n, d |-> d]
End         == [t |-> "end"]
Pad         == [t |-> "pad"]                     \* fewer than eight bits
Coded(final) == [t |-> "block", kind |-> "coded", final |-> final, n |-> 0, skip |-> 0]
Plain(final, n, skip) ==
  [t |-> "block", kind |-> "stored", final |-> final, n |-> n, skip |-> skip]
ZlibHeader  == [t |-> "zlib"]
Adler(s)    == [t |-> "adler", of |-> s]         \* a sum that tells all apart

\* What the rest of the program may find in a stream.
Streamed(c) ==
  /\ c.t = "literal" => c = Literal(c.b)
  /\ c.t = "match" => c.n \in Nat /\ c.d \in Nat
  /\ c.t = "block" => c.kind \in {"coded", "stored"} /\ c.n \in Nat /\ c.final \in BOOLEAN

\* Records of a recipe; headers, matches, ends and padding stand for themselves.
Blocks(n)   == [t |-> "blocks", n |-> n]
Literals(n) == [t |-> "literals", n |-> n]
Stored(n)   == [t |-> "stored", n |-> n]
Trailing(n) == [t |-> "trailing", n |-> n]

(***************************************************************************)
(* Reading a stream: transform and transform_zlib                          *)
(***************************************************************************)

Bad(a) == [a EXCEPT !.mode = "bad"]
AfterBlock(a) == IF a.final THEN "trailing" ELSE "header"

\* Copying from d back, a byte at a time, so that a match may overlap itself.
AppendMatch(out, n, d) ==
  out \o [i \in 1 .. n |-> out[Len(out) - d + 1 + ((i - 1) % d)]]

MatchFits(out, n, d, max) == d \in 1 .. Len(out) /\ Len(out) + n <= max

Flush(a) == IF a.run > 0 THEN Append(a.recs, Literals(a.run)) ELSE a.recs

ReadHeader(a, c, max) ==
  LET b == [a EXCEPT !.blocks = @ + 1, !.final = c.final,
                     !.recs = Append(@, c)]
  IN IF c.t # "block" THEN Bad(a)
     ELSE IF c.kind = "coded" THEN [b EXCEPT !.mode = "coded"]
     ELSE IF Len(a.plain) + c.n > max THEN Bad(a)
     ELSE [b EXCEPT !.recs = Append(@, Stored(c.n)), !.left = c.n,
                    !.mode = IF c.n = 0 THEN AfterBlock(b) ELSE "stored"]

ReadStored(a, c) ==
  LET b == [a EXCEPT !.plain = Append(@, c), !.left = @ - 1] IN
  IF c.t # "byte" THEN Bad(a)
  ELSE IF b.left = 0 THEN [b EXCEPT !.mode = AfterBlock(b)] ELSE b

ReadToken(a, c, max) ==
  CASE c.t = "literal" /\ Len(a.plain) < max ->
         [a EXCEPT !.plain = Append(@, Byte(c.b)), !.run = @ + 1]
    [] c.t = "match" /\ MatchFits(a.plain, c.n, c.d, max) ->
         [a EXCEPT !.plain = AppendMatch(@, c.n, c.d),
                   !.recs = Append(Flush(a), c), !.run = 0]
    [] c.t = "end" ->
         [a EXCEPT !.recs = Append(Flush(a), c), !.run = 0,
                   !.mode = AfterBlock(a)]
    [] OTHER -> Bad(a)

ReadNext(a, c, max) ==
  CASE a.mode = "header"   -> ReadHeader(a, c, max)
    [] a.mode = "stored"   -> ReadStored(a, c)
    [] a.mode = "coded"    -> ReadToken(a, c, max)
    [] a.mode = "trailing" -> [a EXCEPT !.rest = Append(@, c)]
    [] OTHER               -> a

Read(raw, max) ==
  FoldLeft(LAMBDA a, c : ReadNext(a, c, max),
           [mode |-> "header", plain |-> <<>>, recs |-> <<>>, run |-> 0, left |-> 0,
            blocks |-> 0, final |-> FALSE, rest |-> <<>>], raw)

Recipe(a) == <<Blocks(a.blocks)>> \o a.recs \o <<Trailing(Len(a.rest))>> \o a.rest

\* At most seven bits follow the last block.
ShortRest(rest) == rest \in {<<>>, <<Pad>>}

(***************************************************************************)
(* Writing it again: restore and restore_zlib                              *)
(***************************************************************************)

\* The bits to skip behind the three of a header that begins a byte.
FirstSkip == 5

\* _header_trees reads the bits of a header again as though it began a byte: of
\* a stored block that did not, it finds too few, or the fields elsewhere.
ReadsAgain(r) == r.kind = "stored" => r.skip = FirstSkip

Bytes(plain, from, n) == SubSeq(plain, from + 1, from + n)

RestoreHeader(a, r) ==
  CASE r.t = "block" /\ a.blocks > 0 /\ ReadsAgain(r)
       /\ ~a.final /\ (r.final => a.blocks = 1) ->
         [a EXCEPT !.out = Append(@, r), !.blocks = @ - 1, !.final = r.final,
                   !.left = r.n, !.mode = r.kind]
    [] r.t = "trailing" /\ a.blocks = 0 ->
         [a EXCEPT !.mode = "trailing", !.left = r.n]
    [] OTHER -> Bad(a)

RestoreStored(a, r, plain) ==
  IF r.t = "stored" /\ r.n = a.left /\ Len(a.made) + r.n <= Len(plain)
    THEN [a EXCEPT !.out = @ \o Bytes(plain, Len(a.made), r.n),
                   !.made = @ \o Bytes(plain, Len(@), r.n),
                   !.mode = "header"]
    ELSE Bad(a)

RestoreToken(a, r, plain) ==
  LET at == Len(a.made) IN
  CASE r.t = "literals" /\ at + r.n <= Len(plain) ->
         [a EXCEPT !.out = @ \o [i \in 1 .. r.n |-> Literal(plain[at + i].b)],
                   !.made = @ \o Bytes(plain, at, r.n)]
    [] r.t = "match" /\ MatchFits(a.made, r.n, r.d, Len(plain))
                     /\ AppendMatch(a.made, r.n, r.d) = Bytes(plain, 0, at + r.n) ->
         [a EXCEPT !.out = Append(@, r), !.made = AppendMatch(@, r.n, r.d)]
    [] r.t = "end" -> [a EXCEPT !.out = Append(@, r), !.mode = "header"]
    [] OTHER -> Bad(a)

RestoreNext(a, r, plain) ==
  CASE a.mode = "header"   -> RestoreHeader(a, r)
    [] a.mode = "stored"   -> RestoreStored(a, r, plain)
    [] a.mode = "coded"    -> RestoreToken(a, r, plain)
    [] a.mode = "trailing" -> [a EXCEPT !.out = Append(@, r), !.rest = Append(@, r)]
    [] OTHER               -> a

\* Nothing may be left over on either side.
Complete(a, plain) ==
  IF a.mode = "trailing" /\ a.final /\ Len(a.rest) = a.left
     /\ ShortRest(a.rest) /\ a.made = plain
    THEN <<a.out>> ELSE <<>>

\* restore: <<the stream>>, or <<>> when it raises.
Restore(plain, recipe) ==
  Complete(
    FoldLeft(LAMBDA a, r : RestoreNext(a, r, plain),
             [mode |-> "header", out |-> <<>>, made |-> <<>>, left |-> 0, final |-> FALSE,
              blocks |-> IF recipe[1].t = "blocks" THEN recipe[1].n ELSE 0,
              rest |-> <<>>], Tail(recipe)), plain)

\* Only a recipe that gives back the stream is returned.
Verified(a, raw) ==
  IF a.mode = "trailing" /\ Restore(a.plain, Recipe(a)) = <<raw>>
    THEN {[source |-> a.plain, recipe |-> Recipe(a)]} ELSE {}

\* transform: what it returns, or nothing when it raises.
Transform(raw, max) == Verified(Read(raw, max), raw)

RestoreZlib(plain, recipe) ==
  IF recipe[1] # ZlibHeader \/ recipe[2] # Adler(plain) THEN <<>>
  ELSE LET Wrap(raw) == IF raw = <<>> THEN <<>>
                        ELSE <<<<recipe[1]>> \o raw[1] \o <<recipe[2]>>>>
       IN Wrap(Restore(plain, SubSeq(recipe, 3, Len(recipe))))

TransformZlib(stream, max) ==
  LET n == Len(stream) IN
  IF n < 3 \/ stream[1] # ZlibHeader THEN {}
  ELSE {[t EXCEPT !.recipe = <<stream[1], stream[n]>> \o @] :
          t \in {u \in Transform(SubSeq(stream, 2, n - 1), max) :
                  stream[n] = Adler(u.source)}}
=============================================================================
