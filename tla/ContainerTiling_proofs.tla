----------------------- MODULE ContainerTiling_proofs -----------------------
(***************************************************************************)
(* What holds of ContainerTiling and TokenRecipe whatever the files, what  *)
(* the parsers find in them, and the limits.                               *)
(*                                                                         *)
(* Recipes.  Reading a stream is followed cell by cell (Tracks): what was  *)
(* expanded, and the records, are those of the cells so far, except for a  *)
(* run or a stored block that is still open.  Writing from the recipe is   *)
(* then shown to be, record by record, where reading was (Follows), and so *)
(* ends with the stream (Rewritten).                                       *)
(*                                                                         *)
(* Plans.  Each plan is a chain of segments from the start of the file on, *)
(* and no two overlap (Plans, Proper).  Filling a gap, placing a segment   *)
(* and merging keep it one.                                                *)
(*                                                                         *)
(* Containers.  Where the manifest, the regions and their lengths lie in a *)
(* container (Laid, Frames) says what is read of it, whole or cut          *)
(* (ManifestRead, Damaged), and that putting the segments back gives the   *)
(* file (Rebuilt, Decodes).                                                *)
(*                                                                         *)
(* The invariant (CInv) adds, for each phase, how far the segments reach   *)
(* and what the next component of the inventory leaves room for.           *)
(***************************************************************************)
EXTENDS ContainerTiling, RecursionLemmas

(***************************************************************************)
(* Beginnings of sequences                                                 *)
(***************************************************************************)

\* The first n elements of s.
Upto(s, n) == SubSeq(s, 1, n)

\* A beginning of a sequence, its length and what is in it.
LEMMA UptoType ==
  ASSUME NEW S, NEW s \in Seq(S), NEW n \in 0 .. Len(s)
  PROVE  /\ Upto(s, n) \in Seq(S) /\ Len(Upto(s, n)) = n
         /\ \A i \in 1 .. n : Upto(s, n)[i] = s[i]
<1>1. Len(s) \in Nat /\ \A i \in 1 .. n : s[i] \in S
  OBVIOUS
<1>2. 1 \in Int /\ n \in Int /\ n >= 0
  BY <1>1
<1>3. /\ SubSeq(s, 1, n) \in Seq(S)
      /\ Len(SubSeq(s, 1, n)) = IF 1 <= n THEN n - 1 + 1 ELSE 0
      /\ \A i \in 1 .. n - 1 + 1 : SubSeq(s, 1, n)[i] = s[1 + i - 1]
  BY <1>1, <1>2, SubSeqProperties
<1>4. \A i \in 1 .. n : i \in 1 .. n - 1 + 1 /\ 1 + i - 1 = i
  BY <1>2
<1>5. (IF 1 <= n THEN n - 1 + 1 ELSE 0) = n
  BY <1>2
<1> QED BY <1>3, <1>4, <1>5 DEF Upto

\* What two sequences of one length have in common makes them equal.
LEMMA UptoUpto ==
  ASSUME NEW S, NEW s \in Seq(S), NEW n \in 0 .. Len(s), NEW m \in 0 .. n
  PROVE  Upto(Upto(s, n), m) = Upto(s, m)
<1>1. n \in Nat /\ m \in 0 .. Len(s) /\ m \in 0 .. Len(Upto(s, n)) /\ Len(s) \in Nat
  BY UptoType
<1> DEFINE q == Upto(s, n)
<1>2. q \in Seq(S) /\ \A i \in 1 .. n : q[i] = s[i]
  BY UptoType
<1>3. /\ Upto(q, m) \in Seq(S) /\ Len(Upto(q, m)) = m
      /\ \A i \in 1 .. m : Upto(q, m)[i] = q[i]
  BY <1>1, <1>2, UptoType
<1>4. /\ Upto(s, m) \in Seq(S) /\ Len(Upto(s, m)) = m
      /\ \A i \in 1 .. m : Upto(s, m)[i] = s[i]
  BY <1>1, UptoType
<1>5. \A i \in 1 .. m : i \in 1 .. n
  BY <1>1
<1> HIDE DEF q
<1>6. \A i \in 1 .. m : Upto(q, m)[i] = Upto(s, m)[i]
  BY <1>2, <1>3, <1>4, <1>5
<1>7. Upto(q, m) = Upto(s, m)
  BY <1>3, <1>4, <1>6, SeqEqual
<1> QED BY <1>7 DEF q

\* One element more.
LEMMA UptoNext ==
  ASSUME NEW S, NEW s \in Seq(S), NEW n \in Nat, n + 1 <= Len(s)
  PROVE  Append(Upto(s, n), s[n + 1]) = Upto(s, n + 1)
<1>1. n \in 0 .. Len(s) /\ n + 1 \in 0 .. Len(s) /\ n + 1 \in 1 .. Len(s) /\ s[n + 1] \in S
  OBVIOUS
<1> DEFINE q == Upto(s, n)
           r == Upto(s, n + 1)
<1>2. q \in Seq(S) /\ Len(q) = n /\ \A i \in 1 .. n : q[i] = s[i]
  BY <1>1, UptoType
<1>3. r \in Seq(S) /\ Len(r) = n + 1 /\ \A i \in 1 .. n + 1 : r[i] = s[i]
  BY <1>1, UptoType
<1> HIDE DEF q, r
<1>4. /\ Append(q, s[n + 1]) \in Seq(S) /\ Len(Append(q, s[n + 1])) = n + 1
      /\ \A i \in 1 .. n : Append(q, s[n + 1])[i] = q[i]
      /\ Append(q, s[n + 1])[n + 1] = s[n + 1]
  BY <1>1, <1>2, AppendProperties
<1>5. \A i \in 1 .. n + 1 : Append(q, s[n + 1])[i] = r[i]
  BY <1>2, <1>3, <1>4
<1>6. Append(q, s[n + 1]) = r
  BY <1>3, <1>4, <1>5, SeqEqual
<1> QED BY <1>6 DEF q, r

\* What follows a beginning makes it a longer one.
LEMMA UptoConcat ==
  ASSUME NEW S, NEW s \in Seq(S), NEW n \in Nat, NEW t \in Seq(S), n + Len(t) <= Len(s),
         \A i \in 1 .. Len(t) : t[i] = s[n + i]
  PROVE  Upto(s, n) \o t = Upto(s, n + Len(t))
<1> DEFINE q == Upto(s, n)
           m == Len(t)
           r == Upto(s, n + m)
<1>1. m \in Nat /\ n \in 0 .. Len(s) /\ n + m \in 0 .. Len(s)
  OBVIOUS
<1>2. q \in Seq(S) /\ Len(q) = n /\ \A i \in 1 .. n : q[i] = s[i]
  BY <1>1, UptoType
<1>3. r \in Seq(S) /\ Len(r) = n + m /\ \A i \in 1 .. n + m : r[i] = s[i]
  BY <1>1, UptoType
<1>4. \A i \in 1 .. m : t[i] = s[n + i]
  OBVIOUS
<1>5. m = Len(t)
  OBVIOUS
<1> HIDE DEF q, r, m
<1>6. /\ q \o t \in Seq(S) /\ Len(q \o t) = n + m
      /\ \A i \in 1 .. n + m : (q \o t)[i] = IF i <= n THEN q[i] ELSE t[i - n]
  BY <1>2, <1>5, ConcatProperties
<1>7. ASSUME NEW i \in 1 .. n + m PROVE (q \o t)[i] = r[i]
  <2>1. CASE i <= n
    <3>1. i \in 1 .. n
      BY <1>1, <2>1
    <3>2. q[i] = s[i] /\ r[i] = s[i]
      BY <1>2, <1>3, <3>1
    <3> QED BY <1>6, <2>1, <3>2
  <2>2. CASE ~(i <= n)
    <3>1. i - n \in 1 .. m /\ n + (i - n) = i
      BY <1>1, <2>2
    <3>2. t[i - n] = s[i]
      BY <1>4, <3>1
    <3> QED BY <1>3, <1>6, <2>2, <3>2
  <2> QED BY <2>1, <2>2
<1>8. q \o t = r
  BY <1>3, <1>6, <1>7, SeqEqual
<1> QED BY <1>8 DEF q, r, m

(***************************************************************************)
(* Reading                                                                 *)
(***************************************************************************)

\* What the cells of C may be read as, and written to a recipe.
Elements(C) ==
  C \cup {Byte(c.b) : c \in C} \cup {Literals(n) : n \in Nat} \cup {Stored(n) : n \in Nat}
    \cup {Trailing(n) : n \in Nat} \cup {Blocks(n) : n \in Nat}

\* The states of transform while it reads.
ReadStates(S) ==
  [mode : {"header", "stored", "coded", "trailing", "bad"}, plain : Seq(S), recs : Seq(S),
   run : Nat, left : Nat, blocks : Nat, final : BOOLEAN, rest : Seq(S)]

\* The state transform begins in.
ReadStart ==
  [mode |-> "header", plain |-> <<>>, recs |-> <<>>, run |-> 0, left |-> 0,
   blocks |-> 0, final |-> FALSE, rest |-> <<>>]

\* Its members.
LEMMA ElementsOf ==
  ASSUME NEW C
  PROVE  /\ \A c \in C : c \in Elements(C) /\ Byte(c.b) \in Elements(C)
         /\ \A n \in Nat : /\ Literals(n) \in Elements(C) /\ Stored(n) \in Elements(C)
                           /\ Trailing(n) \in Elements(C) /\ Blocks(n) \in Elements(C)
  BY DEF Elements

\* Copying within what is there only adds to it.
LEMMA MatchType ==
  ASSUME NEW S, NEW out \in Seq(S), NEW n \in Nat, NEW d \in 1 .. Len(out)
  PROVE  /\ AppendMatch(out, n, d) \in Seq(S)
         /\ Len(AppendMatch(out, n, d)) = Len(out) + n
         /\ \A i \in 1 .. Len(out) : AppendMatch(out, n, d)[i] = out[i]
<1> DEFINE k == Len(out)
           at == [i \in 1 .. n |-> k - d + 1 + ((i - 1) % d)]
           t == [i \in 1 .. n |-> out[at[i]]]
<1>1. k \in Nat /\ d \in Nat /\ d > 0 /\ d <= k /\ k = Len(out)
  OBVIOUS
<1> HIDE DEF k
<1>2. ASSUME NEW i \in 1 .. n PROVE at[i] \in 1 .. k
  <2>1. i - 1 \in Nat
    OBVIOUS
  <2>2. (i - 1) % d \in 0 .. d - 1
    BY <2>1, <1>1
  <2>3. at[i] = k - d + 1 + ((i - 1) % d)
    OBVIOUS
  <2> DEFINE m == (i - 1) % d
  <2>4. m \in 0 .. d - 1 /\ at[i] = k - d + 1 + m
    BY <2>2, <2>3
  <2> HIDE DEF m, at
  <2> QED BY <1>1, <2>4
<1> HIDE DEF at
<1>3. \A i \in 1 .. n : out[at[i]] \in S
  BY <1>1, <1>2
<1>4. t \in Seq(S) /\ Len(t) = n
  BY <1>3
<1>5. AppendMatch(out, n, d) = out \o t
  BY <1>1 DEF AppendMatch, at
<1> HIDE DEF t
<1>6. /\ out \o t \in Seq(S) /\ Len(out \o t) = k + n
      /\ \A i \in 1 .. k + n : (out \o t)[i] = IF i <= k THEN out[i] ELSE t[i - k]
  BY <1>1, <1>4, ConcatProperties
<1>7. \A i \in 1 .. k : i \in 1 .. k + n /\ i <= k
  BY <1>1
<1> QED BY <1>1, <1>5, <1>6, <1>7

\* The fields of a state of transform.
LEMMA ReadFields ==
  ASSUME NEW S, NEW a \in ReadStates(S)
  PROVE  /\ a.mode \in {"header", "stored", "coded", "trailing", "bad"}
         /\ a.plain \in Seq(S) /\ a.recs \in Seq(S) /\ a.rest \in Seq(S)
         /\ Len(a.plain) \in Nat /\ Len(a.recs) \in Nat /\ Len(a.rest) \in Nat
         /\ a.run \in Nat /\ a.left \in Nat /\ a.blocks \in Nat /\ a.final \in BOOLEAN
  BY DEF ReadStates

\* The record of a state with some of its fields replaced.
ReadState(m, p, r, n, l, b, f, e) ==
  [mode |-> m, plain |-> p, recs |-> r, run |-> n, left |-> l, blocks |-> b, final |-> f, rest |-> e]

\* A state is the record of its fields.
LEMMA ReadStateOf ==
  ASSUME NEW S, NEW a \in ReadStates(S)
  PROVE  a = ReadState(a.mode, a.plain, a.recs, a.run, a.left, a.blocks, a.final, a.rest)
  BY DEF ReadStates, ReadState

LEMMA ReadStateType ==
  ASSUME NEW S, NEW m \in {"header", "stored", "coded", "trailing", "bad"}, NEW p \in Seq(S),
         NEW r \in Seq(S), NEW n \in Nat, NEW l \in Nat, NEW b \in Nat, NEW f \in BOOLEAN,
         NEW e \in Seq(S), NEW z, z = ReadState(m, p, r, n, l, b, f, e)
  PROVE  z \in ReadStates(S)
  BY DEF ReadStates, ReadState

LEMMA ReadStateIs ==
  ASSUME NEW m, NEW p, NEW r, NEW n, NEW l, NEW b, NEW f, NEW e,
         NEW z, z = ReadState(m, p, r, n, l, b, f, e)
  PROVE  /\ z.mode = m /\ z.plain = p /\ z.recs = r /\ z.run = n /\ z.left = l
         /\ z.blocks = b /\ z.final = f /\ z.rest = e
  BY DEF ReadState

\* What one cell makes of a state, case by case.
LEMMA ReadBad ==
  ASSUME NEW S, NEW a \in ReadStates(S)
  PROVE  Bad(a) = ReadState("bad", a.plain, a.recs, a.run, a.left, a.blocks, a.final, a.rest)
  BY DEF Bad, ReadStates, ReadState

ReadCoded(a, c) ==
  ReadState("coded", a.plain, Append(a.recs, c), a.run, a.left, a.blocks + 1, c.final, a.rest)

ReadPlain(a, c) ==
  ReadState(IF c.n # 0 THEN "stored" ELSE IF c.final THEN "trailing" ELSE "header",
            a.plain, Append(Append(a.recs, c), Stored(c.n)), a.run, c.n, a.blocks + 1,
            c.final, a.rest)

\* A block header: a coded block, a stored one that fits, or the stream is bad.
LEMMA ReadHeaderCases ==
  ASSUME NEW S, NEW a \in ReadStates(S), a.mode = "header", NEW c, NEW max
  PROVE  \/ ReadNext(a, c, max) = Bad(a)
         \/ /\ c.t = "block" /\ c.kind = "coded"
            /\ ReadNext(a, c, max) = ReadCoded(a, c)
         \/ /\ c.t = "block" /\ c.kind # "coded" /\ ~(Len(a.plain) + c.n > max)
            /\ ReadNext(a, c, max) = ReadPlain(a, c)
<1> DEFINE b == [a EXCEPT !.blocks = @ + 1, !.final = c.final, !.recs = Append(@, c)]
<1>1. ReadNext(a, c, max) = ReadHeader(a, c, max)
  BY DEF ReadNext
<1>2. b = ReadState("header", a.plain, Append(a.recs, c), a.run, a.left, a.blocks + 1,
                    c.final, a.rest)
  <2> SUFFICES ASSUME NEW x, x = b
               PROVE  x = ReadState("header", a.plain, Append(a.recs, c), a.run, a.left,
                                    a.blocks + 1, c.final, a.rest)
    OBVIOUS
  <2> QED BY DEF ReadState, ReadStates
<1>3. CASE c.t # "block"
  BY <1>1, <1>3 DEF ReadHeader
<1>4. CASE c.t = "block" /\ c.kind = "coded"
  <2>1. ReadNext(a, c, max) = [b EXCEPT !.mode = "coded"]
    BY <1>1, <1>4 DEF ReadHeader
  <2> HIDE DEF b
  <2>2. ReadNext(a, c, max) = ReadCoded(a, c)
    BY <1>2, <2>1 DEF ReadCoded, ReadState
  <2> QED BY <1>4, <2>2
<1>5. CASE c.t = "block" /\ c.kind # "coded" /\ Len(a.plain) + c.n > max
  BY <1>1, <1>5 DEF ReadHeader
<1>6. CASE c.t = "block" /\ c.kind # "coded" /\ ~(Len(a.plain) + c.n > max)
  <2>1. ReadNext(a, c, max) =
          [b EXCEPT !.recs = Append(@, Stored(c.n)), !.left = c.n,
                    !.mode = IF c.n = 0 THEN AfterBlock(b) ELSE "stored"]
    BY <1>1, <1>6 DEF ReadHeader
  <2> HIDE DEF b
  <2>2. ReadNext(a, c, max) = ReadPlain(a, c)
    BY <1>2, <2>1 DEF ReadPlain, ReadState, AfterBlock
  <2> QED BY <1>6, <2>2
<1> QED BY <1>3, <1>4, <1>5, <1>6

After(f) == IF f THEN "trailing" ELSE "header"

\* A byte of a stored block, which may be its last.
LEMMA ReadStoredCases ==
  ASSUME NEW S, NEW a \in ReadStates(S), a.mode = "stored", NEW c, NEW max
  PROVE  \/ ReadNext(a, c, max) = Bad(a)
         \/ /\ c.t = "byte"
            /\ ReadNext(a, c, max) =
                 ReadState(IF a.left = 1 THEN After(a.final) ELSE "stored",
                           Append(a.plain, c), a.recs, a.run, a.left - 1, a.blocks, a.final,
                           a.rest)
<1> DEFINE b == [a EXCEPT !.plain = Append(@, c), !.left = @ - 1]
<1>1. ReadNext(a, c, max) = ReadStored(a, c)
  BY DEF ReadNext
<1>2. b = ReadState("stored", Append(a.plain, c), a.recs, a.run, a.left - 1, a.blocks,
                    a.final, a.rest)
  <2> SUFFICES ASSUME NEW x, x = b
               PROVE  x = ReadState("stored", Append(a.plain, c), a.recs, a.run, a.left - 1,
                                    a.blocks, a.final, a.rest)
    OBVIOUS
  <2> QED BY DEF ReadState, ReadStates
<1>3. CASE c.t # "byte"
  BY <1>1, <1>3 DEF ReadStored
<1>4. CASE c.t = "byte"
  <2>1. ReadNext(a, c, max) = IF b.left = 0 THEN [b EXCEPT !.mode = AfterBlock(b)] ELSE b
    BY <1>1, <1>4 DEF ReadStored
  <2>2. b.left = a.left - 1 /\ b.final = a.final /\ (a.left - 1 = 0 <=> a.left = 1)
    BY <1>2 DEF ReadState, ReadStates
  <2> HIDE DEF b
  <2>3. CASE a.left = 1
    <3>1. ReadNext(a, c, max) = [b EXCEPT !.mode = After(a.final)]
      BY <2>1, <2>2, <2>3 DEF AfterBlock, After
    <3> QED BY <1>2, <1>4, <2>3, <3>1 DEF ReadState
  <2>4. CASE a.left # 1
    BY <1>2, <1>4, <2>1, <2>2, <2>4
  <2> QED BY <2>3, <2>4
<1> QED BY <1>3, <1>4

\* A token of a coded block: a literal or a match that fits, the end, or bad.
LEMMA ReadTokenCases ==
  ASSUME NEW S, NEW a \in ReadStates(S), a.mode = "coded", NEW c, NEW max
  PROVE  \/ ReadNext(a, c, max) = Bad(a)
         \/ /\ c.t = "literal" /\ Len(a.plain) < max
            /\ ReadNext(a, c, max) =
                 ReadState("coded", Append(a.plain, Byte(c.b)), a.recs, a.run + 1, a.left,
                           a.blocks, a.final, a.rest)
         \/ /\ c.t = "match" /\ MatchFits(a.plain, c.n, c.d, max)
            /\ ReadNext(a, c, max) =
                 ReadState("coded", AppendMatch(a.plain, c.n, c.d), Append(Flush(a), c), 0,
                           a.left, a.blocks, a.final, a.rest)
         \/ /\ c.t = "end"
            /\ ReadNext(a, c, max) =
                 ReadState(After(a.final), a.plain, Append(Flush(a), c), 0, a.left, a.blocks,
                           a.final, a.rest)
<1>1. ReadNext(a, c, max) = ReadToken(a, c, max)
  BY DEF ReadNext
<1>2. CASE c.t = "literal" /\ Len(a.plain) < max
  <2>1. ReadNext(a, c, max) = [a EXCEPT !.plain = Append(@, Byte(c.b)), !.run = @ + 1]
    BY <1>1, <1>2 DEF ReadToken
  <2> QED BY <1>2, <2>1 DEF ReadState, ReadStates
<1>3. CASE c.t = "match" /\ MatchFits(a.plain, c.n, c.d, max)
  <2>1. ReadNext(a, c, max) = [a EXCEPT !.plain = AppendMatch(@, c.n, c.d),
                                        !.recs = Append(Flush(a), c), !.run = 0]
    BY <1>1, <1>3 DEF ReadToken
  <2>2. ReadNext(a, c, max) =
                 ReadState("coded", AppendMatch(a.plain, c.n, c.d), Append(Flush(a), c), 0,
                           a.left, a.blocks, a.final, a.rest)
    BY <2>1 DEF ReadState, ReadStates
  <2> QED BY <1>3, <2>2
<1>4. CASE c.t = "end"
  <2>1. ReadNext(a, c, max) = [a EXCEPT !.recs = Append(Flush(a), c), !.run = 0,
                                        !.mode = AfterBlock(a)]
    BY <1>1, <1>4 DEF ReadToken
  <2>2. AfterBlock(a) = After(a.final)
    BY DEF AfterBlock, After
  <2> QED BY <1>4, <2>1, <2>2 DEF ReadState, ReadStates
<1>5. CASE ~(c.t = "literal" /\ Len(a.plain) < max) /\ c.t # "end"
           /\ ~(c.t = "match" /\ MatchFits(a.plain, c.n, c.d, max))
  BY <1>1, <1>5 DEF ReadToken
<1> QED BY <1>2, <1>3, <1>4, <1>5

\* Behind the last block everything is padding; a bad stream stays bad.
LEMMA ReadRestCases ==
  ASSUME NEW S, NEW a \in ReadStates(S), NEW c, NEW max
  PROVE  /\ a.mode = "trailing" =>
              ReadNext(a, c, max) =
                ReadState("trailing", a.plain, a.recs, a.run, a.left, a.blocks, a.final,
                          Append(a.rest, c))
         /\ a.mode = "bad" => ReadNext(a, c, max) = a
<1>1. CASE a.mode = "trailing"
  <2>1. ReadNext(a, c, max) = [a EXCEPT !.rest = Append(@, c)]
    BY <1>1 DEF ReadNext
  <2> QED BY <1>1, <2>1 DEF ReadState, ReadStates
<1>2. CASE a.mode = "bad"
  BY <1>2 DEF ReadNext
<1> QED BY <1>1, <1>2

\* Cells that were read and are in no record yet, or in one that is not complete.
Pending(a) == IF a.mode = "stored" THEN a.recs[Len(a.recs)].n - a.left ELSE a.run

\* What is known after k cells, unless the stream was bad.
Sound(raw, k, a) ==
  /\ a.mode = "stored" => /\ a.left > 0 /\ a.recs # <<>> /\ a.recs[Len(a.recs)].n \in Nat
                          /\ a.recs[Len(a.recs)] = Stored(a.recs[Len(a.recs)].n)
  /\ a.mode # "stored" => a.left = 0
  /\ a.mode # "coded" => a.run = 0
  /\ a.mode # "trailing" => a.rest = <<>>
  /\ a.mode = "header" => ~a.final
  /\ a.mode = "trailing" => a.final
  /\ Pending(a) \in Nat /\ Pending(a) <= Len(a.plain) /\ Pending(a) + Len(a.rest) <= k
  /\ a.mode = "coded" => \A j \in k - Pending(a) + 1 .. k :
                           raw[j] = Literal(a.plain[Len(a.plain) - k + j].b)
  /\ a.mode = "stored" => \A j \in k - Pending(a) + 1 .. k :
                            raw[j] = a.plain[Len(a.plain) - k + j]
  /\ \A j \in k - Len(a.rest) + 1 .. k : raw[j] = a.rest[Len(a.rest) - k + j]

\* The state a is what k cells of raw may leave, within the limit.
Tracks(C, raw, k, a, max) ==
  /\ a \in ReadStates(Elements(C))
  /\ Len(a.plain) + a.left <= max
  /\ a.mode # "bad" => Sound(raw, k, a)

\* t begins with s.
IsStart(s, t) == Len(s) <= Len(t) /\ \A i \in 1 .. Len(s) : t[i] = s[i]

\* Reading on only adds; and after a final block there is no other.
Grows(a, z) ==
  /\ IsStart(a.plain, z.plain) /\ IsStart(a.recs, z.recs) /\ IsStart(a.rest, z.rest)
  /\ a.blocks <= z.blocks
  /\ a.mode = "bad" => z.mode = "bad"
  /\ a.final /\ a.mode # "header" => z.final /\ z.mode # "header" /\ z.blocks = a.blocks

\* Beginnings stay beginnings.
LEMMA StartAppend ==
  ASSUME NEW S, NEW s \in Seq(S), NEW t \in Seq(S), IsStart(s, t), NEW e \in S
  PROVE  IsStart(s, Append(t, e)) /\ IsStart(s, s)
<1>1. /\ Len(Append(t, e)) = Len(t) + 1 /\ Len(s) \in Nat /\ Len(t) \in Nat
      /\ \A i \in 1 .. Len(t) : Append(t, e)[i] = t[i]
  BY AppendProperties
<1>2. Len(s) <= Len(t) /\ \A i \in 1 .. Len(s) : t[i] = s[i] /\ i \in 1 .. Len(t)
  BY <1>1 DEF IsStart
<1> QED BY <1>1, <1>2 DEF IsStart

LEMMA StartTrans ==
  ASSUME NEW S, NEW s \in Seq(S), NEW t \in Seq(S), NEW u \in Seq(S),
         IsStart(s, t), IsStart(t, u)
  PROVE  IsStart(s, u)
<1>1. Len(s) \in Nat /\ Len(t) \in Nat /\ Len(u) \in Nat
  OBVIOUS
<1>2. \A i \in 1 .. Len(s) : i \in 1 .. Len(t)
  BY <1>1 DEF IsStart
<1> QED BY <1>1, <1>2 DEF IsStart

LEMMA StartSelf ==
  ASSUME NEW S, NEW s \in Seq(S)
  PROVE  IsStart(s, s)
<1>1. Len(s) \in Nat
  OBVIOUS
<1> QED BY <1>1 DEF IsStart

\* Growth adds up.
LEMMA GrowsTrans ==
  ASSUME NEW S, NEW a \in ReadStates(S), NEW b \in ReadStates(S), NEW z \in ReadStates(S),
         Grows(a, b), Grows(b, z)
  PROVE  Grows(a, z)
<1>1. IsStart(a.plain, z.plain) /\ IsStart(a.recs, z.recs) /\ IsStart(a.rest, z.rest)
  BY StartTrans, ReadFields DEF Grows
<1>2. a.blocks <= z.blocks
  <2>1. a.blocks \in Nat /\ b.blocks \in Nat /\ z.blocks \in Nat
    BY ReadFields
  <2> QED BY <2>1 DEF Grows
<1> QED BY <1>1, <1>2 DEF Grows

\* Giving a stream up is always sound.
LEMMA BadTracks ==
  ASSUME NEW C, NEW raw, NEW k \in Nat, NEW max \in Nat, NEW a, Tracks(C, raw, k, a, max)
  PROVE  Tracks(C, raw, k + 1, Bad(a), max) /\ Grows(a, Bad(a))
<1> DEFINE S == Elements(C)
<1>1. a \in ReadStates(S)
  BY DEF Tracks
<1>2. /\ Bad(a).plain = a.plain /\ Bad(a).recs = a.recs /\ Bad(a).left = a.left
      /\ Bad(a).mode = "bad" /\ Bad(a).blocks = a.blocks /\ Bad(a).final = a.final
      /\ Bad(a).rest = a.rest /\ Bad(a) \in ReadStates(S)
  <2>1. Bad(a) = ReadState("bad", a.plain, a.recs, a.run, a.left, a.blocks, a.final, a.rest)
    BY <1>1, ReadBad
  <2>2. Bad(a) \in ReadStates(S)
    <3> DEFINE x == Bad(a)
    <3> HIDE DEF x, S
    <3>1. x = ReadState("bad", a.plain, a.recs, a.run, a.left, a.blocks, a.final, a.rest)
      BY <2>1 DEF x
    <3>2. x \in ReadStates(S)
      BY <1>1, <3>1, ReadFields, ReadStateType
    <3> QED BY <3>2 DEF x
  <2> QED BY <2>1, <2>2, ReadStateIs
<1>3. /\ IsStart(a.plain, a.plain) /\ IsStart(a.recs, a.recs) /\ IsStart(a.rest, a.rest)
      /\ a.blocks <= a.blocks
  BY <1>1, ReadFields, StartSelf
<1> HIDE DEF S
<1>4. Grows(a, Bad(a))
  BY <1>2, <1>3 DEF Grows
<1>5. Tracks(C, raw, k + 1, Bad(a), max)
  BY <1>2 DEF Tracks, S
<1> QED BY <1>4, <1>5

\* Closing a run of literals only adds a record.
LEMMA FlushType ==
  ASSUME NEW C, NEW a \in ReadStates(Elements(C))
  PROVE  Flush(a) \in Seq(Elements(C)) /\ IsStart(a.recs, Flush(a))
<1> DEFINE S == Elements(C)
<1>1. a.recs \in Seq(S) /\ Literals(a.run) \in S /\ IsStart(a.recs, a.recs)
  BY ReadFields, ElementsOf, StartSelf
<1> HIDE DEF S
<1>2. Append(a.recs, Literals(a.run)) \in Seq(S) /\ IsStart(a.recs, Append(a.recs, Literals(a.run)))
  BY <1>1, AppendProperties, StartAppend
<1> QED BY <1>1, <1>2 DEF Flush, S

\* Both ends move on by one cell.
LEMMA Shifted ==
  ASSUME NEW k \in Nat, NEW l \in Nat, NEW n \in Nat, n <= l,
         NEW j \in (k + 1) - (n + 1) + 1 .. k + 1
  PROVE  /\ j = k + 1 => (l + 1) - (k + 1) + j = l + 1
         /\ j # k + 1 => /\ j \in k - n + 1 .. k /\ l - k + j \in 1 .. l
                         /\ (l + 1) - (k + 1) + j = l - k + j
  OBVIOUS

\* A block header, read by transform, keeps what is known.
LEMMA HeaderTracks ==
  ASSUME NEW C, NEW raw, NEW k \in Nat, NEW max \in Nat, NEW a, Tracks(C, raw, k, a, max),
         a.mode = "header", NEW c \in C, Streamed(c)
  PROVE  Tracks(C, raw, k + 1, ReadNext(a, c, max), max) /\ Grows(a, ReadNext(a, c, max))
<1> DEFINE S == Elements(C)
           z == ReadNext(a, c, max)
<1>1. a \in ReadStates(S) /\ Sound(raw, k, a) /\ Len(a.plain) + a.left <= max
  BY DEF Tracks
<1>2. /\ a.plain \in Seq(S) /\ a.recs \in Seq(S) /\ a.rest = <<>> /\ a.run = 0 /\ a.left = 0
      /\ a.blocks \in Nat /\ ~a.final /\ Len(a.plain) \in Nat /\ <<>> \in Seq(S)
      /\ Len(a.recs) \in Nat
  BY <1>1, ReadFields, EmptySeq DEF Sound
<1>3. c \in S /\ (\A n \in Nat : Stored(n) \in S)
  BY ElementsOf
<1>0. IsStart(a.rest, a.rest)
  BY <1>2, StartSelf
<1>4. /\ IsStart(a.plain, a.plain) /\ Append(a.recs, c) \in Seq(S)
      /\ IsStart(a.recs, Append(a.recs, c)) /\ Len(Append(a.recs, c)) = Len(a.recs) + 1
  BY <1>2, <1>3, StartSelf, StartAppend, AppendProperties
<1>5. CASE z = Bad(a)
  BY <1>5, BadTracks
<1>6. CASE c.t = "block" /\ c.kind = "coded" /\ z = ReadCoded(a, c)
  <2>1. /\ z = ReadState("coded", a.plain, Append(a.recs, c), 0, 0, a.blocks + 1, c.final, <<>>)
        /\ c.final \in BOOLEAN
    BY <1>2, <1>6 DEF ReadCoded, Streamed
  <2>2. /\ z.mode = "coded" /\ z.plain = a.plain /\ z.recs = Append(a.recs, c) /\ z.run = 0
        /\ z.left = 0 /\ z.blocks = a.blocks + 1 /\ z.final = c.final /\ z.rest = <<>>
    <3> HIDE DEF z
    <3> QED BY <2>1 DEF ReadState
  <2> HIDE DEF S
  <2>3. z \in ReadStates(S)
    <3> HIDE DEF z
    <3> QED BY <1>2, <1>4, <2>1 DEF ReadStates, ReadState
  <2> HIDE DEF z
  <2>4. Sound(raw, k + 1, z)
    BY <1>2, <2>2 DEF Sound, Pending
  <2>5. Grows(a, z)
    BY <1>0, <1>2, <1>4, <2>2 DEF Grows
  <2> QED BY <1>1, <1>2, <2>2, <2>3, <2>4, <2>5 DEF Tracks, S, z
<1>7. CASE /\ c.t = "block" /\ c.kind # "coded" /\ ~(Len(a.plain) + c.n > max)
           /\ z = ReadPlain(a, c)
  <2> DEFINE m == IF c.n # 0 THEN "stored" ELSE IF c.final THEN "trailing" ELSE "header"
             r == Append(Append(a.recs, c), Stored(c.n))
  <2>1. c.final \in BOOLEAN /\ c.n \in Nat
    BY <1>7 DEF Streamed
  <2>2. z = ReadState(m, a.plain, r, 0, c.n, a.blocks + 1, c.final, <<>>)
    BY <1>2, <1>7 DEF ReadPlain
  <2>3. /\ z.mode = m /\ z.plain = a.plain /\ z.recs = r /\ z.run = 0
        /\ z.left = c.n /\ z.blocks = a.blocks + 1 /\ z.final = c.final /\ z.rest = <<>>
    <3> HIDE DEF z, r, m
    <3> QED BY <2>2, ReadStateIs
  <2>4. /\ r \in Seq(S) /\ Len(r) = Len(a.recs) + 2 /\ r[Len(r)] = Stored(c.n) /\ r # <<>>
        /\ IsStart(a.recs, r)
    <3> HIDE DEF S
    <3> DEFINE q == Append(a.recs, c)
    <3>1. q \in Seq(S) /\ IsStart(a.recs, q) /\ Stored(c.n) \in S /\ Len(q) = Len(a.recs) + 1
      BY <1>3, <1>4, <2>1
    <3> HIDE DEF q
    <3>2. /\ Append(q, Stored(c.n)) \in Seq(S) /\ Len(Append(q, Stored(c.n))) = Len(q) + 1
          /\ Append(q, Stored(c.n))[Len(q) + 1] = Stored(c.n) /\ Append(q, Stored(c.n)) # <<>>
          /\ IsStart(a.recs, Append(q, Stored(c.n)))
      BY SMTT(40), <1>2, <3>1, AppendProperties, StartAppend
    <3> QED BY <1>2, <3>1, <3>2 DEF q
  <2>5. m \in {"header", "stored", "coded", "trailing", "bad"}
    OBVIOUS
  <2> HIDE DEF S
  <2>6. z \in ReadStates(S)
    <3> HIDE DEF m, r, z
    <3> QED BY <1>2, <2>1, <2>2, <2>4, <2>5 DEF ReadStates, ReadState
  <2>7. Stored(c.n).n = c.n
    BY DEF Stored
  <2> HIDE DEF z, r
  <2>8. Pending(z) = 0
    BY <2>1, <2>3, <2>4, <2>7 DEF Pending
  <2>9. Sound(raw, k + 1, z)
    <3>1. /\ Len(z.rest) = 0 /\ Len(z.plain) \in Nat
      BY <1>2, <2>3
    <3>2. \A j \in k + 1 - 0 + 1 .. k + 1 : FALSE
      OBVIOUS
    <3>3. /\ z.mode = "stored" => /\ z.left > 0 /\ z.recs # <<>> /\ z.recs[Len(z.recs)].n \in Nat
                                  /\ z.recs[Len(z.recs)] = Stored(z.recs[Len(z.recs)].n)
          /\ z.mode # "stored" => z.left = 0
          /\ z.mode = "header" => ~z.final
          /\ z.mode = "trailing" => z.final
          /\ z.mode # "coded"
      BY <2>1, <2>3, <2>4, <2>7
    <3> QED BY <2>3, <2>8, <3>1, <3>2, <3>3 DEF Sound
  <2>10. Grows(a, z)
    <3>1. a.blocks <= a.blocks + 1
      BY <1>2
    <3> QED BY <1>0, <1>2, <1>4, <2>3, <2>4, <3>1 DEF Grows
  <2>11. Len(z.plain) + z.left <= max
    BY <1>2, <1>7, <2>1, <2>3
  <2> QED BY <2>6, <2>9, <2>10, <2>11 DEF Tracks, S, z
<1> QED BY <1>1, <1>5, <1>6, <1>7, ReadHeaderCases

\* So does a byte of a stored block.
LEMMA StoredTracks ==
  ASSUME NEW C, NEW raw, NEW k \in Nat, NEW max \in Nat, NEW a, Tracks(C, raw, k, a, max),
         a.mode = "stored", raw[k + 1] \in C
  PROVE  /\ Tracks(C, raw, k + 1, ReadNext(a, raw[k + 1], max), max)
         /\ Grows(a, ReadNext(a, raw[k + 1], max))
<1> DEFINE S == Elements(C)
           c == raw[k + 1]
           z == ReadNext(a, c, max)
           m == IF a.left = 1 THEN After(a.final) ELSE "stored"
           p == Append(a.plain, c)
<1>1. a \in ReadStates(S) /\ Sound(raw, k, a) /\ Len(a.plain) + a.left <= max
  BY DEF Tracks
<1>2. /\ a.plain \in Seq(S) /\ a.recs \in Seq(S) /\ a.rest = <<>> /\ a.run = 0 /\ a.left \in Nat
      /\ a.left > 0 /\ Len(a.plain) \in Nat /\ <<>> \in Seq(S)
      /\ a.blocks \in Nat /\ a.final \in BOOLEAN
  BY <1>1, ReadFields, EmptySeq DEF Sound
<1>3. c \in S
  BY ElementsOf
<1>0. IsStart(a.rest, a.rest)
  BY <1>2, StartSelf
<1>4. /\ p \in Seq(S) /\ Len(p) = Len(a.plain) + 1 /\ p[Len(a.plain) + 1] = c
      /\ \A i \in 1 .. Len(a.plain) : p[i] = a.plain[i]
      /\ IsStart(a.plain, p) /\ IsStart(a.recs, a.recs)
  BY <1>2, <1>3, AppendProperties, StartSelf, StartAppend
<1>5. CASE z = Bad(a)
  BY <1>5, BadTracks
<1>6. CASE z = ReadState(m, p, a.recs, a.run, a.left - 1, a.blocks, a.final, a.rest)
  <2>1. /\ z.mode = m /\ z.plain = p /\ z.recs = a.recs /\ z.run = 0 /\ z.left = a.left - 1
        /\ z.blocks = a.blocks /\ z.final = a.final /\ z.rest = <<>>
    <3> HIDE DEF z, m, p
    <3>1. /\ z.mode = m /\ z.plain = p /\ z.recs = a.recs /\ z.run = a.run
          /\ z.left = a.left - 1 /\ z.blocks = a.blocks /\ z.final = a.final /\ z.rest = a.rest
      BY <1>6, ReadStateIs
    <3> QED BY <1>2, <3>1
  <2> HIDE DEF S, p, c
  <2>2. m \in {"header", "stored", "coded", "trailing", "bad"} /\ a.left - 1 \in Nat
    BY <1>2 DEF After
  <2>3. z \in ReadStates(S)
    <3> HIDE DEF m, z
    <3> QED BY <1>2, <1>4, <1>6, <2>2 DEF ReadStates, ReadState
  <2>4. /\ a.left = 1 => z.mode = After(a.final) /\ z.left = 0
        /\ a.left # 1 => z.mode = "stored" /\ z.left > 0
    BY <1>2, <2>1
  <2> HIDE DEF m, z
  <2>5. Grows(a, z)
    BY <1>0, <1>2, <1>4, <2>1, <2>4 DEF Grows, After
  <2>6. Sound(raw, k + 1, z)
    <3> DEFINE n == a.recs[Len(a.recs)].n
    <3>1. /\ n \in Nat /\ Pending(a) = n - a.left /\ Pending(a) \in Nat /\ a.recs # <<>>
          /\ a.recs[Len(a.recs)] = Stored(n) /\ Pending(a) <= Len(a.plain) /\ Pending(a) <= k
          /\ \A j \in k - Pending(a) + 1 .. k : raw[j] = a.plain[Len(a.plain) - k + j]
      BY SMTT(40), <1>1, <1>2 DEF Sound, Pending
    <3>2. CASE a.left = 1
      <4>1. Pending(z) = 0 /\ Len(z.rest) = 0 /\ Len(z.plain) \in Nat
        BY <1>4, <2>1, <2>4, <3>2 DEF Pending, After
      <4>2. \A j \in k + 1 - 0 + 1 .. k + 1 : FALSE
        OBVIOUS
      <4> QED BY <1>2, <2>1, <2>4, <3>2, <4>1, <4>2 DEF Sound, After
    <3>3. CASE a.left # 1
      <4>1. Pending(z) = Pending(a) + 1 /\ Len(z.rest) = 0 /\ Len(z.plain) = Len(a.plain) + 1
        <5>1. Pending(z) = n - (a.left - 1)
          BY <2>1, <2>4, <3>3 DEF Pending
        <5>2. n - (a.left - 1) = (n - a.left) + 1
          BY SMTT(40), <1>2, <3>1
        <5> HIDE DEF n
        <5> QED BY <1>4, <2>1, <3>1, <5>1, <5>2
      <4>2. ASSUME NEW j \in (k + 1) - (Pending(a) + 1) + 1 .. k + 1
            PROVE  raw[j] = p[(Len(a.plain) + 1) - (k + 1) + j]
        <5>1. CASE j = k + 1
          <6>1. (Len(a.plain) + 1) - (k + 1) + j = Len(a.plain) + 1
            <7> DEFINE l == Len(a.plain)
            <7>1. l \in Nat
              BY <1>2
            <7> HIDE DEF l
            <7> SUFFICES (l + 1) - (k + 1) + j = l + 1
              BY DEF l
            <7> QED BY <5>1, <7>1
          <6> QED BY <1>4, <5>1, <6>1 DEF c
        <5>2. CASE j # k + 1
          <6>1. /\ j \in k - Pending(a) + 1 .. k /\ Len(a.plain) - k + j \in 1 .. Len(a.plain)
                /\ (Len(a.plain) + 1) - (k + 1) + j = Len(a.plain) - k + j
            <7> DEFINE l == Len(a.plain)
                       q == Pending(a)
            <7>1. l \in Nat /\ q \in Nat /\ q <= l
              BY <1>2, <3>1
            <7>2. j \in (k + 1) - (q + 1) + 1 .. k + 1
              OBVIOUS
            <7> HIDE DEF l, q
            <7>3. j \in k - q + 1 .. k /\ l - k + j \in 1 .. l /\ (l + 1) - (k + 1) + j = l - k + j
              BY <5>2, <7>1, <7>2, Shifted
            <7> QED BY <7>3 DEF l, q
          <6> QED BY <1>4, <3>1, <6>1
        <5> QED BY <5>1, <5>2
      <4>3. \A j \in (k + 1) - 0 + 1 .. k + 1 : FALSE
        OBVIOUS
      <4>4. Pending(a) + 1 \in Nat /\ Pending(a) + 1 <= Len(a.plain) + 1 /\ (Pending(a) + 1) + 0 <= k + 1
        BY SMTT(40), <1>2, <3>1
      <4> HIDE DEF n
      <4> QED BY <1>2, <2>1, <2>4, <3>1, <3>3, <4>1, <4>2, <4>3, <4>4 DEF Sound, n
    <3> QED BY <3>2, <3>3
  <2>7. Len(z.plain) + z.left <= max
    BY <1>1, <1>2, <1>4, <2>1
  <2> QED BY <2>3, <2>5, <2>6, <2>7 DEF Tracks, S, z, c
<1> QED BY <1>1, <1>5, <1>6, ReadStoredCases

\* So does a token of a coded block.
LEMMA TokenTracks ==
  ASSUME NEW C, NEW raw, NEW k \in Nat, NEW max \in Nat, NEW a, Tracks(C, raw, k, a, max),
         a.mode = "coded", raw[k + 1] \in C, Streamed(raw[k + 1])
  PROVE  /\ Tracks(C, raw, k + 1, ReadNext(a, raw[k + 1], max), max)
         /\ Grows(a, ReadNext(a, raw[k + 1], max))
<1> DEFINE S == Elements(C)
           c == raw[k + 1]
           z == ReadNext(a, c, max)
<1>1. a \in ReadStates(S) /\ Sound(raw, k, a) /\ Len(a.plain) + a.left <= max
  BY DEF Tracks
<1>2. /\ a.plain \in Seq(S) /\ a.recs \in Seq(S) /\ a.rest = <<>> /\ a.left = 0
      /\ Len(a.plain) \in Nat /\ <<>> \in Seq(S) /\ a.run \in Nat /\ Len(a.plain) <= max
      /\ a.blocks \in Nat /\ a.final \in BOOLEAN
  BY <1>1, ReadFields, EmptySeq DEF Sound
<1>3. c \in S /\ Byte(c.b) \in S /\ Streamed(c)
  BY ElementsOf
<1>4. IsStart(a.plain, a.plain) /\ IsStart(a.recs, a.recs) /\ IsStart(a.rest, a.rest)
  BY <1>2, StartSelf
<1>5. /\ Pending(a) = a.run /\ a.run <= Len(a.plain) /\ a.run <= k
      /\ \A j \in k - a.run + 1 .. k : raw[j] = Literal(a.plain[Len(a.plain) - k + j].b)
  BY <1>1, <1>2 DEF Sound, Pending
<1>6. /\ Flush(a) \in Seq(S) /\ IsStart(a.recs, Flush(a))
      /\ Append(Flush(a), c) \in Seq(S) /\ IsStart(a.recs, Append(Flush(a), c))
  <2>1. Flush(a) \in Seq(S) /\ IsStart(a.recs, Flush(a))
    BY <1>1, FlushType
  <2> HIDE DEF S, c
  <2> QED BY <1>2, <1>3, <2>1, StartAppend, AppendProperties
<1>7. CASE z = Bad(a)
  BY <1>7, BadTracks
<1>8. CASE /\ c.t = "literal" /\ Len(a.plain) < max
           /\ z = ReadState("coded", Append(a.plain, Byte(c.b)), a.recs, a.run + 1, a.left,
                            a.blocks, a.final, a.rest)
  <2> DEFINE p == Append(a.plain, Byte(c.b))
  <2>1. /\ p \in Seq(S) /\ Len(p) = Len(a.plain) + 1 /\ p[Len(a.plain) + 1] = Byte(c.b)
        /\ \A i \in 1 .. Len(a.plain) : p[i] = a.plain[i]
        /\ IsStart(a.plain, p)
    <3> HIDE DEF S, c
    <3> QED BY <1>2, <1>3, <1>4, AppendProperties, StartAppend
  <2>2. c = Literal(Byte(c.b).b)
    BY <1>3, <1>8 DEF Streamed, Byte
  <2> HIDE DEF S, p, c, z
  <2>3. /\ z.mode = "coded" /\ z.plain = p /\ z.recs = a.recs /\ z.run = a.run + 1 /\ z.left = 0
        /\ z.blocks = a.blocks /\ z.final = a.final /\ z.rest = <<>>
    BY <1>2, <1>8 DEF ReadState, p
  <2>4. z \in ReadStates(S)
    BY <1>2, <1>8, <2>1 DEF ReadState, ReadStates, p
  <2>5. Grows(a, z)
    BY <1>2, <1>4, <2>1, <2>3 DEF Grows
  <2>6. Pending(z) = a.run + 1 /\ Len(z.rest) = 0
    BY <2>3 DEF Pending
  <2>7. ASSUME NEW j \in (k + 1) - (a.run + 1) + 1 .. k + 1
        PROVE  raw[j] = Literal(p[(Len(a.plain) + 1) - (k + 1) + j].b)
    <3> DEFINE l == Len(a.plain)
    <3>1. l \in Nat /\ a.run <= l /\ l = Len(a.plain)
      BY <1>2, <1>5
    <3> HIDE DEF l
    <3> SUFFICES raw[j] = Literal(p[(l + 1) - (k + 1) + j].b)
      BY <3>1
    <3>2. CASE j = k + 1
      <4>0. l \in Nat
        BY <3>1
      <4>1. (l + 1) - (k + 1) + j = l + 1
        BY <3>2, <4>0
      <4>2. p[l + 1] = Byte(c.b)
        BY <2>1, <3>1
      <4> QED BY <2>2, <3>2, <4>1, <4>2 DEF c
    <3>3. CASE j # k + 1
      <4>1. j \in k - a.run + 1 .. k /\ l - k + j \in 1 .. l /\ (l + 1) - (k + 1) + j = l - k + j
        BY SMTT(40), <1>2, <3>1, <3>3, Shifted
      <4>2. p[l - k + j] = a.plain[l - k + j] /\ raw[j] = Literal(a.plain[l - k + j].b)
        BY <1>5, <2>1, <3>1, <4>1
      <4> QED BY <4>1, <4>2
    <3> QED BY <3>2, <3>3
  <2>8. Sound(raw, k + 1, z)
    <3>1. \A j \in (k + 1) - 0 + 1 .. k + 1 : FALSE
      OBVIOUS
    <3>2. a.run + 1 \in Nat /\ a.run + 1 <= Len(a.plain) + 1 /\ (a.run + 1) + 0 <= k + 1
      BY <1>2, <1>5
    <3> QED BY <2>1, <2>3, <2>6, <2>7, <3>1, <3>2 DEF Sound
  <2>9. Len(z.plain) + z.left <= max
    BY <1>2, <1>8, <2>1, <2>3
  <2> QED BY <2>4, <2>5, <2>8, <2>9 DEF Tracks, S, z, c
<1>9. CASE /\ c.t = "match" /\ MatchFits(a.plain, c.n, c.d, max)
           /\ z = ReadState("coded", AppendMatch(a.plain, c.n, c.d), Append(Flush(a), c), 0,
                            a.left, a.blocks, a.final, a.rest)
  <2> DEFINE p == AppendMatch(a.plain, c.n, c.d)
             r == Append(Flush(a), c)
  <2>1. c.n \in Nat /\ c.d \in 1 .. Len(a.plain) /\ Len(a.plain) + c.n <= max
    BY <1>3, <1>9 DEF Streamed, MatchFits
  <2>2. /\ p \in Seq(S) /\ Len(p) = Len(a.plain) + c.n
        /\ \A i \in 1 .. Len(a.plain) : p[i] = a.plain[i]
    <3>1. \A n \in Nat, d \in 1 .. Len(a.plain) :
            /\ AppendMatch(a.plain, n, d) \in Seq(S)
            /\ Len(AppendMatch(a.plain, n, d)) = Len(a.plain) + n
            /\ \A i \in 1 .. Len(a.plain) : AppendMatch(a.plain, n, d)[i] = a.plain[i]
      <4> HIDE DEF S
      <4> QED BY ZenonT(60), <1>2, MatchType
    <3> HIDE DEF S, c
    <3> QED BY <2>1, <3>1
  <2>3. IsStart(a.plain, p)
    BY <1>2, <2>1, <2>2 DEF IsStart
  <2> HIDE DEF S, p, r, c, z
  <2>4. /\ z.mode = "coded" /\ z.plain = p /\ z.recs = r /\ z.run = 0 /\ z.left = 0
        /\ z.blocks = a.blocks /\ z.final = a.final /\ z.rest = <<>>
    BY <1>2, <1>9 DEF ReadState, p, r
  <2>5. z \in ReadStates(S)
    BY <1>2, <1>6, <1>9, <2>2 DEF ReadState, ReadStates, p, r
  <2>6. Grows(a, z)
    BY <1>2, <1>4, <1>6, <2>3, <2>4 DEF Grows, r
  <2>7. Sound(raw, k + 1, z)
    <3>1. \A j \in (k + 1) - 0 + 1 .. k + 1 : FALSE
      OBVIOUS
    <3>2. Pending(z) = 0 /\ Len(z.rest) = 0
      BY <2>4 DEF Pending
    <3>3. Len(z.plain) \in Nat /\ 0 <= Len(z.plain)
      BY <1>2, <2>1, <2>2, <2>4
    <3> QED BY <2>4, <3>1, <3>2, <3>3 DEF Sound
  <2>8. Len(z.plain) + z.left <= max
    BY <1>2, <2>1, <2>2, <2>4
  <2> QED BY <2>5, <2>6, <2>7, <2>8 DEF Tracks, S, z, c
<1>10. CASE /\ c.t = "end"
            /\ z = ReadState(After(a.final), a.plain, Append(Flush(a), c), 0, a.left, a.blocks,
                             a.final, a.rest)
  <2> DEFINE r == Append(Flush(a), c)
  <2> HIDE DEF S, r, c, z
  <2>1. /\ z.mode = After(a.final) /\ z.plain = a.plain /\ z.recs = r /\ z.run = 0 /\ z.left = 0
        /\ z.blocks = a.blocks /\ z.final = a.final /\ z.rest = <<>>
    BY <1>2, <1>10 DEF ReadState, r
  <2>2. z \in ReadStates(S)
    <3>1. After(a.final) \in {"header", "stored", "coded", "trailing", "bad"}
      BY DEF After
    <3> QED BY <1>2, <1>6, <1>10, <3>1 DEF ReadState, ReadStates, r
  <2>3. Grows(a, z)
    BY <1>2, <1>4, <1>6, <2>1 DEF Grows, After, r
  <2>4. Sound(raw, k + 1, z)
    <3>1. \A j \in (k + 1) - 0 + 1 .. k + 1 : FALSE
      OBVIOUS
    <3>2. z.mode # "stored" /\ z.mode # "coded"
      BY <2>1 DEF After
    <3>3. Pending(z) = 0 /\ Len(z.rest) = 0
      BY <2>1, <3>2 DEF Pending
    <3> QED BY <1>2, <2>1, <3>1, <3>2, <3>3 DEF Sound, After
  <2>5. Len(z.plain) + z.left <= max
    BY <1>2, <2>1
  <2> QED BY <2>2, <2>3, <2>4, <2>5 DEF Tracks, S, z, c
<1> QED BY <1>1, <1>7, <1>8, <1>9, <1>10, ReadTokenCases

\* So does what follows the last block.
LEMMA RestTracks ==
  ASSUME NEW C, NEW raw, NEW k \in Nat, NEW max \in Nat, NEW a, Tracks(C, raw, k, a, max),
         a.mode = "trailing", raw[k + 1] \in C
  PROVE  /\ Tracks(C, raw, k + 1, ReadNext(a, raw[k + 1], max), max)
         /\ Grows(a, ReadNext(a, raw[k + 1], max))
<1> DEFINE S == Elements(C)
           c == raw[k + 1]
           z == ReadNext(a, c, max)
           e == Append(a.rest, c)
<1>1. a \in ReadStates(S) /\ Sound(raw, k, a) /\ Len(a.plain) + a.left <= max
  BY DEF Tracks
<1>2. /\ a.plain \in Seq(S) /\ a.recs \in Seq(S) /\ a.rest \in Seq(S) /\ a.left = 0 /\ a.run = 0
      /\ Len(a.plain) \in Nat /\ Len(a.rest) \in Nat /\ a.final
      /\ a.blocks \in Nat /\ a.final \in BOOLEAN
  BY <1>1, ReadFields DEF Sound
<1>3. c \in S
  BY ElementsOf
<1>4. IsStart(a.plain, a.plain) /\ IsStart(a.recs, a.recs)
  BY <1>2, StartSelf
<1>5. /\ Pending(a) = 0 /\ Len(a.rest) <= k
      /\ \A j \in k - Len(a.rest) + 1 .. k : raw[j] = a.rest[Len(a.rest) - k + j]
  BY <1>1, <1>2 DEF Sound, Pending
<1>6. z = ReadState("trailing", a.plain, a.recs, a.run, a.left, a.blocks, a.final, e)
  BY <1>1, ReadRestCases
<1> HIDE DEF S
<1>7. /\ e \in Seq(S) /\ Len(e) = Len(a.rest) + 1 /\ e[Len(a.rest) + 1] = c
      /\ \A i \in 1 .. Len(a.rest) : e[i] = a.rest[i]
      /\ IsStart(a.rest, e)
  <2> HIDE DEF c
  <2>1. /\ e \in Seq(S) /\ Len(e) = Len(a.rest) + 1 /\ e[Len(a.rest) + 1] = c
        /\ \A i \in 1 .. Len(a.rest) : e[i] = a.rest[i]
    BY <1>2, <1>3, AppendProperties
  <2> HIDE DEF e
  <2>2. IsStart(a.rest, e)
    BY <1>2, <2>1 DEF IsStart
  <2> QED BY <2>1, <2>2
<1> HIDE DEF c, z, e
<1>8. /\ z.mode = "trailing" /\ z.plain = a.plain /\ z.recs = a.recs /\ z.run = 0 /\ z.left = 0
      /\ z.blocks = a.blocks /\ z.final = a.final /\ z.rest = e
  BY <1>2, <1>6 DEF ReadState
<1>9. z \in ReadStates(S)
  BY <1>2, <1>6, <1>7 DEF ReadState, ReadStates
<1>10. Grows(a, z)
  BY <1>2, <1>4, <1>7, <1>8 DEF Grows
<1>11. ASSUME NEW j \in (k + 1) - (Len(a.rest) + 1) + 1 .. k + 1
       PROVE  raw[j] = e[(Len(a.rest) + 1) - (k + 1) + j]
  <2> DEFINE l == Len(a.rest)
  <2>1. l \in Nat /\ l = Len(a.rest)
    BY <1>2
  <2> HIDE DEF l
  <2> SUFFICES raw[j] = e[(l + 1) - (k + 1) + j]
    BY <2>1
  <2>2. CASE j = k + 1
    <3>0. l \in Nat
      BY <2>1
    <3>1. (l + 1) - (k + 1) + j = l + 1
      BY <2>2, <3>0
    <3> QED BY <1>7, <2>1, <2>2, <3>1 DEF c
  <2>3. CASE j # k + 1
    <3>0. j \in (k + 1) - (l + 1) + 1 .. k + 1
      BY <2>1
    <3>1. j \in k - l + 1 .. k /\ l - k + j \in 1 .. l /\ (l + 1) - (k + 1) + j = l - k + j
      BY <2>1, <2>3, <3>0
    <3> QED BY <1>5, <1>7, <2>1, <3>1
  <2> QED BY <2>2, <2>3
<1>12. Sound(raw, k + 1, z)
  <2>1. Pending(z) = 0 /\ Len(z.rest) = Len(a.rest) + 1
    BY <1>7, <1>8 DEF Pending
  <2>2. 0 + (Len(a.rest) + 1) <= k + 1
    BY <1>2, <1>5
  <2> QED BY <1>2, <1>8, <1>11, <2>1, <2>2 DEF Sound
<1>13. Len(z.plain) + z.left <= max
  BY <1>1, <1>2, <1>8
<1> QED BY <1>9, <1>10, <1>12, <1>13 DEF Tracks, S, z, c

\* So does whatever cell comes next.
LEMMA NextTracks ==
  ASSUME NEW C, NEW raw, NEW k \in Nat, NEW max \in Nat, NEW a, Tracks(C, raw, k, a, max),
         raw[k + 1] \in C, Streamed(raw[k + 1])
  PROVE  /\ Tracks(C, raw, k + 1, ReadNext(a, raw[k + 1], max), max)
         /\ Grows(a, ReadNext(a, raw[k + 1], max))
<1>1. a \in ReadStates(Elements(C))
  BY DEF Tracks
<1>2. a.mode \in {"header", "stored", "coded", "trailing", "bad"}
  BY <1>1, ReadFields
<1>3. CASE a.mode = "bad"
  <2>1. ReadNext(a, raw[k + 1], max) = a
    BY <1>1, <1>3, ReadRestCases
  <2>2. /\ IsStart(a.plain, a.plain) /\ IsStart(a.recs, a.recs) /\ IsStart(a.rest, a.rest)
        /\ a.blocks \in Nat
    BY <1>1, ReadFields, StartSelf
  <2>3. Grows(a, a)
    BY <1>3, <2>2 DEF Grows
  <2>4. Tracks(C, raw, k + 1, a, max)
    BY <1>3 DEF Tracks
  <2> QED BY <2>1, <2>3, <2>4
<1> QED BY <1>2, <1>3, HeaderTracks, StoredTracks, TokenTracks, RestTracks

ReadStep(max, a, c) == ReadNext(a, c, max)

Reading == INSTANCE RecursionLemmas WITH Step <- ReadStep

\* f[k] is the state after k cells.
Trace(raw, max, f) ==
  f[0] = ReadStart /\ \A i \in 1 .. Len(raw) : f[i] = ReadNext(f[i - 1], raw[i], max)

\* Reading a stream goes cell by cell.
LEMMA ReadTraced ==
  ASSUME NEW S, NEW raw \in Seq(S), NEW max
  PROVE  \E f : Trace(raw, max, f) /\ Read(raw, max) = f[Len(raw)]
<1>1. Read(raw, max) = Reading!Fold(max, ReadStart, raw)
  BY DEF Read, ReadStart, Reading!Fold, ReadStep, FoldLeft, MapThenFoldSet, Max,
         Reading!FoldLeft, Reading!MapThenFoldSet, Reading!Max
<1>2. Len(raw) \in Nat /\ DOMAIN raw = 1 .. Len(raw)
  OBVIOUS
<1>3. PICK f : /\ Reading!Unrolls(max, ReadStart, raw, f)
               /\ Reading!Fold(max, ReadStart, raw) = f[Len(raw)]
  BY <1>2, Reading!Unrolled
<1> QED BY <1>1, <1>3 DEF Trace, Reading!Unrolls, ReadStep

\* What is known holds after each of them.
LEMMA TraceTracks ==
  ASSUME NEW C, \A c \in C : Streamed(c), NEW raw \in Seq(C), NEW max \in Nat,
         NEW f, Trace(raw, max, f), NEW k \in 0 .. Len(raw)
  PROVE  Tracks(C, raw, k, f[k], max)
<1> DEFINE T == {i \in Nat : i <= Len(raw) => Tracks(C, raw, i, f[i], max)}
<1>1. 0 \in T
  <2> DEFINE S == Elements(C)
             a == f[0]
  <2>1. a = ReadStart
    BY DEF Trace
  <2>2. <<>> \in Seq(S) /\ Len(<<>>) = 0
    BY EmptySeq
  <2> HIDE DEF S, a
  <2>3. /\ a.mode = "header" /\ a.plain = <<>> /\ a.recs = <<>> /\ a.run = 0 /\ a.left = 0
        /\ a.final = FALSE /\ a.rest = <<>>
    BY <2>1 DEF ReadStart
  <2>4. a \in ReadStates(S)
    BY <2>1, <2>2 DEF ReadStart, ReadStates
  <2>5. Sound(raw, 0, a)
    <3>1. Pending(a) = 0
      BY <2>3 DEF Pending
    <3>2. \A j \in 0 - 0 + 1 .. 0 : FALSE
      OBVIOUS
    <3> QED BY <2>2, <2>3, <3>1, <3>2 DEF Sound
  <2>6. Len(a.plain) + a.left <= max
    BY <2>2, <2>3
  <2>7. Tracks(C, raw, 0, a, max)
    BY <2>4, <2>5, <2>6 DEF Tracks, S
  <2> QED BY <2>7 DEF a
<1>2. ASSUME NEW i \in Nat, i \in T PROVE i + 1 \in T
  <2> SUFFICES ASSUME i + 1 <= Len(raw) PROVE Tracks(C, raw, i + 1, f[i + 1], max)
    OBVIOUS
  <2>1. Len(raw) \in Nat /\ i + 1 \in 1 .. Len(raw) /\ i + 1 - 1 = i /\ i <= Len(raw)
    OBVIOUS
  <2>2. Tracks(C, raw, i, f[i], max) /\ raw[i + 1] \in C
    BY <1>2, <2>1
  <2>3. f[i + 1] = ReadNext(f[i], raw[i + 1], max)
    BY <2>1 DEF Trace
  <2> HIDE DEF T
  <2> QED BY <2>2, <2>3, NextTracks
<1> HIDE DEF T
<1>3. Nat \subseteq T
  BY <1>1, <1>2, Induction
<1> QED BY <1>3 DEF T

\* What was read stays, up to the end.
LEMMA TraceGrows ==
  ASSUME NEW C, \A c \in C : Streamed(c), NEW raw \in Seq(C), NEW max \in Nat,
         NEW f, Trace(raw, max, f), NEW k \in 0 .. Len(raw)
  PROVE  Grows(f[k], f[Len(raw)])
<1> DEFINE n == Len(raw)
           S == Elements(C)
           T == {i \in Nat : i <= n => Grows(f[n - i], f[n])}
<1>1. n \in Nat /\ n = Len(raw)
  OBVIOUS
<1>2. \A i \in 0 .. n : Tracks(C, raw, i, f[i], max) /\ f[i] \in ReadStates(S)
  <2>1. \A i \in 0 .. n : Tracks(C, raw, i, f[i], max)
    BY TraceTracks
  <2> QED BY <2>1 DEF Tracks
<1> HIDE DEF n, S
<1>3. 0 \in T
  <2> DEFINE z == f[n]
  <2>1. z \in ReadStates(S) /\ n - 0 = n
    BY <1>1, <1>2
  <2>2. /\ IsStart(z.plain, z.plain) /\ IsStart(z.recs, z.recs) /\ IsStart(z.rest, z.rest)
        /\ z.blocks \in Nat
    BY <2>1, ReadFields, StartSelf
  <2> HIDE DEF z
  <2>3. Grows(z, z)
    BY <2>2 DEF Grows
  <2> QED BY <2>1, <2>3 DEF z
<1>4. ASSUME NEW i \in Nat, i \in T PROVE i + 1 \in T
  <2> SUFFICES ASSUME i + 1 <= n PROVE Grows(f[n - (i + 1)], f[n])
    OBVIOUS
  <2> DEFINE j == n - (i + 1)
  <2>1. /\ j \in Nat /\ j \in 0 .. n /\ j + 1 = n - i /\ j + 1 \in 1 .. n /\ (j + 1) - 1 = j
        /\ i <= n /\ j + 1 \in 0 .. n /\ n \in 0 .. n
    BY <1>1
  <2> HIDE DEF j
  <2>2. Grows(f[j + 1], f[n])
    BY <1>4, <2>1
  <2>3. f[j + 1] = ReadNext(f[j], raw[j + 1], max) /\ raw[j + 1] \in C
    BY <1>1, <2>1 DEF Trace
  <2>4. Grows(f[j], f[j + 1])
    BY <1>2, <2>1, <2>3, NextTracks
  <2>5. Grows(f[j], f[n])
    BY <1>2, <2>1, <2>2, <2>4, GrowsTrans
  <2> QED BY <2>5 DEF j
<1> HIDE DEF T
<1>5. Nat \subseteq T
  BY <1>3, <1>4, Induction
<1>6. n - k \in Nat /\ n - k <= n /\ n - (n - k) = k
  BY <1>1
<1>7. n - k \in T
  BY <1>5, <1>6
<1> QED BY <1>6, <1>7 DEF T, n

\* A stream is not read further than the limit.
LEMMA ReadBounded ==
  ASSUME NEW C, \A c \in C : Streamed(c), NEW raw \in Seq(C), NEW max \in Nat
  PROVE  /\ Read(raw, max) \in ReadStates(Elements(C))
         /\ Len(Read(raw, max).plain) <= max
<1>1. PICK f : Trace(raw, max, f) /\ Read(raw, max) = f[Len(raw)]
  BY ReadTraced
<1>2. Len(raw) \in 0 .. Len(raw)
  OBVIOUS
<1>3. Tracks(C, raw, Len(raw), Read(raw, max), max)
  BY <1>1, <1>2, TraceTracks
<1> DEFINE a == Read(raw, max)
<1> HIDE DEF a
<1>4. Tracks(C, raw, Len(raw), a, max)
  BY <1>3 DEF a
<1>5. a \in ReadStates(Elements(C)) /\ Len(a.plain) + a.left <= max
  BY <1>4 DEF Tracks
<1>6. Len(a.plain) \in Nat /\ a.left \in Nat
  BY <1>5, ReadFields
<1> QED BY <1>5, <1>6 DEF a

(***************************************************************************)
(* Restoring                                                               *)
(***************************************************************************)

\* A state of restore.
RestoreState(m, o, p, l, f, b, e) ==
  [mode |-> m, out |-> o, made |-> p, left |-> l, final |-> f, blocks |-> b, rest |-> e]

\* The state restore begins in, with n blocks to write.
RestoreStart(n) == RestoreState("header", <<>>, <<>>, 0, FALSE, n, <<>>)

\* What a record of a recipe makes of a state that can take it.
LEMMA RestoresHeader ==
  ASSUME NEW o, NEW p, NEW l, NEW f, NEW b, NEW e, NEW r, NEW plain,
         r.t = "block", b > 0, ReadsAgain(r), ~f, r.final => b = 1
  PROVE  RestoreNext(RestoreState("header", o, p, l, f, b, e), r, plain)
           = RestoreState(r.kind, Append(o, r), p, r.n, r.final, b - 1, e)
<1> DEFINE a == RestoreState("header", o, p, l, f, b, e)
<1>1. a.mode = "header" /\ a.blocks = b /\ a.final = f
  BY DEF RestoreState
<1>2. RestoreNext(a, r, plain) = RestoreHeader(a, r)
  BY <1>1 DEF RestoreNext
<1>3. RestoreHeader(a, r) = [a EXCEPT !.out = Append(@, r), !.blocks = @ - 1, !.final = r.final,
                                      !.left = r.n, !.mode = r.kind]
  <2> HIDE DEF a
  <2> QED BY <1>1 DEF RestoreHeader
<1>4. ASSUME NEW x, x = RestoreHeader(a, r)
      PROVE  x = RestoreState(r.kind, Append(o, r), p, r.n, r.final, b - 1, e)
  BY <1>3, <1>4 DEF RestoreState
<1> QED BY <1>2, <1>4

\* The record of the padding, when all blocks are written.
LEMMA RestoresTrailing ==
  ASSUME NEW o, NEW p, NEW l, NEW f, NEW b, NEW e, NEW r, NEW plain, r.t = "trailing", b = 0
  PROVE  RestoreNext(RestoreState("header", o, p, l, f, b, e), r, plain)
           = RestoreState("trailing", o, p, r.n, f, b, e)
<1> DEFINE a == RestoreState("header", o, p, l, f, b, e)
<1>1. a.mode = "header" /\ a.blocks = b /\ a.final = f
  BY DEF RestoreState
<1>2. RestoreNext(a, r, plain) = RestoreHeader(a, r)
  BY <1>1 DEF RestoreNext
<1>3. RestoreHeader(a, r) = [a EXCEPT !.mode = "trailing", !.left = r.n]
  <2> HIDE DEF a
  <2> QED BY <1>1 DEF RestoreHeader
<1>4. ASSUME NEW x, x = RestoreHeader(a, r)
      PROVE  x = RestoreState("trailing", o, p, r.n, f, b, e)
  BY <1>3, <1>4 DEF RestoreState
<1> QED BY <1>2, <1>4

HasRoom(p, n, plain) == Len(p) + n <= Len(plain)

\* The record of a stored block.
LEMMA RestoresStored ==
  ASSUME NEW o, NEW p, NEW f, NEW b, NEW e, NEW l, NEW plain, HasRoom(p, l, plain)
  PROVE  RestoreNext(RestoreState("stored", o, p, l, f, b, e), Stored(l), plain)
           = RestoreState("header", o \o Bytes(plain, Len(p), l), p \o Bytes(plain, Len(p), l),
                          l, f, b, e)
<1> DEFINE a == RestoreState("stored", o, p, l, f, b, e)
           r == Stored(l)
<1>0. r.t = "stored" /\ r.n = l
  BY DEF Stored
<1>1. a.mode = "stored" /\ a.left = l /\ a.made = p
  BY DEF RestoreState
<1>2. RestoreNext(a, r, plain) = RestoreStored(a, r, plain)
  BY <1>1 DEF RestoreNext
<1>3. RestoreStored(a, r, plain) =
        [a EXCEPT !.out = @ \o Bytes(plain, Len(a.made), l),
                  !.made = @ \o Bytes(plain, Len(@), l),
                  !.mode = "header"]
  <2> HIDE DEF a, r
  <2> QED BY <1>0, <1>1 DEF RestoreStored, HasRoom
<1>4. ASSUME NEW x, x = RestoreStored(a, r, plain)
      PROVE  x = RestoreState("header", o \o Bytes(plain, Len(p), l),
                              p \o Bytes(plain, Len(p), l), l, f, b, e)
  BY <1>3, <1>4 DEF RestoreState
<1> QED BY <1>2, <1>4

\* A run of literals.
LEMMA RestoresLiterals ==
  ASSUME NEW o, NEW p, NEW l, NEW f, NEW b, NEW e, NEW r, NEW plain,
         r.t = "literals", Len(p) + r.n <= Len(plain)
  PROVE  RestoreNext(RestoreState("coded", o, p, l, f, b, e), r, plain)
           = RestoreState("coded", o \o [i \in 1 .. r.n |-> Literal(plain[Len(p) + i].b)],
                          p \o Bytes(plain, Len(p), r.n), l, f, b, e)
<1> DEFINE a == RestoreState("coded", o, p, l, f, b, e)
<1>1. a.mode = "coded" /\ a.made = p
  BY DEF RestoreState
<1>2. RestoreNext(a, r, plain) = RestoreToken(a, r, plain)
  BY <1>1 DEF RestoreNext
<1>3. RestoreToken(a, r, plain) =
        [a EXCEPT !.out = @ \o [i \in 1 .. r.n |-> Literal(plain[Len(p) + i].b)],
                  !.made = @ \o Bytes(plain, Len(p), r.n)]
  <2> HIDE DEF a
  <2> QED BY <1>1 DEF RestoreToken
<1>4. ASSUME NEW x, x = RestoreToken(a, r, plain)
      PROVE  x = RestoreState("coded", o \o [i \in 1 .. r.n |-> Literal(plain[Len(p) + i].b)],
                              p \o Bytes(plain, Len(p), r.n), l, f, b, e)
  BY <1>3, <1>4 DEF RestoreState
<1> QED BY <1>2, <1>4

\* A match, which must make what the source has there.
LEMMA RestoresMatch ==
  ASSUME NEW o, NEW p, NEW l, NEW f, NEW b, NEW e, NEW r, NEW plain,
         r.t = "match", MatchFits(p, r.n, r.d, Len(plain)),
         AppendMatch(p, r.n, r.d) = Bytes(plain, 0, Len(p) + r.n)
  PROVE  RestoreNext(RestoreState("coded", o, p, l, f, b, e), r, plain)
           = RestoreState("coded", Append(o, r), AppendMatch(p, r.n, r.d), l, f, b, e)
<1> DEFINE a == RestoreState("coded", o, p, l, f, b, e)
<1>1. a.mode = "coded" /\ a.made = p
  BY DEF RestoreState
<1>2. RestoreNext(a, r, plain) = RestoreToken(a, r, plain)
  BY <1>1 DEF RestoreNext
<1>3. RestoreToken(a, r, plain) =
        [a EXCEPT !.out = Append(@, r), !.made = AppendMatch(@, r.n, r.d)]
  <2> HIDE DEF a
  <2> QED BY <1>1 DEF RestoreToken
<1>4. ASSUME NEW x, x = RestoreToken(a, r, plain)
      PROVE  x = RestoreState("coded", Append(o, r), AppendMatch(p, r.n, r.d), l, f, b, e)
  BY <1>3, <1>4 DEF RestoreState
<1> QED BY <1>2, <1>4

\* The end of a block.
LEMMA RestoresEnd ==
  ASSUME NEW o, NEW p, NEW l, NEW f, NEW b, NEW e, NEW r, NEW plain, r.t = "end"
  PROVE  RestoreNext(RestoreState("coded", o, p, l, f, b, e), r, plain)
           = RestoreState("header", Append(o, r), p, l, f, b, e)
<1> DEFINE a == RestoreState("coded", o, p, l, f, b, e)
<1>1. a.mode = "coded" /\ a.made = p
  BY DEF RestoreState
<1>2. RestoreNext(a, r, plain) = RestoreToken(a, r, plain)
  BY <1>1 DEF RestoreNext
<1>3. RestoreToken(a, r, plain) = [a EXCEPT !.out = Append(@, r), !.mode = "header"]
  <2> HIDE DEF a
  <2> QED BY <1>1 DEF RestoreToken
<1>4. ASSUME NEW x, x = RestoreToken(a, r, plain)
      PROVE  x = RestoreState("header", Append(o, r), p, l, f, b, e)
  BY <1>3, <1>4 DEF RestoreState
<1> QED BY <1>2, <1>4

\* The padding itself.
LEMMA RestoresRest ==
  ASSUME NEW o, NEW p, NEW l, NEW f, NEW b, NEW e, NEW r, NEW plain
  PROVE  RestoreNext(RestoreState("trailing", o, p, l, f, b, e), r, plain)
           = RestoreState("trailing", Append(o, r), p, l, f, b, Append(e, r))
<1> DEFINE a == RestoreState("trailing", o, p, l, f, b, e)
<1>1. a.mode = "trailing" /\ a.made = p
  BY DEF RestoreState
<1>2. RestoreNext(a, r, plain) = [a EXCEPT !.out = Append(@, r), !.rest = Append(@, r)]
  BY <1>1 DEF RestoreNext
<1>4. ASSUME NEW x, x = RestoreNext(a, r, plain)
      PROVE  x = RestoreState("trailing", Append(o, r), p, l, f, b, Append(e, r))
  BY <1>2, <1>4 DEF RestoreState
<1> QED BY <1>4

\* A start is a beginning.
LEMMA StartIs ==
  ASSUME NEW S, NEW s \in Seq(S), NEW t \in Seq(S), IsStart(s, t)
  PROVE  s = Upto(t, Len(s)) /\ Len(s) \in 0 .. Len(t)
<1>1. Len(s) \in 0 .. Len(t) /\ Len(s) \in Nat
  BY DEF IsStart
<1>2. /\ Upto(t, Len(s)) \in Seq(S) /\ Len(Upto(t, Len(s))) = Len(s)
      /\ \A i \in 1 .. Len(s) : Upto(t, Len(s))[i] = t[i]
  BY <1>1, UptoType
<1>3. \A i \in 1 .. Len(s) : s[i] = Upto(t, Len(s))[i]
  BY <1>2 DEF IsStart
<1> QED BY <1>1, <1>2, <1>3, SeqEqual

\* What the next n cells of the source are.
LEMMA BytesAre ==
  ASSUME NEW S, NEW s \in Seq(S), NEW at \in Nat, NEW n \in Nat, at + n <= Len(s)
  PROVE  /\ Bytes(s, at, n) \in Seq(S) /\ Len(Bytes(s, at, n)) = n
         /\ \A i \in 1 .. n : Bytes(s, at, n)[i] = s[at + i]
         /\ Upto(s, at) \o Bytes(s, at, n) = Upto(s, at + n)
<1> DEFINE t == Bytes(s, at, n)
           lo == at + 1
           hi == at + n
<1>1. /\ lo \in Int /\ hi \in Int /\ \A i \in lo .. hi : s[i] \in S
      /\ hi - lo + 1 = n /\ (~(lo <= hi) => n = 0)
  OBVIOUS
<1>2. t = SubSeq(s, lo, hi)
  BY DEF Bytes
<1>3. \A i \in 1 .. n : lo + i - 1 = at + i
  OBVIOUS
<1> HIDE DEF lo, hi
<1>4. /\ SubSeq(s, lo, hi) \in Seq(S)
      /\ Len(SubSeq(s, lo, hi)) = IF lo <= hi THEN hi - lo + 1 ELSE 0
      /\ \A i \in 1 .. hi - lo + 1 : SubSeq(s, lo, hi)[i] = s[lo + i - 1]
  BY <1>1, SubSeqProperties
<1>5. t \in Seq(S) /\ Len(t) = n /\ \A i \in 1 .. n : t[i] = s[at + i]
  <2> HIDE DEF t
  <2> QED BY <1>1, <1>2, <1>3, <1>4
<1> HIDE DEF t
<1>6. Upto(s, at) \o t = Upto(s, at + n)
  BY <1>5, UptoConcat
<1> QED BY <1>5, <1>6 DEF t

\* z is the end of reading, g[j] the restored state after j of its records.
Replays(z, g) == \A j \in 1 .. Len(z.recs) : g[j] = RestoreNext(g[j - 1], z.recs[j], z.plain)

\* Restoring has come as far as reading had, but for the cells in no record yet.
Follows(raw, z, k, a, b) ==
  /\ b = RestoreState(IF a.mode = "trailing" THEN "header" ELSE a.mode,
                      Upto(raw, k - Pending(a) - Len(a.rest)),
                      Upto(z.plain, Len(a.plain) - Pending(a)),
                      b.left, a.final, z.blocks - a.blocks, <<>>)
  /\ a.mode = "stored" => b.left = a.recs[Len(a.recs)].n

\* Records complete, of those that were written.
Written(a) == IF a.mode = "stored" THEN Len(a.recs) - 1 ELSE Len(a.recs)

\* Restoring goes on with the next record of any start of the records.
LEMMA ReplayOne ==
  ASSUME NEW S, NEW z \in ReadStates(S), NEW g, Replays(z, g), NEW s \in Seq(S),
         IsStart(s, z.recs), NEW n \in Nat, n + 1 <= Len(s)
  PROVE  g[n + 1] = RestoreNext(g[n], s[n + 1], z.plain)
<1>1. z.recs \in Seq(S) /\ Len(z.recs) \in Nat /\ Len(s) \in Nat
  BY ReadFields
<1>2. n + 1 \in 1 .. Len(s) /\ n + 1 \in 1 .. Len(z.recs) /\ (n + 1) - 1 = n
  BY <1>1 DEF IsStart
<1>3. z.recs[n + 1] = s[n + 1]
  BY <1>2 DEF IsStart
<1> QED BY <1>2, <1>3 DEF Replays

\* With the run that reading closes, restoring has caught up with it.
LEMMA FlushReplays ==
  ASSUME NEW C, NEW raw \in Seq(C), NEW k \in 0 .. Len(raw), NEW a \in ReadStates(Elements(C)),
         NEW z \in ReadStates(Elements(C)), NEW g, Replays(z, g), Sound(raw, k, a),
         a.mode = "coded", IsStart(a.plain, z.plain), IsStart(Flush(a), z.recs),
         Follows(raw, z, k, a, g[Len(a.recs)])
  PROVE  \E l : g[Len(Flush(a))] = RestoreState("coded", Upto(raw, k), a.plain, l, a.final,
                                                z.blocks - a.blocks, <<>>)
<1> DEFINE S == Elements(C)
           P == z.plain
           n == Len(a.recs)
           m == Len(a.plain)
           b == g[n]
           r == Literals(a.run)
<1>1. /\ a.plain \in Seq(S) /\ a.recs \in Seq(S) /\ P \in Seq(S) /\ m \in Nat /\ n \in Nat
      /\ a.run \in Nat /\ k \in Nat
  BY ReadFields
<1>2. /\ Pending(a) = a.run /\ Len(a.rest) = 0 /\ a.run <= m /\ a.run <= k
      /\ \A j \in k - a.run + 1 .. k : raw[j] = Literal(a.plain[m - k + j].b)
  BY DEF Sound, Pending
<1>3. b = RestoreState("coded", Upto(raw, k - a.run), Upto(P, m - a.run), b.left, a.final,
                       z.blocks - a.blocks, <<>>)
  <2>1. k - a.run - 0 = k - a.run
    BY <1>1
  <2> QED BY <1>2, <2>1 DEF Follows
<1>4. a.plain = Upto(P, m) /\ m <= Len(P) /\ Len(P) \in Nat
  <2> HIDE DEF S, P
  <2>1. IsStart(a.plain, P)
    BY DEF P
  <2>2. a.plain = Upto(P, Len(a.plain)) /\ Len(a.plain) \in 0 .. Len(P) /\ Len(P) \in Nat
    BY <1>1, <2>1, StartIs
  <2> QED BY <2>2
<1>m. m = Len(a.plain)
  OBVIOUS
<1>5. CASE a.run = 0
  <2>1. Flush(a) = a.recs /\ k - a.run = k /\ m - a.run = m
    BY <1>1, <1>5 DEF Flush
  <2> QED BY <1>3, <1>4, <2>1
<1>6. CASE a.run > 0
  <2>1. Flush(a) = Append(a.recs, r) /\ r \in S
    BY <1>1, <1>6, ElementsOf DEF Flush
  <2>2. /\ Len(Flush(a)) = n + 1 /\ Flush(a)[n + 1] = r /\ Flush(a) \in Seq(S)
    <3> HIDE DEF S, r
    <3> QED BY <1>1, <2>1, AppendProperties
  <2>3. g[n + 1] = RestoreNext(b, r, P)
    <3>1. n + 1 <= Len(Flush(a))
      BY <1>1, <2>2
    <3> HIDE DEF r
    <3> QED BY SMTT(40), <1>1, <2>2, <3>1, ReplayOne
  <2> DEFINE o == Upto(raw, k - a.run)
             p == Upto(P, m - a.run)
             t == [i \in 1 .. a.run |-> Literal(P[m - a.run + i].b)]
  <2>4. m - a.run \in Nat /\ k - a.run \in Nat /\ m - a.run + a.run = m /\ k - a.run + a.run = k
    <3> HIDE DEF m
    <3> QED BY <1>1, <1>2
  <2>5. Len(p) = m - a.run
    <3>1. m - a.run \in 0 .. Len(P)
      BY <1>1, <1>4, <2>4
    <3> QED BY <1>1, <3>1, UptoType
  <2>6. r.t = "literals" /\ r.n = a.run
    BY DEF Literals
  <2>7. RestoreNext(b, r, P)
          = RestoreState("coded", o \o [i \in 1 .. r.n |-> Literal(P[Len(p) + i].b)],
                         p \o Bytes(P, Len(p), r.n), b.left, a.final, z.blocks - a.blocks, <<>>)
    <3>1. Len(p) + r.n <= Len(P)
      BY <1>1, <1>4, <2>4, <2>5, <2>6
    <3> HIDE DEF o, p, r, P
    <3> QED BY <1>3, <2>6, <3>1, RestoresLiterals DEF o, p
  <2>8. p \o Bytes(P, m - a.run, a.run) = a.plain
    <3> HIDE DEF m, P, S
    <3>1. m - a.run + a.run <= Len(P)
      BY <1>4, <2>4
    <3>2. Upto(P, m - a.run) \o Bytes(P, m - a.run, a.run) = Upto(P, m - a.run + a.run)
      <4> DEFINE at == m - a.run
                 size == a.run
      <4>1. at \in Nat /\ size \in Nat /\ at + size <= Len(P) /\ P \in Seq(S)
        BY <1>1, <2>4, <3>1
      <4> HIDE DEF at, size
      <4>2. Upto(P, at) \o Bytes(P, at, size) = Upto(P, at + size)
        BY <4>1, BytesAre
      <4> QED BY <4>2 DEF at, size
    <3> QED BY <1>4, <2>4, <3>2
  <2>9. o \o t = Upto(raw, k)
    <3>1. \A i \in 1 .. a.run : t[i] = raw[k - a.run + i] /\ k - a.run + i \in 1 .. Len(raw)
      <4> TAKE i \in 1 .. a.run
      <4>1. /\ k - a.run + i \in k - a.run + 1 .. k /\ k - a.run + i \in 1 .. Len(raw)
            /\ m - k + (k - a.run + i) = m - a.run + i /\ m - a.run + i \in 1 .. m
        BY SMTT(40), <1>1, <1>2
      <4>2. raw[k - a.run + i] = Literal(a.plain[m - a.run + i].b)
        BY <1>2, <4>1
      <4>3. a.plain[m - a.run + i] = P[m - a.run + i]
        BY <4>1 DEF IsStart
      <4> QED BY <4>1, <4>2, <4>3
    <3>2. t \in Seq(C) /\ Len(t) = a.run
      <4>1. \A i \in 1 .. a.run : t[i] \in C
        BY SMTT(40), <3>1
      <4> DEFINE q == a.run
      <4>2. q \in Nat /\ t = [i \in 1 .. q |-> t[i]] /\ \A i \in 1 .. q : t[i] \in C
        BY <1>1, <4>1
      <4> HIDE DEF q, t
      <4>3. t \in [1 .. q -> C]
        BY <4>2
      <4>4. t \in Seq(C) /\ DOMAIN t = 1 .. q
        BY <4>2, <4>3
      <4>5. Len(t) = q
        BY <4>2, <4>4
      <4> QED BY <4>4, <4>5 DEF q
    <3> HIDE DEF t
    <3>3. k - a.run + Len(t) <= Len(raw)
      BY <2>4, <3>2
    <3>4. Upto(raw, k - a.run) \o t = Upto(raw, k - a.run + Len(t))
      <4> DEFINE at == k - a.run
      <4>1. at \in Nat /\ \A i \in 1 .. Len(t) : t[i] = raw[at + i]
        BY <2>4, <3>1, <3>2
      <4>2. at + Len(t) <= Len(raw)
        BY <3>3
      <4> HIDE DEF at
      <4>3. Upto(raw, at) \o t = Upto(raw, at + Len(t))
        BY <3>2, <4>1, <4>2, UptoConcat
      <4> QED BY <4>3 DEF at
    <3> QED BY <2>4, <3>2, <3>4
  <2>10. g[n + 1] = RestoreState("coded", Upto(raw, k), a.plain, b.left, a.final,
                                 z.blocks - a.blocks, <<>>)
    <3> HIDE DEF o, p, r, P
    <3>1. [i \in 1 .. r.n |-> Literal(P[Len(p) + i].b)] = t
      BY <2>5, <2>6
    <3> HIDE DEF t
    <3> QED BY <2>3, <2>5, <2>6, <2>7, <2>8, <2>9, <3>1
  <2> QED BY <2>2, <2>10
<1> QED BY <1>1, <1>5, <1>6

\* Follows, field by field.
LEMMA FollowsFrom ==
  ASSUME NEW raw, NEW z, NEW k, NEW a, NEW m, NEW o, NEW p, NEW l, NEW f, NEW n, NEW b,
         b = RestoreState(m, o, p, l, f, n, <<>>),
         m = IF a.mode = "trailing" THEN "header" ELSE a.mode,
         o = Upto(raw, k - Pending(a) - Len(a.rest)), p = Upto(z.plain, Len(a.plain) - Pending(a)),
         f = a.final, n = z.blocks - a.blocks, a.mode = "stored" => l = a.recs[Len(a.recs)].n
  PROVE  Follows(raw, z, k, a, b)
<1>1. b.left = l
  BY DEF RestoreState
<1> QED BY <1>1 DEF Follows

\* Reading goes on from a to x with the next cell, and comes to z in the end.
GoesOn(C, raw, k, max, a, x, z) ==
  /\ k \in Nat /\ k + 1 <= Len(raw) /\ Streamed(raw[k + 1]) /\ max \in Nat
  /\ Tracks(C, raw, k, a, max) /\ x = ReadNext(a, raw[k + 1], max)
  /\ Tracks(C, raw, k + 1, x, max) /\ Grows(x, z) /\ z \in ReadStates(Elements(C))
  /\ a.mode # "bad" /\ x.mode # "bad"
  /\ raw[k + 1].t = "block" => ReadsAgain(raw[k + 1])

\* Facts about a step that all its cases need.
LEMMA GoesOnFacts ==
  ASSUME NEW C, NEW raw \in Seq(C), NEW k, NEW max, NEW a, NEW x, NEW z,
         GoesOn(C, raw, k, max, a, x, z)
  PROVE  /\ k \in Nat /\ k + 1 \in 1 .. Len(raw) /\ raw[k + 1] \in C /\ Streamed(raw[k + 1])
         /\ Append(Upto(raw, k), raw[k + 1]) = Upto(raw, k + 1)
         /\ a \in ReadStates(Elements(C)) /\ x \in ReadStates(Elements(C))
         /\ Sound(raw, k, a) /\ Sound(raw, k + 1, x)
         /\ x.plain = Upto(z.plain, Len(x.plain)) /\ Len(x.plain) \in 0 .. Len(z.plain)
         /\ IsStart(x.recs, z.recs) /\ IsStart(x.plain, z.plain)
         /\ x.blocks <= z.blocks /\ x.blocks \in Nat /\ z.blocks \in Nat
         /\ x.final /\ x.mode # "header" => z.blocks = x.blocks
<1>1. k \in Nat /\ k + 1 <= Len(raw) /\ k + 1 \in 1 .. Len(raw)
  BY DEF GoesOn
<1>2. Append(Upto(raw, k), raw[k + 1]) = Upto(raw, k + 1)
  BY <1>1, UptoNext
<1>3. a \in ReadStates(Elements(C)) /\ x \in ReadStates(Elements(C)) /\ Sound(raw, k, a)
      /\ Sound(raw, k + 1, x) /\ z \in ReadStates(Elements(C))
  BY DEF GoesOn, Tracks
<1>4. IsStart(x.recs, z.recs) /\ IsStart(x.plain, z.plain) /\ x.blocks <= z.blocks
      /\ (x.final /\ x.mode # "header" => z.blocks = x.blocks)
  BY DEF GoesOn, Grows
<1>5. x.plain = Upto(z.plain, Len(x.plain)) /\ Len(x.plain) \in 0 .. Len(z.plain)
  BY <1>3, <1>4, ReadFields, StartIs
<1>6. x.blocks \in Nat /\ z.blocks \in Nat
  BY <1>3, ReadFields
<1> QED BY <1>1, <1>2, <1>3, <1>4, <1>5, <1>6 DEF GoesOn

\* Restoring keeps up when reading takes a block header.
LEMMA HeaderFollows ==
  ASSUME NEW C, NEW raw \in Seq(C), NEW k, NEW max, NEW a, NEW x, NEW z,
         GoesOn(C, raw, k, max, a, x, z), NEW g, Replays(z, g), a.mode = "header",
         Follows(raw, z, k, a, g[Written(a)])
  PROVE  Follows(raw, z, k + 1, x, g[Written(x)])
<1> DEFINE S == Elements(C)
           c == raw[k + 1]
           n == Len(a.recs)
           m == Len(a.plain)
           P == z.plain
           b == g[n]
<1>1. /\ k \in Nat /\ c \in C /\ Streamed(c) /\ Append(Upto(raw, k), c) = Upto(raw, k + 1)
      /\ a \in ReadStates(S) /\ x \in ReadStates(S) /\ Sound(raw, k, a)
      /\ x.plain = Upto(P, Len(x.plain)) /\ Len(x.plain) \in 0 .. Len(P) /\ IsStart(x.recs, z.recs)
      /\ x.blocks <= z.blocks /\ x.blocks \in Nat /\ z.blocks \in Nat
      /\ (x.final /\ x.mode # "header" => z.blocks = x.blocks)
  BY GoesOnFacts
<1>2. /\ a.recs \in Seq(S) /\ n \in Nat /\ m \in Nat /\ a.rest = <<>> /\ a.run = 0 /\ ~a.final
      /\ a.blocks \in Nat /\ z \in ReadStates(S) /\ x.recs \in Seq(S) /\ a.plain \in Seq(S)
  BY <1>1, ReadFields DEF Sound, GoesOn
<1>3. Pending(a) = 0 /\ Written(a) = n /\ Len(a.rest) = 0 /\ c \in S
  BY <1>1, <1>2, ElementsOf DEF Pending, Written
<1>4. b = RestoreState("header", Upto(raw, k), Upto(P, m), b.left, a.final,
                       z.blocks - a.blocks, <<>>)
  <2>1. k - 0 - 0 = k /\ m - 0 = m
    BY <1>1, <1>2
  <2> QED BY <1>3, <2>1 DEF Follows
<1>5. x = ReadNext(a, c, max) /\ x.mode # "bad" /\ (c.t = "block" => ReadsAgain(c))
  BY DEF GoesOn
<1>6. x # Bad(a)
  <2>1. Bad(a).mode = "bad"
    BY <1>1, ReadBad, ReadStateIs
  <2> QED BY <1>5, <2>1
<1> HIDE DEF S, c
<1>7. /\ Append(a.recs, c) \in Seq(S) /\ Len(Append(a.recs, c)) = n + 1
      /\ Append(a.recs, c)[n + 1] = c
  BY <1>2, <1>3, AppendProperties
<1>8. ASSUME c.t = "block", x.blocks = a.blocks + 1, x.final = c.final, c.final \in BOOLEAN,
             Len(x.recs) >= n + 1, x.recs[n + 1] = c, c.final => x.mode # "header"
      PROVE  g[n + 1] = RestoreState(c.kind, Upto(raw, k + 1), Upto(P, m), c.n, c.final,
                                     z.blocks - x.blocks, <<>>)
  <2> DEFINE e == z.blocks - a.blocks
  <2>1. e > 0 /\ (c.final => e = 1) /\ e - 1 = z.blocks - x.blocks
    <3>1. z.blocks \in Nat /\ a.blocks \in Nat /\ x.blocks = a.blocks + 1 /\ x.blocks <= z.blocks
      BY <1>1, <1>2, <1>8
    <3>2. c.final => z.blocks = x.blocks
      BY <1>1, <1>8
    <3>3. z.blocks - a.blocks > 0 /\ (z.blocks - a.blocks) - 1 = z.blocks - x.blocks
      BY <3>1
    <3>4. c.final => z.blocks - a.blocks = 1
      BY <3>1, <3>2
    <3> QED BY <3>3, <3>4
  <2>2. g[n + 1] = RestoreNext(b, c, P)
    <3>1. Len(x.recs) \in Nat
      BY <1>2
    <3>2. n + 1 <= Len(x.recs)
      BY <1>2, <1>8, <3>1
    <3> HIDE DEF n, b, P
    <3>3. g[n + 1] = RestoreNext(g[n], x.recs[n + 1], z.plain)
      BY SMTT(40), <1>1, <1>2, <3>2, ReplayOne
    <3> QED BY <1>8, <3>3 DEF b, P
  <2> HIDE DEF e
  <2>3. RestoreNext(b, c, P) = RestoreState(c.kind, Append(Upto(raw, k), c), Upto(P, m), c.n,
                                            c.final, e - 1, <<>>)
    <3>1. b = RestoreState("header", Upto(raw, k), Upto(P, m), b.left, a.final, e, <<>>)
      BY <1>4 DEF e
    <3> HIDE DEF b, P, m
    <3> QED BY <1>2, <1>5, <1>8, <2>1, <3>1, RestoresHeader
  <2> HIDE DEF P, m, b
  <2> QED BY <1>1, <2>1, <2>2, <2>3
<1>9. CASE c.t = "block" /\ c.kind = "coded" /\ x = ReadCoded(a, c)
  <2>1. /\ x.mode = "coded" /\ x.plain = a.plain /\ x.recs = Append(a.recs, c) /\ x.run = a.run
        /\ x.blocks = a.blocks + 1 /\ x.final = c.final /\ x.rest = a.rest
    <3> HIDE DEF n, m, P, b
    <3> QED BY <1>9 DEF ReadCoded, ReadState
  <2>2. c.final \in BOOLEAN
    BY <1>1, <1>9 DEF Streamed
  <2>3. Written(x) = n + 1 /\ Pending(x) = 0 /\ Len(x.rest) = 0
    BY <1>2, <1>7, <2>1 DEF Written, Pending
  <2>4. Len(x.recs) >= n + 1 /\ x.recs[n + 1] = c
    BY <1>2, <1>7, <2>1
  <2>5. g[n + 1] = RestoreState(c.kind, Upto(raw, k + 1), Upto(P, m), c.n, c.final,
                                z.blocks - x.blocks, <<>>)
    BY <1>8, <1>9, <2>1, <2>2, <2>4
  <2>6. (k + 1) - 0 - 0 = k + 1 /\ m - 0 = m
    BY <1>1, <1>2
  <2> HIDE DEF n, P, b
  <2> QED BY ZenonT(60), <1>9, <2>1, <2>3, <2>5, <2>6, FollowsFrom DEF P
<1>10. CASE c.t = "block" /\ c.kind # "coded" /\ ~(m + c.n > max) /\ x = ReadPlain(a, c)
  <2> DEFINE q == Append(a.recs, c)
             r == Append(q, Stored(c.n))
  <2>1. /\ x.mode = (IF c.n # 0 THEN "stored" ELSE IF c.final THEN "trailing" ELSE "header")
        /\ x.plain = a.plain /\ x.recs = r /\ x.run = a.run /\ x.left = c.n
        /\ x.blocks = a.blocks + 1 /\ x.final = c.final /\ x.rest = a.rest
    <3> HIDE DEF n, m, P, b
    <3> QED BY <1>10 DEF ReadPlain, ReadState
  <2>2. c.final \in BOOLEAN /\ c.n \in Nat /\ c.kind = "stored"
    BY <1>1, <1>10 DEF Streamed
  <2>3. /\ Stored(c.n) \in S /\ Stored(c.n).t = "stored" /\ Stored(c.n).n = c.n
    BY <2>2, ElementsOf DEF Stored, S
  <2>4. /\ Len(r) = n + 1 + 1 /\ r[n + 1] = c /\ r[n + 1 + 1] = Stored(c.n) /\ r \in Seq(S)
    <3>1. q \in Seq(S) /\ Len(q) = n + 1 /\ q[n + 1] = c /\ n + 1 \in 1 .. n + 1
      BY <1>2, <1>7
    <3> HIDE DEF q
    <3>2. /\ Append(q, Stored(c.n)) \in Seq(S) /\ Len(Append(q, Stored(c.n))) = Len(q) + 1
          /\ Append(q, Stored(c.n))[Len(q) + 1] = Stored(c.n)
          /\ \A i \in 1 .. Len(q) : Append(q, Stored(c.n))[i] = q[i]
      BY <2>3, <3>1, AppendProperties
    <3> QED BY <3>1, <3>2
  <2> HIDE DEF r
  <2>5. g[n + 1] = RestoreState(c.kind, Upto(raw, k + 1), Upto(P, m), c.n, c.final,
                                z.blocks - x.blocks, <<>>)
    <3>1. Len(x.recs) >= n + 1 /\ x.recs[n + 1] = c /\ (c.final => x.mode # "header")
      BY <1>2, <2>1, <2>4
    <3> QED BY <1>8, <1>10, <2>1, <2>2, <3>1
  <2>6. Pending(x) = 0 /\ Len(x.rest) = 0
    BY <1>2, <2>1, <2>2, <2>3, <2>4 DEF Pending
  <2>7. (k + 1) - 0 - 0 = k + 1 /\ m - 0 = m
    BY <1>1, <1>2
  <2>8. CASE c.n # 0
    <3>1. Written(x) = n + 1 /\ x.mode = "stored" /\ x.recs[Len(x.recs)].n = c.n
      BY <1>2, <2>1, <2>3, <2>4, <2>8 DEF Written
    <3> HIDE DEF n, P, b
    <3> QED BY <2>1, <2>2, <2>5, <2>6, <2>7, <3>1, FollowsFrom DEF P
  <2>9. CASE c.n = 0
    <3>1. Written(x) = n + 1 + 1 /\ x.mode # "stored" /\ x.mode # "coded"
      BY <1>2, <2>1, <2>4, <2>9 DEF Written
    <3> DEFINE w == n + 1
    <3>2. w \in Nat /\ w + 1 <= Len(x.recs) /\ x.recs[w + 1] = Stored(c.n)
      BY <1>2, <2>1, <2>4
    <3>3. g[w + 1] = RestoreNext(g[w], Stored(c.n), P)
      <4> HIDE DEF n, b, P, w
      <4>1. g[w + 1] = RestoreNext(g[w], x.recs[w + 1], z.plain)
        BY SMTT(40), <1>1, <1>2, <3>2, ReplayOne
      <4> QED BY <3>2, <4>1 DEF P
    <3> DEFINE p == Upto(P, m)
               o == Upto(raw, k + 1)
               d == z.blocks - x.blocks
    <3>4. p = a.plain /\ p \in Seq(S) /\ Len(p) = m /\ m <= Len(P) /\ P \in Seq(S)
      <4>1. P \in Seq(S)
        BY <1>2, ReadFields
      <4> QED BY <1>1, <1>2, <2>1, <4>1
    <3>5. g[w] = RestoreState("stored", o, p, c.n, c.final, d, <<>>)
      BY <2>2, <2>5
    <3>6. /\ Len(p) + Stored(c.n).n <= Len(P) /\ Stored(c.n).n = c.n /\ Stored(c.n).t = "stored"
      BY <1>2, <2>3, <2>9, <3>4
    <3>7. Bytes(P, Len(p), 0) = <<>> /\ p \o <<>> = p /\ o \o <<>> = o
      <4>1. Len(p) \in Nat /\ Len(p) + 0 <= Len(P) /\ 0 \in Nat
        BY <1>2, <3>4
      <4>2. o \in Seq(C)
        <5>1. k + 1 \in 0 .. Len(raw)
          BY DEF GoesOn
        <5> QED BY <5>1, UptoType
      <4> DEFINE at == Len(p)
      <4>3. Bytes(P, at, 0) = <<>>
        <5>1. at \in Nat /\ at + 1 > at + 0
          BY <4>1
        <5> HIDE DEF at, P
        <5> QED BY <5>1 DEF Bytes
      <4> HIDE DEF P, m, p, o
      <4> QED BY <3>4, <4>2, <4>3, ConcatEmptySeq
    <3> HIDE DEF p, o, d, w, P
    <3>8. g[w + 1] = RestoreState("header", o, p, c.n, c.final, d, <<>>)
      <4>0. HasRoom(p, c.n, P)
        BY <3>6 DEF HasRoom
      <4>1. g[w + 1] = RestoreState("header", o \o Bytes(P, Len(p), c.n),
                                    p \o Bytes(P, Len(p), c.n), c.n, c.final, d, <<>>)
        BY <3>3, <3>5, <4>0, RestoresStored
      <4> QED BY <2>9, <3>6, <3>7, <4>1
    <3>9. "header" = IF x.mode = "trailing" THEN "header" ELSE x.mode
      BY <2>1, <2>9
    <3>10. Follows(raw, z, k + 1, x, g[w + 1])
      BY <2>1, <2>6, <2>7, <3>1, <3>8, <3>9, FollowsFrom DEF p, o, d, P
    <3> QED BY <3>1, <3>10 DEF w
  <2> QED BY <2>8, <2>9
<1> QED BY <1>1, <1>5, <1>6, <1>9, <1>10, ReadHeaderCases DEF c

\* The same for a byte of a stored block, which is written with its last.
LEMMA StoredFollows ==
  ASSUME NEW C, NEW raw \in Seq(C), NEW k, NEW max, NEW a, NEW x, NEW z,
         GoesOn(C, raw, k, max, a, x, z), NEW g, Replays(z, g), a.mode = "stored",
         Follows(raw, z, k, a, g[Written(a)])
  PROVE  Follows(raw, z, k + 1, x, g[Written(x)])
<1> DEFINE S == Elements(C)
           c == raw[k + 1]
           n == Len(a.recs)
           m == Len(a.plain)
           P == z.plain
           w == n - 1
           b == g[w]
           size == a.recs[n].n
           mode == IF a.left = 1 THEN After(a.final) ELSE "stored"
           o == Upto(raw, k - Pending(a))
           p == Upto(P, m - Pending(a))
           d == z.blocks - a.blocks
<1>1. /\ k \in Nat /\ c \in C /\ Append(Upto(raw, k), c) = Upto(raw, k + 1)
      /\ a \in ReadStates(S) /\ x \in ReadStates(S) /\ Sound(raw, k, a) /\ k + 1 \in 1 .. Len(raw)
      /\ x.plain = Upto(P, Len(x.plain)) /\ Len(x.plain) \in 0 .. Len(P) /\ IsStart(x.recs, z.recs)
      /\ IsStart(x.plain, P)
  BY GoesOnFacts
<1>2. /\ a.recs \in Seq(S) /\ n \in Nat /\ m \in Nat /\ a.rest = <<>> /\ a.run = 0 /\ a.left \in Nat
      /\ a.blocks \in Nat /\ z \in ReadStates(S) /\ x.recs \in Seq(S) /\ a.plain \in Seq(S)
      /\ a.left > 0 /\ P \in Seq(S) /\ a.final \in BOOLEAN
  BY <1>1, ReadFields DEF Sound, GoesOn
<1>3. /\ Len(a.rest) = 0 /\ c \in S /\ Written(a) = w
      /\ size \in Nat /\ a.recs[n] = Stored(size) /\ a.recs # <<>>
      /\ Pending(a) = size - a.left /\ Pending(a) \in Nat /\ Pending(a) <= m /\ Pending(a) <= k
      /\ \A j \in k - Pending(a) + 1 .. k : raw[j] = a.plain[m - k + j]
  BY SMTT(30), <1>1, <1>2, ElementsOf DEF Pending, Written, Sound
<1>4. w \in Nat /\ w + 1 = n /\ n # 0
  BY <1>2, <1>3
<1>5. b = RestoreState("stored", o, p, size, a.final, d, <<>>)
  <2>1. k - Pending(a) - 0 = k - Pending(a)
    BY <1>1, <1>3
  <2> QED BY <1>3, <2>1 DEF Follows
<1>6. /\ c.t = "byte" /\ x = ReadState(mode, Append(a.plain, c), a.recs, a.run, a.left - 1, a.blocks,
                                       a.final, a.rest)
  <2>1. x # Bad(a) /\ x = ReadNext(a, c, max)
    <3>1. Bad(a).mode = "bad"
      BY <1>1, ReadBad, ReadStateIs
    <3> QED BY <3>1 DEF GoesOn
  <2> HIDE DEF c
  <2> QED BY <1>1, <2>1, ReadStoredCases
<1>7. /\ x.mode = mode /\ x.plain = Append(a.plain, c) /\ x.recs = a.recs /\ x.run = 0
      /\ x.left = a.left - 1 /\ x.blocks = a.blocks /\ x.final = a.final /\ x.rest = <<>>
  <2> HIDE DEF mode, c
  <2>1. /\ x.mode = mode /\ x.plain = Append(a.plain, c) /\ x.recs = a.recs /\ x.run = a.run
        /\ x.left = a.left - 1 /\ x.blocks = a.blocks /\ x.final = a.final /\ x.rest = a.rest
    BY <1>6 DEF ReadState
  <2> QED BY <1>2, <2>1
<1>8. /\ Len(x.plain) = m + 1 /\ x.plain[m + 1] = c /\ \A i \in 1 .. m : x.plain[i] = a.plain[i]
      /\ m + 1 <= Len(P) /\ \A i \in 1 .. m + 1 : P[i] = x.plain[i]
  <2> HIDE DEF S, c
  <2>1. /\ Len(x.plain) = m + 1 /\ x.plain[m + 1] = c /\ \A i \in 1 .. m : x.plain[i] = a.plain[i]
    BY <1>2, <1>3, <1>7, AppendProperties
  <2> QED BY <1>1, <2>1 DEF IsStart
<1>9. CASE a.left = 1
  <2>1. x.mode = After(a.final) /\ Written(x) = n /\ Pending(x) = 0 /\ Len(x.rest) = 0
    BY <1>2, <1>7, <1>9 DEF After, Written, Pending
  <2>2. Pending(a) = size - 1 /\ size \in Nat /\ size > 0
    BY <1>3, <1>9
  <2> DEFINE at == m - Pending(a)
             from == k - Pending(a)
             t == Bytes(P, at, size)
  <2>3. /\ at \in Nat /\ from \in Nat /\ at + size = m + 1 /\ from + size = k + 1
        /\ at + size <= Len(P) /\ at \in 0 .. Len(P)
    <3> DEFINE q == Pending(a)
               l == Len(P)
    <3>1. q = size - 1 /\ q <= m /\ q <= k /\ size \in Nat /\ q \in Nat /\ m \in Nat /\ k \in Nat
      BY <1>1, <1>2, <1>3, <2>2
    <3>2. l \in Nat /\ m + 1 <= l
      BY <1>2, <1>8
    <3> HIDE DEF q, l, m, size
    <3>3. /\ m - q \in Nat /\ k - q \in Nat /\ (m - q) + size = m + 1 /\ (k - q) + size = k + 1
          /\ m - q \in 0 .. l
      BY <3>1, <3>2
    <3> QED BY <3>2, <3>3 DEF q, l
  <2>4. Len(p) = at
    BY <1>2, <2>3, UptoType
  <2>5. g[n] = RestoreNext(b, Stored(size), P)
    <3>1. w + 1 <= Len(x.recs) /\ x.recs[w + 1] = Stored(size)
      BY <1>2, <1>3, <1>4, <1>7
    <3> HIDE DEF w, n, b, P, size
    <3>2. g[w + 1] = RestoreNext(g[w], x.recs[w + 1], z.plain)
      BY <1>1, <1>2, <1>4, <3>1, ReplayOne
    <3> QED BY <1>4, <3>1, <3>2 DEF b, P
  <2> HIDE DEF P, S, size
  <2>6. /\ t \in Seq(S) /\ Len(t) = size /\ \A i \in 1 .. size : t[i] = P[at + i]
        /\ Upto(P, at) \o t = Upto(P, at + size)
    <3> HIDE DEF at
    <3>1. P \in Seq(S) /\ at \in Nat /\ size \in Nat /\ at + size <= Len(P)
      BY <1>2, <2>2, <2>3
    <3> QED BY <3>1, BytesAre
  <2>7. p \o t = x.plain
    BY <1>1, <1>8, <2>3, <2>6
  <2>8. o \o t = Upto(raw, k + 1)
    <3>1. raw \in Seq(S)
      <4>1. \A i \in 1 .. Len(raw) : raw[i] \in S
        BY ElementsOf DEF S
      <4>2. raw = [i \in 1 .. Len(raw) |-> raw[i]] /\ Len(raw) \in Nat
        OBVIOUS
      <4> QED BY <4>1, <4>2
    <3>2. ASSUME NEW i \in 1 .. size PROVE t[i] = raw[from + i]
      <4>1. at + i \in 1 .. m + 1 /\ from + i \in k - Pending(a) + 1 .. k + 1
        BY <2>3, <2>2
      <4>2. t[i] = x.plain[at + i]
        BY <1>8, <2>6, <4>1
      <4>3. CASE i = size
        <5>1. at + i = m + 1 /\ from + i = k + 1
          BY <2>3, <4>3
        <5> QED BY <1>8, <4>2, <5>1
      <4>4. CASE i # size
        <5>1. at + i \in 1 .. m /\ from + i \in k - Pending(a) + 1 .. k /\ m - k + (from + i) = at + i
          <6> DEFINE q == Pending(a)
          <6>1. q = size - 1 /\ q <= m /\ q <= k /\ size \in Nat /\ q \in Nat /\ m \in Nat /\ k \in Nat
            BY <1>1, <1>2, <1>3, <2>2
          <6> HIDE DEF q, m
          <6>2. (m - q) + i \in 1 .. m /\ (k - q) + i \in k - q + 1 .. k
            BY <6>1, <4>4
          <6>3. m - k + ((k - q) + i) = (m - q) + i
            BY <6>1
          <6> QED BY <6>2, <6>3 DEF q
        <5> QED BY ZenonT(60), <1>3, <1>8, <4>2, <5>1
      <4> QED BY <4>3, <4>4
    <3>3. from + size <= Len(raw)
      BY <1>1, <2>3
    <3> HIDE DEF from, t, at
    <3>4. Upto(raw, from) \o t = Upto(raw, from + Len(t))
      BY <2>3, <2>6, <3>1, <3>2, <3>3, UptoConcat
    <3> QED BY <2>3, <2>6, <3>4 DEF from
  <2>9. g[n] = RestoreState("header", Upto(raw, k + 1), x.plain, size, a.final, d, <<>>)
    <3>1. HasRoom(p, size, P)
      BY <2>3, <2>4 DEF HasRoom
    <3>2. Bytes(P, Len(p), size) = t
      BY <2>4
    <3> HIDE DEF p, o, b, d, n, t
    <3>3. g[n] = RestoreState("header", o \o Bytes(P, Len(p), size), p \o Bytes(P, Len(p), size),
                              size, a.final, d, <<>>)
      BY <1>5, <2>5, <3>1, RestoresStored
    <3> QED BY <2>7, <2>8, <3>2, <3>3
  <2>10. /\ (k + 1) - 0 - 0 = k + 1 /\ Len(x.plain) - 0 = Len(x.plain)
    BY <1>1, <1>8, <1>2
  <2>11. "header" = (IF x.mode = "trailing" THEN "header" ELSE x.mode) /\ x.mode # "stored"
    BY <2>1 DEF After
  <2>12. x.plain = Upto(z.plain, Len(x.plain) - 0)
    BY <1>1, <2>10 DEF P
  <2>13. d = z.blocks - x.blocks
    BY <1>7
  <2> HIDE DEF d, n
  <2> QED BY <1>7, <2>1, <2>9, <2>10, <2>11, <2>12, <2>13, FollowsFrom
<1>10. CASE a.left # 1
  <2>1. x.mode = "stored" /\ Written(x) = w /\ Len(x.rest) = 0 /\ Pending(x) = size - (a.left - 1)
    BY <1>7, <1>10 DEF Written, Pending
  <2>2. /\ (k + 1) - Pending(x) - 0 = k - Pending(a) /\ (m + 1) - Pending(x) = m - Pending(a)
    <3> DEFINE q == Pending(a)
               r == Pending(x)
               l == a.left
    <3>1. q = size - l /\ r = size - (l - 1) /\ size \in Nat /\ l \in Nat /\ k \in Nat /\ m \in Nat
      BY <1>1, <1>2, <1>3, <2>1
    <3> HIDE DEF size, m, q, r, l
    <3>2. (k + 1) - r - 0 = k - q /\ (m + 1) - r = m - q
      BY <3>1
    <3> QED BY <3>2 DEF q, r
  <2>3. /\ o = Upto(raw, (k + 1) - Pending(x) - Len(x.rest))
        /\ p = Upto(z.plain, Len(x.plain) - Pending(x))
    BY <1>8, <2>1, <2>2
  <2>4. "stored" = (IF x.mode = "trailing" THEN "header" ELSE x.mode)
        /\ x.recs[Len(x.recs)].n = size /\ d = z.blocks - x.blocks
    BY <1>7, <2>1
  <2> HIDE DEF o, p, d, size, b
  <2>5. Follows(raw, z, k + 1, x, b)
    BY <1>5, <1>7, <2>3, <2>4, FollowsFrom
  <2> QED BY <2>1, <2>5 DEF b
<1> QED BY <1>9, <1>10

\* The same for a token of a coded block.
LEMMA TokenFollows ==
  ASSUME NEW C, NEW raw \in Seq(C), NEW k, NEW max, NEW a, NEW x, NEW z,
         GoesOn(C, raw, k, max, a, x, z), NEW g, Replays(z, g), a.mode = "coded",
         Follows(raw, z, k, a, g[Written(a)])
  PROVE  Follows(raw, z, k + 1, x, g[Written(x)])
<1> DEFINE S == Elements(C)
           c == raw[k + 1]
           m == Len(a.plain)
           P == z.plain
           F == Flush(a)
           d == z.blocks - a.blocks
<1>1. /\ k \in Nat /\ c \in C /\ Append(Upto(raw, k), c) = Upto(raw, k + 1) /\ Streamed(c)
      /\ a \in ReadStates(S) /\ x \in ReadStates(S) /\ Sound(raw, k, a) /\ k + 1 \in 1 .. Len(raw)
      /\ x.plain = Upto(P, Len(x.plain)) /\ Len(x.plain) \in 0 .. Len(P) /\ IsStart(x.recs, z.recs)
      /\ IsStart(x.plain, P)
  BY GoesOnFacts
<1>2. /\ a.recs \in Seq(S) /\ m \in Nat /\ a.rest = <<>> /\ a.left = 0 /\ a.run \in Nat
      /\ a.blocks \in Nat /\ z \in ReadStates(S) /\ x.recs \in Seq(S) /\ a.plain \in Seq(S)
      /\ P \in Seq(S) /\ a.final \in BOOLEAN /\ z.recs \in Seq(S) /\ x.plain \in Seq(S)
  BY <1>1, ReadFields DEF Sound, GoesOn
<1>3. /\ Len(a.rest) = 0 /\ c \in S /\ Pending(a) = a.run /\ Written(a) = Len(a.recs)
      /\ F \in Seq(S) /\ IsStart(a.recs, F) /\ Len(F) \in Nat /\ a.run <= m /\ a.run <= k
  BY SMTT(40), <1>1, <1>2, ElementsOf, FlushType DEF Pending, Written, Sound
<1>4. /\ Append(F, c) \in Seq(S) /\ Len(Append(F, c)) = Len(F) + 1 /\ Append(F, c)[Len(F) + 1] = c
      /\ IsStart(F, Append(F, c))
  <2> HIDE DEF S, c, F
  <2> QED BY <1>3, AppendProperties, StartSelf, StartAppend
<1>5. x # Bad(a) /\ x = ReadNext(a, c, max)
  <2>1. Bad(a).mode = "bad"
    BY <1>1, ReadBad, ReadStateIs
  <2> QED BY <2>1 DEF GoesOn
<1>6. ASSUME x.recs = Append(F, c), IsStart(a.plain, P)
      PROVE  \E l : /\ g[Len(F)] = RestoreState("coded", Upto(raw, k), a.plain, l, a.final, d, <<>>)
                    /\ g[Len(F) + 1] = RestoreNext(g[Len(F)], c, P)
  <2>1. IsStart(F, z.recs)
    <3> DEFINE q == x.recs
               e == z.recs
    <3>1. F \in Seq(S) /\ q \in Seq(S) /\ e \in Seq(S) /\ IsStart(F, q) /\ IsStart(q, e)
      BY <1>1, <1>2, <1>3, <1>4, <1>6
    <3> HIDE DEF F, S, q, e
    <3>2. IsStart(F, e)
      BY <3>1, StartTrans
    <3> QED BY <3>2 DEF e
  <2>2. k \in 0 .. Len(raw)
    BY <1>1
  <2>3. \E l : g[Len(F)] = RestoreState("coded", Upto(raw, k), a.plain, l, a.final, d, <<>>)
    BY SMTT(40), <1>1, <1>2, <1>3, <1>6, <2>1, <2>2, FlushReplays
  <2>4. g[Len(F) + 1] = RestoreNext(g[Len(F)], x.recs[Len(F) + 1], z.plain)
    <3> DEFINE n == Len(F)
    <3>1. n \in Nat /\ n + 1 <= Len(x.recs)
      BY <1>3, <1>4, <1>6
    <3> HIDE DEF n, S
    <3>2. g[n + 1] = RestoreNext(g[n], x.recs[n + 1], z.plain)
      BY SMTT(40), <1>1, <1>2, <3>1, ReplayOne
    <3> QED BY <3>2 DEF n
  <2>5. x.recs[Len(F) + 1] = c
    BY <1>4, <1>6
  <2> HIDE DEF F, d, c
  <2> QED BY <2>3, <2>4, <2>5
<1>7. CASE /\ c.t = "literal" /\ Len(a.plain) < max
           /\ x = ReadState("coded", Append(a.plain, Byte(c.b)), a.recs, a.run + 1, a.left,
                            a.blocks, a.final, a.rest)
  <2>1. /\ x.mode = "coded" /\ x.plain = Append(a.plain, Byte(c.b)) /\ x.recs = a.recs
        /\ x.run = a.run + 1 /\ x.blocks = a.blocks /\ x.final = a.final /\ x.rest = a.rest
    <3> HIDE DEF c
    <3> QED BY <1>7 DEF ReadState
  <2>2. Written(x) = Written(a) /\ Pending(x) = a.run + 1 /\ Len(x.rest) = 0
    BY <1>2, <1>3, <2>1 DEF Written, Pending
  <2>3. Len(x.plain) = m + 1
    <3>1. Byte(c.b) \in S
      BY <1>1, ElementsOf
    <3> HIDE DEF S, c
    <3> QED BY <1>2, <2>1, <3>1, AppendProperties
  <2> DEFINE b == g[Written(a)]
             r == a.run
             o == Upto(raw, k - r)
             p == Upto(P, m - r)
  <2>4. (k + 1) - (r + 1) - 0 = k - r /\ (m + 1) - (r + 1) = m - r /\ k - r - 0 = k - r
    <3>1. r \in Nat
      BY <1>2
    <3> HIDE DEF m, r
    <3> QED BY <1>1, <1>2, <3>1
  <2>5. b = RestoreState("coded", o, p, b.left, a.final, d, <<>>)
    BY <1>3, <2>4 DEF Follows
  <2>6. /\ o = Upto(raw, (k + 1) - Pending(x) - Len(x.rest))
        /\ p = Upto(z.plain, Len(x.plain) - Pending(x))
    BY <2>2, <2>3, <2>4
  <2>7. "coded" = (IF x.mode = "trailing" THEN "header" ELSE x.mode) /\ x.mode # "stored"
        /\ d = z.blocks - x.blocks
    BY <2>1
  <2> HIDE DEF b, o, p, d
  <2>8. Follows(raw, z, k + 1, x, b)
    BY <2>1, <2>5, <2>6, <2>7, FollowsFrom
  <2> QED BY <2>2, <2>8 DEF b
<1>8. CASE /\ c.t = "match" /\ MatchFits(a.plain, c.n, c.d, max)
           /\ x = ReadState("coded", AppendMatch(a.plain, c.n, c.d), Append(F, c), 0,
                            a.left, a.blocks, a.final, a.rest)
  <2> DEFINE p == AppendMatch(a.plain, c.n, c.d)
  <2>1. /\ x.mode = "coded" /\ x.plain = p /\ x.recs = Append(F, c)
        /\ x.run = 0 /\ x.blocks = a.blocks /\ x.final = a.final /\ x.rest = a.rest
    <3> HIDE DEF c, F, p
    <3>1. x = ReadState("coded", p, Append(F, c), 0, a.left, a.blocks, a.final, a.rest)
      BY <1>8 DEF p
    <3> QED BY <3>1 DEF ReadState
  <2>2. /\ c.n \in Nat /\ c.d \in 1 .. m
    BY <1>1, <1>8 DEF Streamed, MatchFits
  <2>3. /\ Len(p) = m + c.n /\ IsStart(a.plain, p)
    <3>1. \A n \in Nat, e \in 1 .. m :
            /\ AppendMatch(a.plain, n, e) \in Seq(S)
            /\ Len(AppendMatch(a.plain, n, e)) = m + n
            /\ \A i \in 1 .. m : AppendMatch(a.plain, n, e)[i] = a.plain[i]
      <4> HIDE DEF S
      <4> QED BY ZenonT(60), <1>2, MatchType
    <3> HIDE DEF c
    <3>2. /\ Len(p) = m + c.n /\ \A i \in 1 .. m : p[i] = a.plain[i]
      BY <2>2, <3>1
    <3> HIDE DEF p
    <3> QED BY <1>2, <2>2, <3>2 DEF IsStart
  <2>4. IsStart(a.plain, P)
    <3> HIDE DEF S, p, P
    <3> QED BY <1>1, <1>2, <2>1, <2>3, StartTrans
  <2>5. PICK l : /\ g[Len(F)] = RestoreState("coded", Upto(raw, k), a.plain, l, a.final, d, <<>>)
                 /\ g[Len(F) + 1] = RestoreNext(g[Len(F)], c, P)
    BY <1>6, <2>1, <2>4
  <2>6. MatchFits(a.plain, c.n, c.d, Len(P))
    <3>1. m + c.n <= Len(P)
      BY <1>1, <2>1, <2>3
    <3> QED BY <2>2, <3>1 DEF MatchFits
  <2>7. p = Bytes(P, 0, m + c.n)
    <3> DEFINE n == m + c.n
    <3>1. p = Upto(P, n) /\ n \in Nat
      BY <1>1, <1>2, <2>1, <2>2, <2>3
    <3> HIDE DEF n, p, P
    <3>2. Bytes(P, 0, n) = Upto(P, n)
      <4>1. 0 + 1 = 1 /\ 0 + n = n
        BY <3>1
      <4> QED BY <4>1 DEF Bytes, Upto
    <3> QED BY <3>1, <3>2 DEF n
  <2>8. g[Len(F) + 1] = RestoreState("coded", Upto(raw, k + 1), x.plain, l, a.final, d, <<>>)
    <3>1. c.t = "match"
      BY <1>8
    <3> HIDE DEF c, P, F, d
    <3>2. RestoreNext(RestoreState("coded", Upto(raw, k), a.plain, l, a.final, d, <<>>), c, P)
            = RestoreState("coded", Append(Upto(raw, k), c), p, l, a.final, d, <<>>)
      BY <2>6, <2>7, <3>1, RestoresMatch
    <3> QED BY <1>1, <2>1, <2>5, <3>2
  <2>9. Written(x) = Len(F) + 1 /\ Pending(x) = 0 /\ Len(x.rest) = 0
    BY <1>2, <1>4, <2>1 DEF Written, Pending
  <2>10. (k + 1) - 0 - 0 = k + 1 /\ x.plain = Upto(z.plain, Len(x.plain) - 0)
    BY <1>1, <1>2
  <2>11. "coded" = (IF x.mode = "trailing" THEN "header" ELSE x.mode) /\ x.mode # "stored"
        /\ d = z.blocks - x.blocks
    BY <2>1
  <2> HIDE DEF d, F, p
  <2>12. Follows(raw, z, k + 1, x, g[Len(F) + 1])
    BY <2>1, <2>8, <2>9, <2>10, <2>11, FollowsFrom
  <2> QED BY <2>9, <2>12
<1>9. CASE /\ c.t = "end"
           /\ x = ReadState(After(a.final), a.plain, Append(F, c), 0, a.left, a.blocks,
                            a.final, a.rest)
  <2>1. /\ x.mode = After(a.final) /\ x.plain = a.plain /\ x.recs = Append(F, c)
        /\ x.run = 0 /\ x.blocks = a.blocks /\ x.final = a.final /\ x.rest = a.rest
    <3> HIDE DEF c, F
    <3> QED BY <1>9 DEF ReadState
  <2>2. IsStart(a.plain, P)
    BY <1>1, <2>1
  <2>3. PICK l : /\ g[Len(F)] = RestoreState("coded", Upto(raw, k), a.plain, l, a.final, d, <<>>)
                 /\ g[Len(F) + 1] = RestoreNext(g[Len(F)], c, P)
    BY <1>6, <2>1, <2>2
  <2>4. g[Len(F) + 1] = RestoreState("header", Upto(raw, k + 1), x.plain, l, a.final, d, <<>>)
    <3>1. c.t = "end"
      BY <1>9
    <3> HIDE DEF c, P, F, d
    <3>2. RestoreNext(RestoreState("coded", Upto(raw, k), a.plain, l, a.final, d, <<>>), c, P)
            = RestoreState("header", Append(Upto(raw, k), c), a.plain, l, a.final, d, <<>>)
      BY <3>1, RestoresEnd
    <3> QED BY <1>1, <2>1, <2>3, <3>2
  <2>5. Written(x) = Len(F) + 1 /\ Pending(x) = 0 /\ Len(x.rest) = 0
    BY <1>2, <1>4, <2>1 DEF Written, Pending, After
  <2>6. (k + 1) - 0 - 0 = k + 1 /\ x.plain = Upto(z.plain, Len(x.plain) - 0)
    BY <1>1, <1>2
  <2>7. "header" = (IF x.mode = "trailing" THEN "header" ELSE x.mode) /\ x.mode # "stored"
        /\ d = z.blocks - x.blocks
    BY <2>1 DEF After
  <2> HIDE DEF d, F
  <2>8. Follows(raw, z, k + 1, x, g[Len(F) + 1])
    BY <2>1, <2>4, <2>5, <2>6, <2>7, FollowsFrom
  <2> QED BY <2>5, <2>8
<1> QED
  <2> HIDE DEF c
  <2> QED BY <1>1, <1>5, <1>7, <1>8, <1>9, ReadTokenCases

\* The same for the padding.
LEMMA RestFollows ==
  ASSUME NEW C, NEW raw \in Seq(C), NEW k, NEW max, NEW a, NEW x, NEW z,
         GoesOn(C, raw, k, max, a, x, z), NEW g, a.mode = "trailing",
         Follows(raw, z, k, a, g[Written(a)])
  PROVE  Follows(raw, z, k + 1, x, g[Written(x)])
<1> DEFINE S == Elements(C)
           c == raw[k + 1]
           m == Len(a.plain)
           r == Len(a.rest)
           d == z.blocks - a.blocks
           o == Upto(raw, k - 0 - r)
           p == Upto(z.plain, m - 0)
           b == g[Written(a)]
<1>1. k \in Nat /\ c \in C /\ a \in ReadStates(S) /\ Sound(raw, k, a)
  BY GoesOnFacts
<1>2. /\ m \in Nat /\ a.rest \in Seq(S) /\ r \in Nat /\ a.run = 0
  BY <1>1, ReadFields DEF Sound
<1>3. Pending(a) = 0 /\ Written(a) = Len(a.recs) /\ c \in S
  BY <1>1, <1>2, ElementsOf DEF Pending, Written
<1>4. x = ReadState("trailing", a.plain, a.recs, a.run, a.left, a.blocks, a.final,
                    Append(a.rest, c))
  <2>1. x = ReadNext(a, c, max)
    BY DEF GoesOn
  <2> QED BY <1>1, <2>1, ReadRestCases
<1>5. /\ x.mode = "trailing" /\ x.plain = a.plain /\ x.recs = a.recs /\ x.run = a.run
      /\ x.blocks = a.blocks /\ x.final = a.final /\ x.rest = Append(a.rest, c)
  <2> HIDE DEF c
  <2> QED BY <1>4 DEF ReadState
<1>6. Pending(x) = 0 /\ Written(x) = Written(a) /\ Len(x.rest) = r + 1
  <2>1. Len(Append(a.rest, c)) = r + 1
    <3> HIDE DEF S, c
    <3> QED BY <1>2, <1>3, AppendProperties
  <2> QED BY <1>2, <1>3, <1>5, <2>1 DEF Pending, Written
<1>7. (k + 1) - 0 - (r + 1) = k - 0 - r
  <2> HIDE DEF r
  <2> QED BY <1>1, <1>2
<1>8. b = RestoreState("header", o, p, b.left, a.final, d, <<>>)
  BY <1>3 DEF Follows
<1>9. o = Upto(raw, (k + 1) - Pending(x) - Len(x.rest)) /\ p = Upto(z.plain, Len(x.plain) - Pending(x))
  BY <1>5, <1>6, <1>7
<1>10. "header" = (IF x.mode = "trailing" THEN "header" ELSE x.mode) /\ x.mode # "stored"
       /\ d = z.blocks - x.blocks
  BY <1>5
<1> HIDE DEF b, o, p, d
<1>11. Follows(raw, z, k + 1, x, b)
  BY <1>5, <1>8, <1>9, <1>10, FollowsFrom
<1> QED BY <1>6, <1>11 DEF b

\* Restoring keeps up with reading, along a stream that was read to its end, as far as
\* its stored blocks begin at a byte.
LEMMA TraceFollows ==
  ASSUME NEW C, \A c \in C : Streamed(c), NEW raw \in Seq(C), NEW max \in Nat,
         NEW f, Trace(raw, max, f), NEW z, z = f[Len(raw)], z.mode # "bad",
         NEW g, g[0] = RestoreStart(z.blocks), Replays(z, g),
         NEW k \in 0 .. Len(raw), \A i \in 1 .. k : raw[i].t = "block" => ReadsAgain(raw[i])
  PROVE  Follows(raw, z, k, f[k], g[Written(f[k])])
<1> DEFINE n == Len(raw)
           S == Elements(C)
           T == {i \in Nat : i <= k => Follows(raw, z, i, f[i], g[Written(f[i])])}
<1>1. n \in Nat /\ n = Len(raw) /\ k \in Nat /\ k <= n
  OBVIOUS
<1>2. \A i \in 0 .. n : /\ Tracks(C, raw, i, f[i], max) /\ f[i] \in ReadStates(S)
                        /\ Grows(f[i], z) /\ f[i].mode # "bad"
  <2>1. \A i \in 0 .. n : Tracks(C, raw, i, f[i], max) /\ Grows(f[i], z)
    BY TraceTracks, TraceGrows
  <2> QED BY <2>1 DEF Tracks, Grows
<1>3. z \in ReadStates(S)
  <2>1. n \in 0 .. n
    BY <1>1
  <2> QED BY <1>2, <2>1
<1>4. 0 \in T
  <2> DEFINE a == f[0]
             P == z.plain
             b == z.blocks
  <2>1. a = ReadStart
    BY DEF Trace
  <2>2. /\ a.mode = "header" /\ a.plain = <<>> /\ a.recs = <<>> /\ a.run = 0 /\ a.final = FALSE
        /\ a.rest = <<>> /\ a.blocks = 0
    BY <2>1 DEF ReadStart
  <2>3. Len(<<>>) = 0 /\ P \in Seq(S) /\ b \in Nat
    BY <1>3, ReadFields
  <2> HIDE DEF a, P, b, S
  <2>4. Pending(a) = 0 /\ Written(a) = 0 /\ Len(a.rest) = 0 /\ Len(a.plain) = 0
    BY <2>2, <2>3 DEF Pending, Written
  <2>5. Upto(raw, 0) = <<>> /\ Upto(P, 0) = <<>>
    BY DEF Upto
  <2>6. 0 - 0 - 0 = 0 /\ 0 - 0 = 0 /\ b - 0 = b
    BY <2>3
  <2>7. g[0] = RestoreState("header", <<>>, <<>>, 0, FALSE, b, <<>>)
    BY DEF RestoreStart, b
  <2>8. Follows(raw, z, 0, a, g[0])
    <3> DEFINE e == <<>>
               i == 0
               h == g[0]
               u == FALSE
    <3>1. /\ e = Upto(raw, i - Pending(a) - Len(a.rest)) /\ e = Upto(z.plain, Len(a.plain) - Pending(a))
          /\ b = z.blocks - a.blocks /\ u = a.final /\ a.mode # "stored"
          /\ "header" = IF a.mode = "trailing" THEN "header" ELSE a.mode
      BY <2>2, <2>4, <2>5, <2>6 DEF P, b
    <3>2. h = RestoreState("header", e, e, 0, u, b, <<>>)
      BY <2>7
    <3> HIDE DEF e, i, h, u
    <3>3. Follows(raw, z, i, a, h)
      BY <3>1, <3>2, FollowsFrom
    <3> QED BY <3>3 DEF i, h
  <2> QED BY <2>4, <2>8 DEF a
<1>5. ASSUME NEW i \in Nat, i \in T PROVE i + 1 \in T
  <2> SUFFICES ASSUME i + 1 <= k PROVE Follows(raw, z, i + 1, f[i + 1], g[Written(f[i + 1])])
    OBVIOUS
  <2> DEFINE j == i + 1
             a == f[i]
             x == f[j]
  <2>1. j \in 0 .. n /\ i \in 0 .. n /\ j \in 1 .. n /\ j - 1 = i /\ i <= k
        /\ j \in 1 .. k
    BY <1>1
  <2>2. Follows(raw, z, i, a, g[Written(a)])
    BY <1>5, <2>1
  <2>3. x = ReadNext(a, raw[i + 1], max) /\ Streamed(raw[i + 1])
    <3>1. raw[j] \in C /\ f[j] = ReadNext(f[j - 1], raw[j], max)
      BY <1>1, <2>1 DEF Trace
    <3> QED BY <2>1, <3>1
  <2>4. GoesOn(C, raw, i, max, a, x, z)
    <3>1. raw[i + 1].t = "block" => ReadsAgain(raw[i + 1])
      BY <2>1
    <3> QED BY <1>1, <1>2, <1>3, <2>1, <2>3, <3>1 DEF GoesOn
  <2>5. a.mode \in {"header", "stored", "coded", "trailing"}
    BY <1>2, <2>1, ReadFields
  <2> HIDE DEF a, x, n
  <2>6. Follows(raw, z, i + 1, x, g[Written(x)])
    BY <2>2, <2>4, <2>5, HeaderFollows, StoredFollows, TokenFollows, RestFollows
  <2> QED BY <2>6 DEF x
<1> HIDE DEF T
<1>6. Nat \subseteq T
  BY <1>4, <1>5, Induction
<1> QED BY <1>1, <1>6 DEF T

\* What a recipe holds, and where.
LEMMA RecipeTail ==
  ASSUME NEW C, NEW a \in ReadStates(Elements(C))
  PROVE  LET n == Len(a.recs)  t == Tail(Recipe(a)) IN
         /\ Recipe(a)[1] = Blocks(a.blocks) /\ t \in Seq(Elements(C))
         /\ Len(t) = n + 1 + Len(a.rest) /\ t[n + 1] = Trailing(Len(a.rest))
         /\ \A i \in 1 .. n : t[i] = a.recs[i]
         /\ \A i \in 1 .. Len(a.rest) : t[n + 1 + i] = a.rest[i]
<1> DEFINE S == Elements(C)
           u == a.recs
           e == a.rest
           n == Len(u)
           l == Len(e)
           B == Blocks(a.blocks)
           T == Trailing(l)
           p == <<B>> \o u
           q == p \o <<T>>
           r == q \o e
           t == Tail(r)
<1>1. u \in Seq(S) /\ e \in Seq(S) /\ n \in Nat /\ l \in Nat /\ B \in S /\ T \in S
  BY ReadFields, ElementsOf
<1>2. Recipe(a) = r
  BY DEF Recipe
<1> HIDE DEF S, u, e, B, T
<1>3. <<B>> \in Seq(S) /\ <<T>> \in Seq(S) /\ Len(<<B>>) = 1 /\ Len(<<T>>) = 1
      /\ <<B>>[1] = B /\ <<T>>[1] = T
  BY <1>1
<1>4. /\ p \in Seq(S) /\ Len(p) = 1 + n
      /\ \A i \in 1 .. 1 + n : p[i] = IF i <= 1 THEN <<B>>[i] ELSE u[i - 1]
  BY <1>1, <1>3, ConcatProperties
<1> HIDE DEF p
<1>5. /\ q \in Seq(S) /\ Len(q) = (1 + n) + 1
      /\ \A i \in 1 .. (1 + n) + 1 : q[i] = IF i <= 1 + n THEN p[i] ELSE <<T>>[i - (1 + n)]
  BY <1>1, <1>3, <1>4, ConcatProperties
<1> HIDE DEF q
<1>6. /\ r \in Seq(S) /\ Len(r) = ((1 + n) + 1) + l
      /\ \A i \in 1 .. ((1 + n) + 1) + l :
           r[i] = IF i <= (1 + n) + 1 THEN q[i] ELSE e[i - ((1 + n) + 1)]
  <2> DEFINE k == (1 + n) + 1
  <2>1. Len(q) = k /\ Len(e) = l /\ q \in Seq(S) /\ e \in Seq(S)
    BY <1>1, <1>5
  <2> HIDE DEF k, l
  <2>2. /\ r \in Seq(S) /\ Len(r) = k + l
        /\ \A i \in 1 .. k + l : r[i] = IF i <= k THEN q[i] ELSE e[i - k]
    BY <2>1, ConcatProperties
  <2> QED BY <2>2 DEF k
<1> HIDE DEF r, n, l
<1>7. r # <<>>
  BY <1>1, <1>6
<1>8. t \in Seq(S) /\ Len(t) = (((1 + n) + 1) + l) - 1 /\ \A i \in 1 .. Len(t) : t[i] = r[i + 1]
  BY <1>6, <1>7, HeadTailProperties
<1> HIDE DEF t
<1>9. Len(t) = n + 1 + l
  BY <1>1, <1>8
<1>10. r[1] = B
  <2>1. 1 \in 1 .. 1 + n /\ 1 \in 1 .. (1 + n) + 1 /\ 1 \in 1 .. ((1 + n) + 1) + l
        /\ 1 <= 1 /\ 1 <= 1 + n /\ 1 <= (1 + n) + 1
    BY <1>1
  <2>2. r[1] = q[1] /\ q[1] = p[1] /\ p[1] = <<B>>[1]
    BY <1>4, <1>5, <1>6, <2>1
  <2> QED BY <1>3, <2>2
<1>11. ASSUME NEW i \in 1 .. n PROVE t[i] = u[i]
  <2> DEFINE j == i + 1
  <2>1. /\ i \in 1 .. Len(t) /\ j \in 1 .. 1 + n /\ j \in 1 .. (1 + n) + 1
        /\ j \in 1 .. ((1 + n) + 1) + l /\ ~(j <= 1) /\ j <= 1 + n /\ j <= (1 + n) + 1 /\ j - 1 = i
    BY <1>1, <1>9
  <2>2. t[i] = r[j]
    BY <1>8, <2>1
  <2> HIDE DEF j
  <2>3. r[j] = q[j] /\ q[j] = p[j] /\ p[j] = u[j - 1]
    BY <1>4, <1>5, <1>6, <2>1
  <2> QED BY <2>1, <2>2, <2>3
<1>12. t[n + 1] = T
  <2> DEFINE j == n + 2
  <2>1. /\ n + 1 \in 1 .. Len(t) /\ (n + 1) + 1 = j /\ j \in 1 .. (1 + n) + 1
        /\ j \in 1 .. ((1 + n) + 1) + l /\ ~(j <= 1 + n) /\ j <= (1 + n) + 1 /\ j - (1 + n) = 1
    BY <1>1, <1>9
  <2> HIDE DEF j
  <2>2. t[n + 1] = r[j]
    <3> DEFINE w == n + 1
    <3>1. w \in 1 .. Len(t) /\ w + 1 = j
      BY <2>1
    <3> HIDE DEF w
    <3>2. t[w] = r[j]
      BY <1>8, <3>1
    <3> QED BY <3>2 DEF w
  <2>3. r[j] = q[j] /\ q[j] = <<T>>[j - (1 + n)]
    BY <1>5, <1>6, <2>1
  <2> QED BY <1>3, <2>1, <2>2, <2>3
<1>13. ASSUME NEW i \in 1 .. l PROVE t[n + 1 + i] = e[i]
  <2> DEFINE w == n + 1 + i
             j == w + 1
  <2>1. /\ w \in 1 .. Len(t) /\ j \in 1 .. ((1 + n) + 1) + l /\ ~(j <= (1 + n) + 1)
        /\ j - ((1 + n) + 1) = i
    BY <1>1, <1>9
  <2> HIDE DEF w
  <2>2. t[w] = r[j]
    BY <1>8, <2>1
  <2> HIDE DEF j
  <2>3. r[j] = e[j - ((1 + n) + 1)]
    BY <1>6, <2>1
  <2> QED BY <2>1, <2>2, <2>3 DEF w
<1> QED BY <1>2, <1>8, <1>9, <1>10, <1>11, <1>12, <1>13 DEF t, T, B, S, n, l, u, e

RestoreStep(plain, a, r) == RestoreNext(a, r, plain)

Restoring == INSTANCE RecursionLemmas WITH Step <- RestoreStep

\* g[k] is the state after k records.
Retraces(n, recipe, plain, g) ==
  /\ g[0] = RestoreStart(n)
  /\ \A i \in 1 .. Len(Tail(recipe)) : g[i] = RestoreNext(g[i - 1], Tail(recipe)[i], plain)
  /\ Restore(plain, recipe) = Complete(g[Len(Tail(recipe))], plain)

\* Restoring goes record by record.
LEMMA RestoreTraced ==
  ASSUME NEW S, NEW n, NEW recipe, recipe[1] = Blocks(n), Tail(recipe) \in Seq(S), NEW plain
  PROVE  \E g : Retraces(n, recipe, plain, g)
<1> DEFINE t == Tail(recipe)
<1>0. t \in Seq(S)
  OBVIOUS
<1> DEFINE start == [mode |-> "header", out |-> <<>>, made |-> <<>>, left |-> 0, final |-> FALSE,
                     blocks |-> IF recipe[1].t = "blocks" THEN recipe[1].n ELSE 0, rest |-> <<>>]
<1>1. Restore(plain, recipe) = Complete(Restoring!Fold(plain, start, t), plain)
  BY DEF Restore, Restoring!Fold, RestoreStep, FoldLeft, MapThenFoldSet, Max,
         Restoring!FoldLeft, Restoring!MapThenFoldSet, Restoring!Max
<1>2. start = RestoreStart(n)
  <2>1. recipe[1].t = "blocks" /\ recipe[1].n = n
    BY DEF Blocks
  <2> QED BY <2>1 DEF RestoreStart, RestoreState
<1> HIDE DEF start
<1> HIDE DEF t
<1>3. Len(t) \in Nat /\ DOMAIN t = 1 .. Len(t)
  BY <1>0
<1>4. PICK g : /\ Restoring!Unrolls(plain, start, t, g)
               /\ Restoring!Fold(plain, start, t) = g[Len(t)]
  BY <1>3, Restoring!Unrolled
<1>5. /\ g[0] = RestoreStart(n)
      /\ \A i \in 1 .. Len(t) : g[i] = RestoreNext(g[i - 1], t[i], plain)
      /\ Restore(plain, recipe) = Complete(g[Len(t)], plain)
  BY <1>1, <1>2, <1>4 DEF Restoring!Unrolls, RestoreStep
<1> QED BY <1>5 DEF t, Retraces

\* The states of restoring what was read.
LEMMA Replayed ==
  ASSUME NEW C, NEW z \in ReadStates(Elements(C)), NEW t, t = Tail(Recipe(z))
  PROVE  \E g : /\ g[0] = RestoreStart(z.blocks) /\ Replays(z, g)
                /\ \A i \in 1 .. Len(t) : g[i] = RestoreNext(g[i - 1], t[i], z.plain)
                /\ Restore(z.plain, Recipe(z)) = Complete(g[Len(t)], z.plain)
<1> DEFINE S == Elements(C)
           P == z.plain
           n == Len(z.recs)
           l == Len(z.rest)
           b == z.blocks
           recipe == Recipe(z)
<1>1. /\ recipe[1] = Blocks(b) /\ t \in Seq(S) /\ Len(t) = n + 1 + l
      /\ \A i \in 1 .. n : t[i] = z.recs[i]
  BY RecipeTail
<1>2. n \in Nat /\ l \in Nat
  BY ReadFields
<1>3. t = Tail(recipe) /\ Tail(recipe) \in Seq(S)
  BY <1>1
<1> HIDE DEF recipe, b, P, n, l, S
<1>4. PICK g : Retraces(b, recipe, P, g)
  <2>1. recipe[1] = Blocks(b) /\ Tail(recipe) \in Seq(S)
    BY <1>1, <1>3
  <2> QED BY <2>1, RestoreTraced
<1>5. /\ g[0] = RestoreStart(b)
      /\ \A i \in 1 .. Len(t) : g[i] = RestoreNext(g[i - 1], t[i], P)
      /\ Restore(P, recipe) = Complete(g[Len(t)], P)
  BY <1>3, <1>4 DEF Retraces
<1>6. Replays(z, g)
  <2>1. ASSUME NEW j \in 1 .. n PROVE g[j] = RestoreNext(g[j - 1], z.recs[j], P)
    <3>1. j \in 1 .. Len(t)
      BY <1>1, <1>2
    <3> QED BY <1>1, <1>5, <3>1
  <2> QED BY <2>1 DEF Replays, n, P
<1> QED BY <1>5, <1>6 DEF recipe, b, P

\* What was read to its end is written again, token by token, when its stored blocks
\* begin at a byte.
LEMMA Rewritten ==
  ASSUME NEW C, \A c \in C : Streamed(c), NEW raw \in Seq(C), NEW max \in Nat,
         NEW z, z = Read(raw, max), z.mode = "trailing", ShortRest(z.rest),
         StoredAtBytes(raw)
  PROVE  Restore(z.plain, Recipe(z)) = <<raw>>
<1> DEFINE S == Elements(C)
           P == z.plain
           n == Len(z.recs)
           l == Len(z.rest)
           k == Len(raw)
           t == Tail(Recipe(z))
<1>1. PICK f : Trace(raw, max, f) /\ z = f[k]
  BY ReadTraced
<1>2. Tracks(C, raw, k, z, max) /\ k \in Nat
  <2>1. k \in 0 .. k /\ k \in Nat
    OBVIOUS
  <2> QED BY <1>1, <2>1, TraceTracks
<1>3. z \in ReadStates(S) /\ Sound(raw, k, z)
  BY <1>2 DEF Tracks
<1>4. /\ n \in Nat /\ l \in Nat /\ P \in Seq(S) /\ z.final = TRUE /\ z.run = 0 /\ z.blocks \in Nat
      /\ Pending(z) = 0 /\ Written(z) = n /\ l <= k
      /\ \A j \in k - l + 1 .. k : raw[j] = z.rest[l - k + j]
  BY <1>3, ReadFields DEF Sound, Pending, Written
<1>5. /\ Recipe(z)[1] = Blocks(z.blocks) /\ t \in Seq(S) /\ Len(t) = n + 1 + l
      /\ t[n + 1] = Trailing(l) /\ \A i \in 1 .. n : t[i] = z.recs[i]
      /\ \A i \in 1 .. l : t[n + 1 + i] = z.rest[i]
  BY <1>3, RecipeTail
<1> HIDE DEF t, S
<1>6. PICK g : /\ g[0] = RestoreStart(z.blocks) /\ Replays(z, g)
               /\ \A i \in 1 .. Len(t) : g[i] = RestoreNext(g[i - 1], t[i], P)
               /\ Restore(P, Recipe(z)) = Complete(g[Len(t)], P)
  BY <1>3, Replayed DEF t, S
<1>7. \A i \in 1 .. k : raw[i].t = "block" => ReadsAgain(raw[i])
  BY DEF StoredAtBytes, ToSet
<1>8. Follows(raw, z, k, z, g[n])
  <2>1. z.mode # "bad" /\ z = f[Len(raw)] /\ k \in 0 .. Len(raw)
    BY <1>1, <1>2
  <2>2. Follows(raw, z, k, f[k], g[Written(f[k])])
    BY <1>1, <1>6, <1>7, <2>1, TraceFollows
  <2> QED BY <1>1, <1>4, <2>2
<1> DEFINE o == Upto(raw, k - l)
<1>9. PICK w : g[n] = RestoreState("header", o, P, w, TRUE, 0, <<>>)
  <2>1. k - 0 - l = k - l /\ Len(P) - 0 = Len(P) /\ z.blocks - z.blocks = 0
    BY <1>2, <1>4
  <2>2. Upto(P, Len(P)) = P
    BY <1>4, SubSeqFull DEF Upto
  <2>3. g[n] = RestoreState("header", Upto(raw, k - 0 - l), Upto(P, Len(P) - 0), g[n].left, z.final,
                            z.blocks - z.blocks, <<>>)
    BY <1>4, <1>8 DEF Follows
  <2> QED BY ZenonT(60), <1>4, <2>1, <2>2, <2>3
<1>10. g[n + 1] = RestoreState("trailing", o, P, l, TRUE, 0, <<>>)
  <2>1. n + 1 \in 1 .. Len(t) /\ (n + 1) - 1 = n
    <3> HIDE DEF n, l
    <3> QED BY <1>4, <1>5
  <2>2. g[n + 1] = RestoreNext(g[n], Trailing(l), P)
    <3> DEFINE i == n + 1
    <3>1. i \in 1 .. Len(t) /\ i - 1 = n /\ t[i] = Trailing(l)
      BY <1>5, <2>1
    <3> HIDE DEF i, n, l, P
    <3>2. g[i] = RestoreNext(g[i - 1], t[i], P)
      BY <1>6, <3>1
    <3> QED BY <3>1, <3>2 DEF i
  <2>3. Trailing(l).t = "trailing" /\ Trailing(l).n = l
    BY DEF Trailing
  <2> DEFINE r == Trailing(l)
             u == TRUE
             b == 0
             e == <<>>
  <2> HIDE DEF o, P, l, n, r, u, b, e
  <2>4. b = 0 /\ r.t = "trailing" /\ r.n = l /\ g[n] = RestoreState("header", o, P, w, u, b, e)
    BY <1>9, <2>3 DEF r, u, b, e
  <2>5. RestoreNext(RestoreState("header", o, P, w, u, b, e), r, P)
          = RestoreState("trailing", o, P, r.n, u, b, e)
    BY <2>4, RestoresTrailing
  <2>6. g[n + 1] = RestoreState("trailing", o, P, l, u, b, e)
    BY <2>2, <2>4, <2>5 DEF r
  <2> QED BY <2>6 DEF u, b, e
<1>11. CASE z.rest = <<>>
  <2>1. l = 0 /\ Len(t) = n + 1
    BY <1>4, <1>5, <1>11
  <2>2. o = raw
    <3>1. k - l = k
      BY <1>2, <2>1
    <3> QED BY <3>1, SubSeqFull DEF Upto
  <2> DEFINE a == g[n + 1]
  <2>3. /\ a.mode = "trailing" /\ a.final = TRUE /\ a.left = 0 /\ a.rest = <<>> /\ a.made = P
        /\ a.out = raw
    <3> HIDE DEF o, P, n, a
    <3>1. a = RestoreState("trailing", o, P, l, TRUE, 0, <<>>)
      BY <1>10 DEF a
    <3> QED BY <2>1, <2>2, <3>1 DEF RestoreState
  <2> HIDE DEF a, P
  <2>4. Len(a.rest) = a.left /\ ShortRest(a.rest)
    BY <2>3 DEF ShortRest
  <2>5. Complete(a, P) = <<raw>>
    BY <2>3, <2>4 DEF Complete
  <2> QED BY <1>6, <2>1, <2>5 DEF a, P
<1>12. CASE z.rest = <<Pad>>
  <2>1. l = 1 /\ Len(t) = n + 1 + 1 /\ z.rest[1] = Pad /\ t[n + 1 + 1] = Pad
    BY SMTT(40), <1>4, <1>5, <1>12
  <2>2. Append(o, Pad) = raw
    <3> DEFINE j == k - 1
    <3>1. j \in Nat /\ j + 1 = k /\ k \in k - l + 1 .. k /\ l - k + k = 1
      BY <1>2, <1>4, <2>1
    <3>2. raw[k] = Pad
      BY <1>4, <2>1, <3>1
    <3> HIDE DEF j
    <3>3. Append(Upto(raw, j), raw[j + 1]) = Upto(raw, j + 1)
      BY <3>1, UptoNext
    <3>4. Upto(raw, k) = raw
      BY SubSeqFull DEF Upto
    <3>5. o = Upto(raw, j)
      BY <2>1 DEF j
    <3> QED BY <3>1, <3>2, <3>3, <3>4, <3>5
  <2> DEFINE i == n + 1
             a == g[i + 1]
  <2>3. a = RestoreNext(g[i], Pad, P)
    <3> DEFINE j == i + 1
    <3>1. j \in 1 .. Len(t) /\ j - 1 = i /\ t[j] = Pad
      BY <1>4, <2>1
    <3> HIDE DEF j, i, P
    <3>2. g[j] = RestoreNext(g[j - 1], t[j], P)
      BY <1>6, <3>1
    <3> QED BY <3>1, <3>2 DEF j
  <2>4. a = RestoreState("trailing", raw, P, 1, TRUE, 0, Append(<<>>, Pad))
    <3> DEFINE u == TRUE
               b == 0
               e == <<>>
    <3>1. g[i] = RestoreState("trailing", o, P, l, u, b, e)
      BY <1>10
    <3> HIDE DEF i, o, P, l, u, b, e, a
    <3>2. RestoreNext(RestoreState("trailing", o, P, l, u, b, e), Pad, P)
            = RestoreState("trailing", Append(o, Pad), P, l, u, b, Append(e, Pad))
      BY RestoresRest
    <3>3. a = RestoreState("trailing", raw, P, l, u, b, Append(e, Pad))
      BY <2>2, <2>3, <3>1, <3>2
    <3> QED BY <2>1, <3>3 DEF u, b, e
  <2>5. Append(<<>>, Pad) = <<Pad>> /\ Len(<<Pad>>) = 1
    OBVIOUS
  <2> HIDE DEF a, P, i
  <2>6. /\ a.mode = "trailing" /\ a.final = TRUE /\ a.left = 1 /\ a.rest = <<Pad>> /\ a.made = P
        /\ a.out = raw
    BY <2>4, <2>5 DEF RestoreState
  <2>7. Len(a.rest) = a.left /\ ShortRest(a.rest)
    BY <2>5, <2>6 DEF ShortRest
  <2>8. Complete(a, P) = <<raw>>
    BY <2>6, <2>7 DEF Complete
  <2> QED BY <1>6, <2>1, <2>8 DEF a, P, i
<1> QED BY <1>11, <1>12 DEF ShortRest

\* A stored block that does not begin at a byte is the last that restoring comes to.
LEMMA Refuses ==
  ASSUME NEW C, \A c \in C : Streamed(c), NEW raw \in Seq(C), NEW max \in Nat,
         NEW z, z = Read(raw, max), z.mode = "trailing", ShortRest(z.rest),
         ~StoredAtBytes(raw)
  PROVE  Restore(z.plain, Recipe(z)) = <<>>
<1> DEFINE S == Elements(C)
           P == z.plain
           k == Len(raw)
           t == Tail(Recipe(z))
<1>1. PICK f : Trace(raw, max, f) /\ z = f[k]
  BY ReadTraced
<1>2. \A i \in 0 .. k : /\ Tracks(C, raw, i, f[i], max) /\ f[i] \in ReadStates(S)
                        /\ Grows(f[i], z) /\ f[i].mode # "bad"
  <2>1. \A i \in 0 .. k : Tracks(C, raw, i, f[i], max) /\ Grows(f[i], z)
    BY <1>1, TraceTracks, TraceGrows
  <2> QED BY <2>1 DEF Tracks, Grows
<1>3. k \in Nat /\ z \in ReadStates(S)
  <2>1. k \in 0 .. k /\ k \in Nat
    OBVIOUS
  <2> QED BY <1>1, <1>2, <2>1
<1>4. PICK g : /\ g[0] = RestoreStart(z.blocks) /\ Replays(z, g)
               /\ \A i \in 1 .. Len(t) : g[i] = RestoreNext(g[i - 1], t[i], P)
               /\ Restore(P, Recipe(z)) = Complete(g[Len(t)], P)
  BY <1>3, Replayed
<1>5. PICK m \in 1 .. k : /\ raw[m].t = "block" /\ ~ReadsAgain(raw[m])
                          /\ \A i \in 1 .. m - 1 : raw[i].t = "block" => ReadsAgain(raw[i])
  <2> DEFINE M == {i \in 1 .. k : raw[i].t = "block" /\ ~ReadsAgain(raw[i])}
  <2>1. M \in SUBSET Nat /\ M # {}
    BY DEF StoredAtBytes, ToSet
  <2>2. \E m \in M : \A i \in M : m <= i
    <3> HIDE DEF M
    <3> QED BY <2>1, LeastNumber
  <2>3. PICK m \in M : \A i \in M : m <= i
    BY <2>2
  <2>4. ASSUME NEW i \in 1 .. m - 1, i \in M PROVE FALSE
    <3>1. m <= i
      BY <2>3, <2>4
    <3> QED BY <3>1
  <2>5. \A i \in 1 .. m - 1 : i \in 1 .. k
    BY <1>3
  <2> QED BY <2>3, <2>4, <2>5
<1> DEFINE i == m - 1
           a == f[i]
           x == f[m]
           c == raw[m]
           n == Len(a.recs)
<1>6. i \in 0 .. k /\ m \in 0 .. k /\ c \in C /\ x = ReadNext(a, c, max)
  <2>1. i \in 0 .. k /\ m \in 0 .. k /\ c \in C
    BY <1>3
  <2> QED BY <1>1, <2>1 DEF Trace
<1>7. /\ a \in ReadStates(S) /\ x \in ReadStates(S) /\ x.mode # "bad" /\ a.mode # "bad"
      /\ IsStart(x.recs, z.recs) /\ IsStart(x.rest, z.rest)
  BY <1>2, <1>6 DEF Grows
<1>8. Follows(raw, z, i, a, g[Written(a)])
  <2>1. z.mode # "bad" /\ z = f[Len(raw)]
    BY <1>1
  <2> HIDE DEF a
  <2>2. Follows(raw, z, i, f[i], g[Written(f[i])])
    BY <1>1, <1>4, <1>5, <1>6, <2>1, TraceFollows
  <2> QED BY <2>2 DEF a
<1> HIDE DEF S, c, a, x, i
<1>9. c.t = "block" /\ c.kind = "stored" /\ ~ReadsAgain(c)
  BY <1>5 DEF c, ReadsAgain
<1>10. x # Bad(a)
  <2>1. Bad(a).mode = "bad"
    BY <1>7, ReadBad, ReadStateIs
  <2> QED BY <1>7, <2>1
<1>11. a.mode = "header"
  <2>1. a.mode \in {"header", "stored", "coded", "trailing"}
    BY <1>7, ReadFields
  <2>2. CASE a.mode = "stored"
    BY <1>6, <1>7, <1>9, <1>10, <2>2, ReadStoredCases
  <2>3. CASE a.mode = "coded"
    BY <1>6, <1>7, <1>9, <1>10, <2>3, ReadTokenCases
  <2>4. CASE a.mode = "trailing"
    <3>1. x.rest = Append(a.rest, c)
      <4>1. x = ReadState("trailing", a.plain, a.recs, a.run, a.left, a.blocks, a.final,
                          Append(a.rest, c))
        BY <1>6, <1>7, <2>4, ReadRestCases
      <4> QED BY <4>1 DEF ReadState
    <3>2. a.rest \in Seq(S) /\ c \in S
      BY <1>6, <1>7, ReadFields, ElementsOf DEF S
    <3>3. /\ Len(Append(a.rest, c)) = Len(a.rest) + 1 /\ Append(a.rest, c)[Len(a.rest) + 1] = c
          /\ Len(a.rest) \in Nat
      BY <3>2, AppendProperties
    <3>4. Len(a.rest) + 1 <= Len(z.rest) /\ z.rest[Len(a.rest) + 1] = c
      BY <1>7, <3>1, <3>3, SMTT(40) DEF IsStart
    <3>5. z.rest = <<Pad>>
      BY <3>3, <3>4 DEF ShortRest
    <3>6. Len(a.rest) = 0
      BY <3>3, <3>4, <3>5
    <3>7. c = Pad
      BY <3>4, <3>5, <3>6
    <3> QED BY <1>9, <3>7 DEF Pad
  <2> QED BY <2>1, <2>2, <2>3, <2>4
<1>12. n \in Nat /\ a.recs \in Seq(S) /\ c \in S
  BY <1>6, <1>7, ReadFields, ElementsOf DEF S
<1>13. g[n + 1] = RestoreNext(g[n], c, P) /\ n + 1 <= Len(z.recs)
  <2>1. x = ReadPlain(a, c) /\ c.n \in Nat
    <3>1. x = ReadPlain(a, c)
      BY <1>6, <1>7, <1>9, <1>10, <1>11, ReadHeaderCases
    <3> QED BY <1>6, <1>9, <3>1 DEF Streamed
  <2>2. x.recs = Append(Append(a.recs, c), Stored(c.n))
    BY <2>1 DEF ReadPlain, ReadState
  <2>3. Stored(c.n) \in S
    BY <2>1, ElementsOf DEF S
  <2> DEFINE q == Append(a.recs, c)
  <2>4. q \in Seq(S) /\ Len(q) = n + 1 /\ q[n + 1] = c
    BY <1>12, AppendProperties
  <2> HIDE DEF q
  <2>5. /\ x.recs \in Seq(S) /\ Len(x.recs) = Len(q) + 1
        /\ \A j \in 1 .. Len(q) : x.recs[j] = q[j]
    BY <2>2, <2>3, <2>4, AppendProperties DEF q
  <2> HIDE DEF n, P
  <2>6. n + 1 <= Len(x.recs) /\ x.recs[n + 1] = c
    BY <1>12, <2>4, <2>5
  <2>7. g[n + 1] = RestoreNext(g[n], x.recs[n + 1], z.plain)
    <3>1. Replays(z, g) /\ z \in ReadStates(S)
      BY <1>3, <1>4
    <3>2. IsStart(x.recs, z.recs)
      BY <1>7
    <3> DEFINE s == x.recs
    <3>3. s \in Seq(S) /\ n \in Nat /\ n + 1 <= Len(s) /\ IsStart(s, z.recs)
      BY <1>12, <2>5, <2>6, <3>2
    <3> HIDE DEF s
    <3>4. g[n + 1] = RestoreNext(g[n], s[n + 1], z.plain)
      BY <3>1, <3>3, ReplayOne
    <3> QED BY <3>4 DEF s
  <2>8. n + 1 <= Len(z.recs)
    <3>1. Len(x.recs) \in Nat /\ Len(z.recs) \in Nat /\ Len(x.recs) <= Len(z.recs)
      BY <1>3, <1>7, <2>5, ReadFields DEF IsStart
    <3> QED BY <1>12, <2>6, <3>1
  <2> QED BY <2>6, <2>7, <2>8 DEF P
<1>14. g[n + 1].mode = "bad"
  <2>1. Written(a) = n
    BY <1>11 DEF Written
  <2> DEFINE b == g[n]
  <2>2. b.mode = "header"
    <3>1. b = RestoreState(IF a.mode = "trailing" THEN "header" ELSE a.mode,
                           Upto(raw, i - Pending(a) - Len(a.rest)),
                           Upto(z.plain, Len(a.plain) - Pending(a)),
                           b.left, a.final, z.blocks - a.blocks, <<>>)
      BY <1>8, <2>1 DEF Follows
    <3> HIDE DEF b
    <3>2. b.mode = IF a.mode = "trailing" THEN "header" ELSE a.mode
      BY <3>1 DEF RestoreState
    <3> QED BY <1>11, <3>2
  <2>3. g[n + 1] = RestoreHeader(b, c)
    BY <1>13, <2>2 DEF RestoreNext
  <2> HIDE DEF b
  <2>4. RestoreHeader(b, c) = Bad(b)
    BY <1>9 DEF RestoreHeader
  <2>5. Bad(b).mode = "bad"
    BY <1>8, <2>1 DEF Bad, Follows, RestoreState, b
  <2> QED BY <2>3, <2>4, <2>5
<1>15. Len(t) \in Nat /\ n + 1 <= Len(t)
  <2>1. Len(t) = Len(z.recs) + 1 + Len(z.rest) /\ Len(z.recs) \in Nat /\ Len(z.rest) \in Nat
    BY <1>3, RecipeTail, ReadFields DEF S
  <2> DEFINE p == Len(z.recs)
             q == Len(z.rest)
             u == Len(t)
  <2>2. u = p + 1 + q /\ p \in Nat /\ q \in Nat /\ n \in Nat /\ n + 1 <= p
    BY <1>12, <1>13, <2>1
  <2> HIDE DEF n, p, q, u
  <2>3. u \in Nat /\ n + 1 <= u
    BY <2>2
  <2> QED BY <2>3 DEF u
<1>16. g[Len(t)].mode = "bad"
  <2> DEFINE w == n + 1
             T == {j \in Nat : w + j <= Len(t) => g[w + j].mode = "bad"}
  <2>1. w \in Nat /\ w <= Len(t)
    BY <1>12, <1>15
  <2> HIDE DEF t, w, P
  <2>2. 0 \in T
    BY <1>14, <2>1 DEF w
  <2>3. ASSUME NEW j \in Nat, j \in T PROVE j + 1 \in T
    <3> SUFFICES ASSUME w + (j + 1) <= Len(t) PROVE g[w + (j + 1)].mode = "bad"
      OBVIOUS
    <3>1. w + (j + 1) \in 1 .. Len(t) /\ (w + (j + 1)) - 1 = w + j /\ w + j <= Len(t)
      BY <1>15, <2>1
    <3>2. g[w + j].mode = "bad"
      BY <2>3, <3>1
    <3>3. g[w + (j + 1)] = RestoreNext(g[w + j], t[w + (j + 1)], P)
      BY <1>4, <3>1
    <3> QED BY <3>2, <3>3 DEF RestoreNext
  <2> HIDE DEF T
  <2>4. Nat \subseteq T
    BY <2>2, <2>3, Induction
  <2>5. Len(t) - w \in T /\ w + (Len(t) - w) = Len(t)
    BY <1>15, <2>1, <2>4
  <2> QED BY <1>15, <2>5 DEF T
<1> QED BY <1>4, <1>16 DEF Complete

(***************************************************************************)
(* Sums                                                                    *)
(***************************************************************************)

SumStep(c, sum, n) == sum + n

Summing == INSTANCE RecursionLemmas WITH Step <- SumStep

\* Partial sums of numbers.
Sums(nums, g) == g[0] = 0 /\ \A i \in 1 .. Len(nums) : g[i] = g[i - 1] + nums[i]

\* SumOver goes element by element.
LEMMA Summed ==
  ASSUME NEW nums \in Seq(Nat)
  PROVE  \E h : Sums(nums, h) /\ FoldLeft(LAMBDA sum, n : sum + n, 0, nums) = h[Len(nums)]
<1>1. FoldLeft(LAMBDA sum, n : sum + n, 0, nums) = Summing!Fold(0, 0, nums)
  BY DEF Summing!Fold, SumStep, FoldLeft, MapThenFoldSet, Max,
         Summing!FoldLeft, Summing!MapThenFoldSet, Summing!Max
<1>2. Len(nums) \in Nat /\ DOMAIN nums = 1 .. Len(nums)
  OBVIOUS
<1>3. PICK h : Summing!Unrolls(0, 0, nums, h) /\ Summing!Fold(0, 0, nums) = h[Len(nums)]
  BY <1>2, Summing!Unrolled
<1> QED BY <1>1, <1>3 DEF Summing!Unrolls, SumStep, Sums

\* There is one way to add up.
LEMMA SumsAgree ==
  ASSUME NEW nums \in Seq(Nat), NEW g, NEW h, Sums(nums, g), Sums(nums, h),
         NEW k \in 0 .. Len(nums)
  PROVE  g[k] = h[k] /\ g[k] \in Nat
<1> DEFINE T == {i \in Nat : i <= Len(nums) => g[i] = h[i] /\ g[i] \in Nat}
<1>1. 0 \in T
  BY DEF Sums
<1>2. ASSUME NEW i \in Nat, i \in T PROVE i + 1 \in T
  <2> SUFFICES ASSUME i + 1 <= Len(nums) PROVE g[i + 1] = h[i + 1] /\ g[i + 1] \in Nat
    OBVIOUS
  <2>1. Len(nums) \in Nat /\ i <= Len(nums)
    OBVIOUS
  <2> DEFINE j == i + 1
  <2>2. j \in 1 .. Len(nums) /\ j - 1 = i
    BY <2>1
  <2>3. g[i] = h[i] /\ g[i] \in Nat /\ nums[j] \in Nat
    BY <1>2, <2>1, <2>2
  <2> HIDE DEF j
  <2>4. g[j] = g[i] + nums[j] /\ h[j] = h[i] + nums[j]
    BY <2>2 DEF Sums
  <2>5. g[j] = h[j] /\ g[j] \in Nat
    BY <2>3, <2>4
  <2> QED BY <2>5 DEF j
<1> HIDE DEF T
<1>3. Nat \subseteq T
  BY <1>1, <1>2, Induction
<1> QED BY <1>3 DEF T

\* Whatever runs along as the partial sums do is the sum in the end.
LEMMA SumIs ==
  ASSUME NEW nums \in Seq(Nat), NEW g, Sums(nums, g)
  PROVE  FoldLeft(LAMBDA sum, n : sum + n, 0, nums) = g[Len(nums)]
<1>1. PICK h : Sums(nums, h) /\ FoldLeft(LAMBDA sum, n : sum + n, 0, nums) = h[Len(nums)]
  BY Summed
<1>2. Len(nums) \in 0 .. Len(nums)
  OBVIOUS
<1>3. g[Len(nums)] = h[Len(nums)]
  BY <1>1, <1>2, SumsAgree
<1> QED BY <1>1, <1>3

\* How long the sources of the transforms in a plan are.
SourceSizes(list) == [i \in DOMAIN list |-> Len(list[i].source)]

\* What the budget counts is their sum.
LEMMA ExpandedIs ==
  ASSUME NEW list
  PROVE  Expanded(list) = FoldLeft(LAMBDA sum, n : sum + n, 0, SourceSizes(list))
  BY DEF Expanded, SumOver, SourceSizes

\* The source of a segment is a sequence over S.
HasSource(S, x) == x.source \in Seq(S)

\* They are numbers.
LEMMA SourceSizesType ==
  ASSUME NEW S, NEW T, NEW list \in Seq(T), \A x \in T : HasSource(S, x)
  PROVE  /\ SourceSizes(list) \in Seq(Nat) /\ Len(SourceSizes(list)) = Len(list)
         /\ \A i \in 1 .. Len(list) : SourceSizes(list)[i] = Len(list[i].source)
<1> DEFINE n == Len(list)
           q == SourceSizes(list)
<1>1. n \in Nat /\ DOMAIN list = 1 .. n /\ \A i \in 1 .. n : list[i] \in T
  OBVIOUS
<1>2. \A i \in 1 .. n : Len(list[i].source) \in Nat
  BY <1>1 DEF HasSource
<1>3. q = [i \in 1 .. n |-> Len(list[i].source)]
  BY <1>1 DEF SourceSizes
<1> HIDE DEF n, q
<1>4. q \in [1 .. n -> Nat] /\ \A i \in 1 .. n : q[i] = Len(list[i].source)
  BY <1>2, <1>3
<1>5. q \in Seq(Nat) /\ Len(q) = n
  BY <1>1, <1>4
<1> QED BY <1>4, <1>5 DEF n, q

\* A segment more adds the length of its source to what the budget counts.
LEMMA ExpandedAppend ==
  ASSUME NEW S, NEW T, NEW list \in Seq(T), \A x \in T : HasSource(S, x), NEW y \in T
  PROVE  /\ Expanded(Append(list, y)) = Expanded(list) + Len(y.source)
         /\ Expanded(list) \in Nat /\ Len(y.source) \in Nat
<1> DEFINE n == Len(list)
           l == Append(list, y)
           p == SourceSizes(list)
           q == SourceSizes(l)
           sum(s) == FoldLeft(LAMBDA a, b : a + b, 0, s)
<1>1. /\ n \in Nat /\ l \in Seq(T) /\ Len(l) = n + 1 /\ l[n + 1] = y
      /\ \A i \in 1 .. n : l[i] = list[i]
  BY AppendProperties
<1>2. Len(y.source) \in Nat
  BY DEF HasSource
<1> HIDE DEF l
<1>3. /\ p \in Seq(Nat) /\ Len(p) = n /\ \A i \in 1 .. n : p[i] = Len(list[i].source)
  BY SourceSizesType
<1>4. /\ q \in Seq(Nat) /\ Len(q) = n + 1 /\ \A i \in 1 .. n + 1 : q[i] = Len(l[i].source)
  BY <1>1, SourceSizesType
<1>5. PICK h : Sums(q, h)
  BY <1>4, Summed
<1> HIDE DEF p, q, n
<1>6. Sums(p, h)
  <2>1. ASSUME NEW i \in 1 .. n PROVE i \in 1 .. n + 1 /\ q[i] = p[i]
    <3>1. i \in 1 .. n + 1
      BY <1>1
    <3>2. q[i] = Len(l[i].source) /\ l[i] = list[i]
      BY <1>1, <1>4, <3>1
    <3> QED BY <1>3, <3>1, <3>2
  <2> QED BY <1>3, <1>4, <1>5, <2>1 DEF Sums
<1>7. sum(p) = h[n] /\ sum(q) = h[n + 1]
  <2>1. FoldLeft(LAMBDA a, b : a + b, 0, p) = h[Len(p)]
    BY <1>3, <1>6, SumIs
  <2>2. FoldLeft(LAMBDA a, b : a + b, 0, q) = h[Len(q)]
    BY <1>4, <1>5, SumIs
  <2> QED BY <1>3, <1>4, <2>1, <2>2
<1>8. h[n] \in Nat
  <2>1. n \in 0 .. Len(p)
    BY <1>1, <1>3
  <2> QED BY <1>3, <1>6, <2>1, SumsAgree
<1>9. h[n + 1] = h[n] + Len(y.source)
  <2> DEFINE j == n + 1
  <2>1. j \in 1 .. Len(q) /\ j - 1 = n /\ q[j] = Len(y.source)
    BY <1>1, <1>4
  <2> HIDE DEF j
  <2>2. h[j] = h[j - 1] + q[j]
    BY <1>5, <2>1 DEF Sums
  <2> QED BY <2>1, <2>2 DEF j
<1>10. Expanded(list) = sum(p) /\ Expanded(l) = sum(q)
  BY ExpandedIs DEF p, q
<1> QED BY <1>2, <1>7, <1>8, <1>9, <1>10 DEF l

\* An empty plan has used nothing of the budget.
LEMMA ExpandedNone ==
  Expanded(<<>>) = 0
<1> DEFINE q == SourceSizes(<<>>)
<1>1. q \in Seq(Nat) /\ Len(q) = 0
  BY DEF SourceSizes
<1> DEFINE g == [i \in 0 .. 0 |-> 0]
<1>2. Sums(q, g)
  <2>1. g[0] = 0
    OBVIOUS
  <2> HIDE DEF q, g
  <2>2. \A i \in 1 .. Len(q) : FALSE
    BY <1>1
  <2> QED BY <2>1, <2>2 DEF Sums
<1> HIDE DEF q
<1>3. g[0] = 0
  OBVIOUS
<1> HIDE DEF g
<1>4. FoldLeft(LAMBDA sum, n : sum + n, 0, q) = g[0]
  BY <1>1, <1>2, SumIs
<1>5. Expanded(<<>>) = FoldLeft(LAMBDA sum, n : sum + n, 0, q)
  BY ExpandedIs DEF q
<1> QED BY <1>3, <1>4, <1>5

(***************************************************************************)
(* Segments and plans                                                      *)
(***************************************************************************)

\* The bytes of d that a component or a segment stands for.
Part(d, x) == SubSeq(d, x.s + 1, x.e)

\* Segments of d with sources and recipes of S.
Segments(d, S) ==
  [kind : 0 .. 2, s : 0 .. Len(d), e : 0 .. Len(d), source : Seq(S), recipe : Seq(S)]

\* A transform that gives back its part of d.
Restores(d, magic, x) ==
  /\ x.source # <<>> /\ x.recipe # <<>>
  /\ RestoreAs(magic, x.source, x.recipe) = <<Part(d, x)>>

\* Those that are not transformed.
Untouched(d, S) == {x \in Segments(d, S) : /\ x.s < x.e /\ x.kind # Transformed
                                           /\ x.source = <<>> /\ x.recipe = <<>>}

\* Those and transforms that restore what they stand for.
Proper(d, S, magic) ==
  Untouched(d, S) \cup {x \in Segments(d, S) : /\ x.s < x.e /\ x.kind = Transformed
                                               /\ Restores(d, magic, x)}

\* Segments without a hole from the start of the file on.
Chained(list) ==
  /\ list # <<>> => list[1].s = 0
  /\ \A i \in 1 .. Len(list) - 1 : list[i].e = list[i + 1].s

\* Plans of segments in T.
Plans(T) == {list \in Seq(T) : Chained(list)}

\* The fields of a segment.
LEMMA ProperFields ==
  ASSUME NEW C, NEW d \in Seq(C), NEW S, NEW magic, NEW x \in Proper(d, S, magic)
  PROVE  /\ x.kind \in 0 .. 2 /\ x.s \in Nat /\ x.e \in Nat /\ x.s < x.e /\ x.e <= Len(d)
         /\ Len(d) \in Nat /\ HasSource(S, x) /\ x.recipe \in Seq(S)
         /\ x.kind = Transformed => Restores(d, magic, x)
         /\ x.kind # Transformed => x.source = <<>> /\ x.recipe = <<>>
         /\ x = [kind |-> x.kind, s |-> x.s, e |-> x.e, source |-> x.source, recipe |-> x.recipe]
<1>1. x \in Segments(d, S) /\ x.s < x.e /\ Len(d) \in Nat
  BY DEF Proper, Untouched
<1>2. /\ x.kind = Transformed => Restores(d, magic, x)
      /\ x.kind # Transformed => x.source = <<>> /\ x.recipe = <<>>
  BY DEF Proper, Untouched
<1> QED BY <1>1, <1>2 DEF Segments, HasSource

\* A segment of a component is an untouched one.
LEMMA SegmentUntouched ==
  ASSUME NEW C, NEW d \in Seq(C), NEW S, NEW kind \in {Opaque, Pooled}, NEW c,
         c.s \in 0 .. Len(d), c.e \in 0 .. Len(d), c.s < c.e
  PROVE  /\ Segment(kind, c) \in Untouched(d, S)
         /\ Segment(kind, c).s = c.s /\ Segment(kind, c).e = c.e
         /\ Segment(kind, c).kind = kind /\ Segment(kind, c).source = <<>>
BY DEF Segment, Untouched, Segments, Opaque, Pooled, Transformed

\* A plan reaches nowhere outside the file.
LEMMA CursorBounded ==
  ASSUME NEW C, NEW d \in Seq(C), NEW S, NEW magic, NEW list \in Seq(Proper(d, S, magic))
  PROVE  Cursor(list) \in 0 .. Len(d)
<1>1. CASE list = <<>>
  BY <1>1 DEF Cursor
<1>2. CASE list # <<>>
  <2>1. Len(list) \in 1 .. Len(list) /\ list[Len(list)] \in Proper(d, S, magic)
    BY <1>2, EmptySeq
  <2> DEFINE x == list[Len(list)]
  <2>2. Cursor(list) = x.e
    BY <1>2 DEF Cursor, Last
  <2> HIDE DEF x
  <2>3. x \in Proper(d, S, magic)
    BY <2>1 DEF x
  <2> QED BY <2>2, <2>3, ProperFields
<1> QED BY <1>1, <1>2

\* A segment that begins where the plan ends makes it a longer plan.
LEMMA Appended ==
  ASSUME NEW C, NEW d \in Seq(C), NEW S, NEW magic, NEW T \in SUBSET Proper(d, S, magic),
         NEW list \in Plans(T), NEW x \in T, x.s = Cursor(list)
  PROVE  /\ Append(list, x) \in Plans(T) /\ Cursor(Append(list, x)) = x.e
         /\ Expanded(Append(list, x)) = Expanded(list) + Len(x.source)
         /\ Expanded(list) \in Nat /\ Len(x.source) \in Nat
<1> DEFINE l == Append(list, x)
           n == Len(list)
<1>1. list \in Seq(T) /\ Chained(list) /\ n \in Nat
  BY DEF Plans
<1>2. /\ l \in Seq(T) /\ Len(l) = n + 1 /\ l[n + 1] = x /\ \A i \in 1 .. n : l[i] = list[i]
  BY <1>1, AppendProperties
<1>3. n = 0 => list = <<>>
  BY <1>1, EmptySeq
<1>4. n # 0 => list # <<>>
  BY <1>1, EmptySeq
<1> HIDE DEF l
<1>5. l # <<>> /\ Cursor(l) = x.e
  <2>1. l # <<>>
    BY <1>1, <1>2, EmptySeq
  <2> QED BY <1>2, <2>1 DEF Cursor, Last
<1>6. l[1].s = 0
  <2>1. CASE n = 0
    BY <1>2, <1>3, <2>1 DEF Cursor
  <2>2. CASE n # 0
    <3>1. l[1] = list[1] /\ list # <<>>
      BY <1>1, <1>2, <1>4, <2>2
    <3> QED BY <1>1, <3>1 DEF Chained
  <2> QED BY <2>1, <2>2
<1>7. ASSUME NEW i \in 1 .. Len(l) - 1 PROVE l[i].e = l[i + 1].s
  <2>1. i \in 1 .. n
    BY <1>1, <1>2
  <2>2. CASE i = n
    <3>1. Cursor(list) = list[n].e
      BY <1>1, <1>4, <2>1, <2>2 DEF Cursor, Last
    <3> QED BY <1>2, <2>1, <2>2, <3>1
  <2>3. CASE i # n
    <3>1. i \in 1 .. n - 1 /\ i + 1 \in 1 .. n
      BY <1>1, <2>1, <2>3
    <3>2. l[i] = list[i] /\ l[i + 1] = list[i + 1]
      BY <1>2, <2>1, <3>1
    <3> QED BY <1>1, <3>1, <3>2 DEF Chained
  <2> QED BY <2>2, <2>3
<1>8. l \in Plans(T)
  BY <1>2, <1>6, <1>7 DEF Plans, Chained
<1>9. \A y \in T : HasSource(S, y)
  BY ProperFields
<1>10. /\ Expanded(l) = Expanded(list) + Len(x.source)
       /\ Expanded(list) \in Nat /\ Len(x.source) \in Nat
  <2>1. list \in Seq(T)
    BY <1>1
  <2> QED BY <1>9, <2>1, ExpandedAppend DEF l
<1> QED BY <1>5, <1>8, <1>10 DEF l

\* Structure up to some place.
LEMMA Reached ==
  ASSUME NEW C, NEW d \in Seq(C), NEW S, NEW magic, NEW T \in SUBSET Proper(d, S, magic),
         Untouched(d, S) \subseteq T, NEW list \in Plans(T),
         NEW to \in 0 .. Len(d), Cursor(list) <= to
  PROVE  /\ list \o Gap(Cursor(list), to) \in Plans(T)
         /\ Cursor(list \o Gap(Cursor(list), to)) = to
         /\ Expanded(list \o Gap(Cursor(list), to)) = Expanded(list)
<1> DEFINE at == Cursor(list)
           c == [s |-> at, e |-> to]
           x == Segment(Pooled, c)
<1>1. at \in 0 .. Len(d) /\ Len(d) \in Nat /\ list \in Seq(T)
  <2>1. list \in Seq(Proper(d, S, magic))
    BY DEF Plans
  <2>2. Len(d) \in Nat
    OBVIOUS
  <2> QED BY <2>1, <2>2, CursorBounded DEF Plans
<1>2. CASE at < to
  <2>1. x \in Untouched(d, S) /\ x.s = at /\ x.e = to /\ x.source = <<>>
    BY SMTT(40), <1>1, <1>2, SegmentUntouched
  <2>2. Gap(at, to) = <<x>>
    BY <1>2 DEF Gap
  <2> HIDE DEF x
  <2>3. list \o <<x>> = Append(list, x)
    BY <1>1, <2>1, AppendIsConcat
  <2>4. x \in T
    BY <2>1
  <2>5. /\ Append(list, x) \in Plans(T) /\ Cursor(Append(list, x)) = x.e
        /\ Expanded(Append(list, x)) = Expanded(list) + Len(x.source)
        /\ Expanded(list) \in Nat
    BY <2>1, <2>4, Appended
  <2>6. Len(x.source) = 0
    BY <2>1
  <2>7. Expanded(Append(list, x)) = Expanded(list)
    BY <2>5, <2>6
  <2> QED BY <2>1, <2>2, <2>3, <2>5, <2>7
<1>3. CASE ~(at < to)
  <2>1. Gap(at, to) = <<>> /\ at = to
    BY <1>1, <1>3 DEF Gap
  <2>2. list \o <<>> = list
    BY <1>1, ConcatEmptySeq
  <2> QED BY <2>1, <2>2
<1> QED BY <1>2, <1>3

\* One more segment, and the structure before it.
LEMMA Placed ==
  ASSUME NEW C, NEW d \in Seq(C), NEW S, NEW magic, NEW T \in SUBSET Proper(d, S, magic),
         Untouched(d, S) \subseteq T, NEW list \in Plans(T), NEW x \in T, Cursor(list) <= x.s
  PROVE  /\ Place(list, x) \in Plans(T) /\ Cursor(Place(list, x)) = x.e
         /\ Expanded(Place(list, x)) = Expanded(list) + Len(x.source)
         /\ Expanded(list) \in Nat /\ Len(x.source) \in Nat
<1> DEFINE l == list \o Gap(Cursor(list), x.s)
<1>1. x.s \in 0 .. Len(d)
  <2>1. x \in Proper(d, S, magic)
    OBVIOUS
  <2> QED BY <2>1, ProperFields
<1>2. l \in Plans(T) /\ Cursor(l) = x.s /\ Expanded(l) = Expanded(list)
  BY <1>1, Reached
<1>3. Place(list, x) = l \o <<x>>
  BY DEF Place
<1> HIDE DEF l
<1>4. l \o <<x>> = Append(l, x)
  BY <1>2, AppendIsConcat DEF Plans
<1>5. /\ Append(l, x) \in Plans(T) /\ Cursor(Append(l, x)) = x.e
      /\ Expanded(Append(l, x)) = Expanded(l) + Len(x.source)
      /\ Expanded(l) \in Nat /\ Len(x.source) \in Nat
  BY <1>2, Appended
<1> QED BY <1>2, <1>3, <1>4, <1>5

\* The empty plan.
LEMMA NoSegments ==
  ASSUME NEW T
  PROVE  <<>> \in Plans(T) /\ Cursor(<<>>) = 0 /\ Expanded(<<>>) = 0
<1>1. <<>> \in Seq(T) /\ Len(<<>>) = 0
  OBVIOUS
<1>2. \A i \in 1 .. 0 - 1 : FALSE
  OBVIOUS
<1>3. Chained(<<>>)
  BY <1>1, <1>2 DEF Chained
<1> QED BY <1>1, <1>3, ExpandedNone DEF Plans, Cursor

\* Without transforms nothing is expanded.
LEMMA UntouchedExpands ==
  ASSUME NEW d, NEW S, NEW list \in Seq(Untouched(d, S))
  PROVE  Expanded(list) = 0
<1> DEFINE q == SourceSizes(list)
           n == Len(list)
           g == [i \in 0 .. n |-> 0]
<1>1. \A x \in Untouched(d, S) : HasSource(S, x) /\ x.source = <<>>
  BY DEF Untouched, Segments, HasSource
<1>2. q \in Seq(Nat) /\ Len(q) = n /\ \A i \in 1 .. n : q[i] = Len(list[i].source)
  BY <1>1, SourceSizesType
<1>3. n \in Nat /\ \A i \in 1 .. n : list[i] \in Untouched(d, S)
  OBVIOUS
<1> HIDE DEF q, n
<1>4. \A i \in 1 .. n : q[i] = 0
  BY <1>1, <1>2, <1>3
<1>5. Sums(q, g)
  <2>1. g[0] = 0
    BY <1>3
  <2>2. ASSUME NEW i \in 1 .. Len(q) PROVE g[i] = g[i - 1] + q[i]
    <3>1. i \in 0 .. n /\ i - 1 \in 0 .. n /\ q[i] = 0
      BY <1>2, <1>3, <1>4
    <3> QED BY <3>1
  <2> QED BY <2>1, <2>2 DEF Sums
<1>6. g[n] = 0
  BY <1>3
<1> HIDE DEF g
<1>7. FoldLeft(LAMBDA sum, k : sum + k, 0, q) = g[Len(q)]
  BY <1>2, <1>5, SumIs
<1>8. Expanded(list) = FoldLeft(LAMBDA sum, k : sum + k, 0, q)
  BY ExpandedIs DEF q
<1> QED BY <1>2, <1>6, <1>7, <1>8

(***************************************************************************)
(* Transforms                                                              *)
(***************************************************************************)

\* The bytes of a component.
LEMMA PartType ==
  ASSUME NEW C, NEW d \in Seq(C), NEW x, x.s \in Nat, x.e \in Nat, x.s <= x.e, x.e <= Len(d)
  PROVE  /\ Part(d, x) \in Seq(C) /\ Len(Part(d, x)) = x.e - x.s
         /\ \A i \in 1 .. x.e - x.s : Part(d, x)[i] = d[x.s + i]
<1> DEFINE l == x.s
           h == x.e
           q == SubSeq(d, l + 1, h)
<1>1. l \in Nat /\ h \in Nat /\ l <= h /\ h <= Len(d) /\ Len(d) \in Nat
  OBVIOUS
<1> HIDE DEF l, h, q
<1>2. \A i \in l + 1 .. h : d[i] \in C
  BY <1>1
<1>3. /\ q \in Seq(C)
      /\ Len(q) = IF l + 1 <= h THEN h - (l + 1) + 1 ELSE 0
      /\ \A i \in 1 .. h - (l + 1) + 1 : q[i] = d[(l + 1) + i - 1]
  BY <1>1, <1>2, SubSeqProperties DEF q
<1>4. /\ (IF l + 1 <= h THEN h - (l + 1) + 1 ELSE 0) = h - l
      /\ \A i \in 1 .. h - l : i \in 1 .. h - (l + 1) + 1 /\ (l + 1) + i - 1 = l + i
  BY <1>1
<1>5. q \in Seq(C) /\ Len(q) = h - l /\ \A i \in 1 .. h - l : q[i] = d[l + i]
  BY <1>3, <1>4
<1> QED BY <1>5 DEF Part, q, l, h

\* A recipe is never empty.
LEMMA RecipeType ==
  ASSUME NEW C, NEW z \in ReadStates(Elements(C))
  PROVE  Recipe(z) \in Seq(Elements(C)) /\ Len(Recipe(z)) > 0
<1> DEFINE S == Elements(C)
           b == <<Blocks(z.blocks)>>
           t == <<Trailing(Len(z.rest))>>
           x == z.recs
           y == z.rest
<1>1. x \in Seq(S) /\ y \in Seq(S) /\ z.blocks \in Nat
  BY ReadFields
<1>2. Blocks(z.blocks) \in S /\ Trailing(Len(z.rest)) \in S
  BY <1>1, ElementsOf
<1> HIDE DEF S
<1>3. b \in Seq(S) /\ Len(b) = 1 /\ t \in Seq(S)
  BY <1>2
<1> HIDE DEF b, t, x, y
<1>4. b \o x \in Seq(S) /\ Len(b \o x) = 1 + Len(x) /\ Len(x) \in Nat
  <2>1. Len(x) \in Nat
    BY <1>1
  <2>2. b \o x \in Seq(S) /\ Len(b \o x) = Len(b) + Len(x)
    BY <1>1, <1>3, ConcatProperties
  <2> QED BY <1>3, <2>1, <2>2
<1>5. (b \o x) \o t \in Seq(S) /\ Len((b \o x) \o t) >= 1
  BY <1>3, <1>4
<1>6. ((b \o x) \o t) \o y \in Seq(S) /\ Len(((b \o x) \o t) \o y) >= 1
  BY <1>1, <1>5
<1>7. Recipe(z) = ((b \o x) \o t) \o y
  BY DEF Recipe, b, t, x, y
<1>8. Recipe(z) \in Seq(S) /\ Len(Recipe(z)) > 0
  <2> DEFINE q == ((b \o x) \o t) \o y
  <2>1. q \in Seq(S) /\ Len(q) >= 1
    BY <1>6
  <2>2. Len(q) \in Nat
    BY <2>1
  <2> HIDE DEF q
  <2>3. Len(q) > 0
    BY <2>1, <2>2
  <2> QED BY <1>7, <2>1, <2>3 DEF q
<1> QED BY <1>8 DEF S

\* transform keeps to its limit and returns what it has verified.
LEMMA Transforms ==
  ASSUME NEW C, \A c \in C : Streamed(c), NEW raw \in Seq(C), NEW max \in Nat,
         NEW u \in Transform(raw, max)
  PROVE  /\ u.source \in Seq(Elements(C)) /\ Len(u.source) <= max
         /\ u.recipe \in Seq(Elements(C)) /\ u.recipe # <<>>
         /\ Restore(u.source, u.recipe) = <<raw>>
         /\ u = [source |-> u.source, recipe |-> u.recipe]
<1> DEFINE z == Read(raw, max)
           r == Recipe(z)
<1>1. z \in ReadStates(Elements(C)) /\ Len(z.plain) <= max
  BY ReadBounded
<1>2. u \in Verified(z, raw)
  BY DEF Transform
<1> HIDE DEF z
<1>3. z.plain \in Seq(Elements(C)) /\ r \in Seq(Elements(C)) /\ Len(r) > 0
  BY <1>1, RecipeType, ReadFields
<1> HIDE DEF r
<1>4. u = [source |-> z.plain, recipe |-> r] /\ Restore(z.plain, r) = <<raw>>
  BY <1>2 DEF Verified, r
<1>5. r # <<>>
  BY <1>3
<1>6. u.source = z.plain /\ u.recipe = r
  BY <1>4
<1> QED BY <1>1, <1>3, <1>4, <1>5, <1>6

\* A sequence that was put between two elements is found there again.
LEMMA Between ==
  ASSUME NEW S, NEW a \in S, NEW b \in S, NEW q \in Seq(S)
  PROVE  /\ <<a, b>> \o q \in Seq(S) /\ (<<a, b>> \o q)[1] = a /\ (<<a, b>> \o q)[2] = b
         /\ <<a, b>> \o q # <<>>
         /\ SubSeq(<<a, b>> \o q, 3, Len(<<a, b>> \o q)) = q
<1> DEFINE h == <<a, b>>
           r == h \o q
           l == Len(q)
<1>1. h \in Seq(S) /\ Len(h) = 2 /\ h[1] = a /\ h[2] = b
  OBVIOUS
<1>2. l \in Nat /\ l = Len(q)
  OBVIOUS
<1> HIDE DEF h, l
<1>3. /\ r \in Seq(S) /\ Len(r) = 2 + l
      /\ \A i \in 1 .. 2 + l : r[i] = IF i <= 2 THEN h[i] ELSE q[i - 2]
  <2>1. r \in Seq(S) /\ Len(r) = Len(h) + Len(q)
    BY <1>1, ConcatProperties
  <2>2. \A i \in 1 .. Len(h) + Len(q) : r[i] = IF i <= Len(h) THEN h[i] ELSE q[i - Len(h)]
    BY <1>1, ConcatProperties
  <2> QED BY <1>1, <1>2, <2>1, <2>2
<1> HIDE DEF r
<1>4. r[1] = a /\ r[2] = b
  <2>1. 1 \in 1 .. 2 + l /\ 2 \in 1 .. 2 + l
    BY <1>2
  <2> QED BY <1>1, <1>3, <2>1
<1>5. r # <<>>
  <2>1. Len(r) # 0
    BY <1>2, <1>3
  <2> QED BY <2>1
<1> DEFINE m == 2 + l
           w == SubSeq(r, 3, m)
<1>6. \A i \in 3 .. m : r[i] \in S
  BY <1>2, <1>3
<1>7. /\ w \in Seq(S) /\ Len(w) = IF 3 <= m THEN m - 3 + 1 ELSE 0
      /\ \A i \in 1 .. m - 3 + 1 : w[i] = r[3 + i - 1]
  <2>1. 3 \in Int /\ m \in Int
    BY <1>2
  <2> HIDE DEF m
  <2> QED BY <1>6, <2>1, SubSeqProperties
<1>8. Len(w) = l
  BY <1>2, <1>7
<1>9. ASSUME NEW i \in 1 .. l PROVE w[i] = q[i]
  <2>1. i \in 1 .. m - 3 + 1 /\ 3 + i - 1 \in 1 .. 2 + l /\ 3 + i - 1 - 2 = i /\ ~(3 + i - 1 <= 2)
    BY <1>2
  <2> DEFINE j == 3 + i - 1
  <2>2. w[i] = r[j] /\ j \in 1 .. 2 + l /\ j - 2 = i /\ ~(j <= 2)
    BY <1>7, <2>1
  <2> HIDE DEF w, j
  <2> QED BY <1>3, <2>2
<1> HIDE DEF w, m
<1>10. w = q
  BY <1>2, <1>7, <1>8, <1>9, SeqEqual
<1> QED BY <1>3, <1>4, <1>5, <1>10 DEF w, m, r, h

\* The same for the first and the last.
LEMMA Enclosed ==
  ASSUME NEW S, NEW q \in Seq(S), Len(q) >= 3
  PROVE  /\ SubSeq(q, 2, Len(q) - 1) \in Seq(S) /\ q[1] \in S /\ q[Len(q)] \in S
         /\ <<q[1]>> \o SubSeq(q, 2, Len(q) - 1) \o <<q[Len(q)]>> = q
<1> DEFINE n == Len(q)
           m == n - 1
           w == SubSeq(q, 2, m)
           a == <<q[1]>>
           b == <<q[n]>>
<1>1. n \in Nat /\ n >= 3 /\ 1 \in 1 .. n /\ n \in 1 .. n /\ n = Len(q)
  OBVIOUS
<1>2. q[1] \in S /\ q[n] \in S
  BY <1>1
<1>3. a \in Seq(S) /\ Len(a) = 1 /\ a[1] = q[1] /\ b \in Seq(S) /\ Len(b) = 1 /\ b[1] = q[n]
  BY <1>2
<1>4. m \in Int /\ m = n - 1
  BY <1>1
<1> HIDE DEF n, a, b, m
<1>5. \A i \in 2 .. m : q[i] \in S
  BY <1>1, <1>4
<1>6. /\ w \in Seq(S) /\ Len(w) = IF 2 <= m THEN m - 2 + 1 ELSE 0
      /\ \A i \in 1 .. m - 2 + 1 : w[i] = q[2 + i - 1]
  BY <1>4, <1>5, SubSeqProperties
<1>7. Len(w) = n - 2 /\ n - 2 \in Nat
  BY <1>1, <1>4, <1>6
<1> HIDE DEF w
<1> DEFINE aw == a \o w
           r == aw \o b
<1>8. /\ aw \in Seq(S) /\ Len(aw) = n - 1
      /\ \A i \in 1 .. n - 1 : aw[i] = IF i <= 1 THEN a[i] ELSE w[i - 1]
  <2>1. aw \in Seq(S) /\ Len(aw) = Len(a) + Len(w)
    BY <1>3, <1>6, ConcatProperties
  <2>2. \A i \in 1 .. Len(a) + Len(w) : aw[i] = IF i <= Len(a) THEN a[i] ELSE w[i - Len(a)]
    BY <1>3, <1>6, ConcatProperties
  <2>3. Len(a) + Len(w) = n - 1
    BY <1>1, <1>3, <1>7
  <2> QED BY <1>3, <2>1, <2>2, <2>3
<1> HIDE DEF aw
<1>9. /\ r \in Seq(S) /\ Len(r) = n
      /\ \A i \in 1 .. n : r[i] = IF i <= n - 1 THEN aw[i] ELSE b[i - (n - 1)]
  <2>0. aw \in Seq(S) /\ b \in Seq(S)
    BY <1>3, <1>8
  <2>1. r \in Seq(S) /\ Len(r) = Len(aw) + Len(b)
    BY <2>0, ConcatProperties
  <2>2. \A i \in 1 .. Len(aw) + Len(b) : r[i] = IF i <= Len(aw) THEN aw[i] ELSE b[i - Len(aw)]
    BY <1>3, <1>8, ConcatProperties
  <2>3. Len(aw) + Len(b) = n
    BY <1>1, <1>3, <1>8
  <2> QED BY <1>8, <2>1, <2>2, <2>3
<1> HIDE DEF r
<1>10. ASSUME NEW i \in 1 .. n PROVE r[i] = q[i]
  <2>1. CASE i = 1
    <3>1. i <= n - 1 /\ i \in 1 .. n - 1 /\ i <= 1
      BY <1>1, <2>1
    <3>2. r[i] = aw[i]
      BY <1>9, <3>1
    <3>3. aw[i] = a[i]
      BY <1>8, <3>1
    <3> QED BY <1>3, <2>1, <3>2, <3>3
  <2>2. CASE i = n
    <3>1. ~(i <= n - 1) /\ i - (n - 1) = 1
      BY <1>1, <2>2
    <3>2. r[i] = b[i - (n - 1)]
      BY <1>9, <3>1
    <3>3. r[i] = b[1] /\ q[i] = q[n]
      BY <2>2, <3>1, <3>2
    <3> QED BY <1>3, <3>3
  <2>3. CASE i # 1 /\ i # n
    <3>1. i <= n - 1 /\ i \in 1 .. n - 1 /\ ~(i <= 1)
      BY <1>1, <2>3
    <3> DEFINE j == i - 1
    <3>2. j \in 1 .. m - 2 + 1 /\ 2 + j - 1 = i
      BY <1>1, <1>4, <2>3
    <3>3. r[i] = w[j]
      BY <1>8, <1>9, <3>1
    <3> HIDE DEF j
    <3>4. w[j] = q[i]
      BY <1>6, <3>2
    <3> QED BY <3>3, <3>4
  <2> QED BY <2>1, <2>2, <2>3
<1>11. r = q
  BY <1>1, <1>9, <1>10, SeqEqual
<1> QED BY ZenonT(60), <1>2, <1>6, <1>11 DEF r, aw, a, b, w, m, n

\* transform_zlib does so too, with the header and the sum in its recipe.
LEMMA TransformsZlib ==
  ASSUME NEW C, \A c \in C : Streamed(c), NEW stream \in Seq(C), NEW max \in Nat,
         NEW u \in TransformZlib(stream, max)
  PROVE  /\ u.source \in Seq(Elements(C)) /\ Len(u.source) <= max
         /\ u.recipe \in Seq(Elements(C)) /\ u.recipe # <<>>
         /\ RestoreZlib(u.source, u.recipe) = <<stream>>
<1> DEFINE n == Len(stream)
           raw == SubSeq(stream, 2, Len(stream) - 1)
           a == stream[1]
           b == stream[Len(stream)]
           S == Elements(C)
<1>1. /\ ~(n < 3) /\ a = ZlibHeader /\ n \in Nat
      /\ \E t \in Transform(raw, max) :
           b = Adler(t.source) /\ u = [t EXCEPT !.recipe = <<a, b>> \o @]
  <2>1. n \in Nat
    OBVIOUS
  <2>2. ~(n < 3) /\ a = ZlibHeader
    BY DEF TransformZlib
  <2> QED BY <2>1, <2>2 DEF TransformZlib
<1>2. PICK t \in Transform(raw, max) : b = Adler(t.source) /\ u = [t EXCEPT !.recipe = <<a, b>> \o @]
  BY <1>1
<1>3. raw \in Seq(C) /\ a \in C /\ b \in C /\ <<a>> \o raw \o <<b>> = stream
  <2>1. Len(stream) >= 3
    BY <1>1
  <2> QED BY <2>1, Enclosed
<1> HIDE DEF raw, a, b, S, n
<1>4. /\ t.source \in Seq(S) /\ Len(t.source) <= max
      /\ t.recipe \in Seq(S) /\ Restore(t.source, t.recipe) = <<raw>>
      /\ t = [source |-> t.source, recipe |-> t.recipe]
  BY <1>3, Transforms DEF S
<1> DEFINE r == <<a, b>> \o t.recipe
<1>5. u.source = t.source /\ u.recipe = r
  BY <1>2, <1>4
<1>6. a \in S /\ b \in S
  BY <1>3, ElementsOf DEF S
<1>7. /\ r \in Seq(S) /\ r[1] = a /\ r[2] = b /\ r # <<>>
      /\ SubSeq(r, 3, Len(r)) = t.recipe
  <2> DEFINE w == t.recipe
  <2>1. w \in Seq(S)
    BY <1>4
  <2> HIDE DEF w
  <2>2. /\ <<a, b>> \o w \in Seq(S) /\ (<<a, b>> \o w)[1] = a /\ (<<a, b>> \o w)[2] = b
        /\ <<a, b>> \o w # <<>>
        /\ SubSeq(<<a, b>> \o w, 3, Len(<<a, b>> \o w)) = w
    BY <1>6, <2>1, Between
  <2> QED BY <2>2 DEF w
<1> HIDE DEF r
<1>8. RestoreZlib(t.source, r) = <<stream>>
  <2>1. r[1] = ZlibHeader /\ r[2] = Adler(t.source)
    BY <1>1, <1>2, <1>7
  <2>2. Restore(t.source, SubSeq(r, 3, Len(r))) = <<raw>>
    BY <1>4, <1>7
  <2>3. <<raw>> # <<>> /\ <<raw>>[1] = raw
    OBVIOUS
  <2>4. RestoreZlib(t.source, r) = <<<<r[1]>> \o <<raw>>[1] \o <<r[2]>>>>
    BY <2>1, <2>2, <2>3 DEF RestoreZlib
  <2> QED BY <1>3, <1>7, <2>3, <2>4
<1> QED BY <1>4, <1>5, <1>7, <1>8 DEF S

\* A verified transform makes a proper segment.
LEMMA TransformedProper ==
  ASSUME NEW C, NEW d \in Seq(C), NEW magic, NEW c, NEW u,
         c.s \in 0 .. Len(d), c.e \in 0 .. Len(d), c.s < c.e,
         u.source \in Seq(Elements(C)), u.source # <<>>,
         u.recipe \in Seq(Elements(C)), u.recipe # <<>>,
         RestoreAs(magic, u.source, u.recipe) = <<Part(d, c)>>
  PROVE  /\ TransformedSegment(c, u) \in Proper(d, Elements(C), magic)
         /\ TransformedSegment(c, u).s = c.s /\ TransformedSegment(c, u).e = c.e
         /\ TransformedSegment(c, u).source = u.source
<1> DEFINE x == TransformedSegment(c, u)
           S == Elements(C)
<1>1. /\ x.kind = Transformed /\ x.s = c.s /\ x.e = c.e
      /\ x.source = u.source /\ x.recipe = u.recipe
  BY DEF TransformedSegment
<1>2. Part(d, x) = Part(d, c)
  BY <1>1 DEF Part
<1>3. Restores(d, magic, x)
  BY <1>1, <1>2 DEF Restores
<1>4. x \in Segments(d, S)
  BY DEF TransformedSegment, Segments, Transformed
<1> HIDE DEF x
<1>5. x \in Proper(d, S, magic)
  BY <1>1, <1>3, <1>4 DEF Proper
<1> QED BY <1>1, <1>5 DEF x

(***************************************************************************)
(* Merging                                                                 *)
(***************************************************************************)

JoinStep(c, out, x) == Join(out, x)

Joining == INSTANCE RecursionLemmas WITH Step <- JoinStep

\* An opaque segment that is too small to set apart.
Slight(x) == x.kind = Opaque /\ Length(x) < MinSegment

\* The last segment now reaches to e.
Longer(out, e) == [out EXCEPT ![Len(out)].e = e]

\* Lengthening the last segment gives a plan again.
LEMMA Lengthened ==
  ASSUME NEW C, NEW d \in Seq(C), NEW S, NEW out \in Plans(Untouched(d, S)), out # <<>>,
         NEW e \in 0 .. Len(d), Cursor(out) < e
  PROVE  /\ Longer(out, e) \in Plans(Untouched(d, S)) /\ Longer(out, e) # <<>>
         /\ Cursor(Longer(out, e)) = e /\ Len(Longer(out, e)) = Len(out)
         /\ \A k \in 1 .. Len(out) :
              /\ Longer(out, e)[k].kind = out[k].kind /\ Longer(out, e)[k].s = out[k].s
              /\ k = Len(out) => Longer(out, e)[k].e = e
              /\ k # Len(out) => Longer(out, e)[k] = out[k]
<1> DEFINE U == Untouched(d, S)
           n == Len(out)
           l == Longer(out, e)
           x == out[n]
           y == [x EXCEPT !.e = e]
<1>1. out \in Seq(U) /\ Chained(out) /\ n \in Nat
  BY DEF Plans
<1>2. n \in 1 .. n /\ DOMAIN out = 1 .. n
  BY <1>1, EmptySeq
<1>3. x \in U /\ Cursor(out) = x.e
  BY <1>1, <1>2 DEF Cursor, Last
<1>4. y \in U /\ y.kind = x.kind /\ y.s = x.s /\ y.e = e
  <2> HIDE DEF x
  <2>1. /\ x.kind \in 0 .. 2 /\ x.s \in 0 .. Len(d) /\ x.e \in 0 .. Len(d)
        /\ x.source \in Seq(S) /\ x.recipe \in Seq(S) /\ x.s < x.e /\ x.kind # Transformed
        /\ x.source = <<>> /\ x.recipe = <<>>
        /\ x = [kind |-> x.kind, s |-> x.s, e |-> x.e, source |-> x.source, recipe |-> x.recipe]
    BY <1>3 DEF Untouched, Segments
  <2>2. y = [kind |-> x.kind, s |-> x.s, e |-> e, source |-> x.source, recipe |-> x.recipe]
    BY <2>1
  <2>3. y.kind = x.kind /\ y.s = x.s /\ y.e = e /\ y.source = x.source /\ y.recipe = x.recipe
    BY <2>2
  <2>4. y \in Segments(d, S)
    BY <2>1, <2>2 DEF Segments
  <2>5. Len(d) \in Nat
    OBVIOUS
  <2>6. y.s < y.e
    BY <1>3, <2>1, <2>3, <2>5
  <2> HIDE DEF y
  <2> QED BY <2>1, <2>3, <2>4, <2>6 DEF Untouched
<1>5. l = [out EXCEPT ![n] = y]
  BY DEF Longer
<1> HIDE DEF l, U, y, x
<1>6. l \in Seq(U) /\ Len(l) = n /\ l[n] = y /\ \A k \in 1 .. n : k # n => l[k] = out[k]
  BY <1>1, <1>2, <1>4, <1>5
<1> HIDE DEF n
<1>7. l # <<>>
  BY <1>2, <1>6, EmptySeq
<1>8. Cursor(l) = e
  BY <1>4, <1>6, <1>7 DEF Cursor, Last
<1>9. ASSUME NEW k \in 1 .. n
      PROVE  /\ l[k].kind = out[k].kind /\ l[k].s = out[k].s
             /\ k = n => l[k].e = e
             /\ k # n => l[k] = out[k]
  BY <1>4, <1>6 DEF x
<1>10. Chained(l)
  <2>1. l[1].s = 0
    <3>1. 1 \in 1 .. n /\ out[1].s = 0
      BY <1>1, <1>2 DEF Chained
    <3> QED BY <1>9, <3>1
  <2>2. ASSUME NEW k \in 1 .. Len(l) - 1 PROVE l[k].e = l[k + 1].s
    <3>1. k \in 1 .. n - 1 /\ k \in 1 .. n /\ k # n /\ k + 1 \in 1 .. n
      BY <1>1, <1>6
    <3>2. out[k].e = out[k + 1].s
      BY <1>1, <3>1 DEF Chained, n
    <3>3. l[k] = out[k] /\ l[k + 1].s = out[k + 1].s
      BY <1>9, <3>1
    <3> QED BY <3>2, <3>3
  <2> QED BY <2>1, <2>2 DEF Chained
<1>11. l \in Plans(U)
  BY <1>6, <1>10 DEF Plans
<1> QED BY <1>6, <1>7, <1>8, <1>9, <1>11 DEF l, U, n

\* A segment is too small, or lies within one of its kind.
Covered(x, out) == Slight(x) \/ Within(x, out)

\* Joining keeps the plan, and the place of whatever was in it.
Joined(U, out, x, l) ==
  /\ l \in Plans(U) /\ l # <<>> /\ Cursor(l) = x.e /\ Covered(x, l)
  /\ \A y \in U : Within(y, out) => Within(y, l)

\* _merge_adjacent takes one segment more.
LEMMA Joins ==
  ASSUME NEW C, NEW d \in Seq(C), NEW S, NEW out \in Plans(Untouched(d, S)),
         NEW x \in Untouched(d, S), x.s = Cursor(out)
  PROVE  Joined(Untouched(d, S), out, x, Join(out, x))
<1> DEFINE U == Untouched(d, S)
           n == Len(out)
<1>1. out \in Seq(U) /\ n \in Nat /\ DOMAIN out = 1 .. n /\ Len(d) \in Nat
  BY DEF Plans
<1>2. x.e \in 0 .. Len(d) /\ x.s \in Nat /\ x.s < x.e
  BY <1>1 DEF Untouched, Segments
<1>3. \A y \in U : y.e \in Nat /\ y.s \in Nat
  BY <1>1 DEF Untouched, Segments
<1>4. CASE /\ out # <<>> /\ Last(out).e = x.s
           /\ Last(out).kind = x.kind \/ (x.kind = Opaque /\ Length(x) < MinSegment)
  <2> DEFINE l == Longer(out, x.e)
  <2>1. Join(out, x) = l
    BY <1>4 DEF Join, Longer
  <2>2. /\ l \in Plans(U) /\ l # <<>> /\ Cursor(l) = x.e /\ Len(l) = n
        /\ \A k \in 1 .. n : /\ l[k].kind = out[k].kind /\ l[k].s = out[k].s
                             /\ k = n => l[k].e = x.e
                             /\ k # n => l[k] = out[k]
    BY <1>2, <1>4, Lengthened
  <2> HIDE DEF l
  <2>3. DOMAIN l = 1 .. n /\ n \in 1 .. n
    <3>1. n # 0
      BY <1>1, <1>4, EmptySeq
    <3> QED BY <1>1, <2>2, <3>1 DEF Plans
  <2>4. out[n].e = x.s /\ out[n].s < x.s
    <3>1. out[n].e = x.s
      BY <1>4 DEF Last
    <3>2. out[n] \in U
      BY <1>1, <2>3
    <3> HIDE DEF n
    <3> QED BY <3>1, <3>2 DEF Untouched
  <2> HIDE DEF U
  <2>5. ASSUME NEW y \in U, Within(y, out) PROVE Within(y, l)
    <3>1. PICK k \in 1 .. n : out[k].kind = y.kind /\ out[k].s <= y.s /\ y.e <= out[k].e
      BY <1>1, <2>5 DEF Within
    <3>2. y.e <= l[k].e
      <4>1. CASE k = n
        <5>1. y.e <= x.s /\ l[k].e = x.e /\ y.e \in Nat
          BY <1>3, <2>2, <2>4, <3>1, <4>1
        <5> QED BY <1>2, <5>1
      <4>2. CASE k # n
        BY <2>2, <3>1, <4>2
      <4> QED BY <4>1, <4>2
    <3>3. l[k].kind = y.kind /\ l[k].s <= y.s
      BY <2>2, <3>1
    <3> QED BY <2>3, <3>2, <3>3 DEF Within
  <2>6. Covered(x, l)
    <3>1. CASE x.kind = Opaque /\ Length(x) < MinSegment
      BY <3>1 DEF Covered, Slight
    <3>2. CASE Last(out).kind = x.kind
      <4>1. l[n].kind = x.kind /\ l[n].s = out[n].s /\ l[n].e = x.e
        BY ZenonT(60), <2>2, <2>3, <3>2 DEF Last
      <4>2. l[n].s <= x.s /\ x.e <= l[n].e
        <5>1. out[n] \in U
          BY <1>1, <2>3
        <5>2. out[n].s \in Nat
          BY <1>3, <5>1
        <5> QED BY <1>2, <2>4, <4>1, <5>2
      <4> QED BY SMTT(40), <2>3, <4>1, <4>2 DEF Covered, Within
    <3> QED BY <1>4, <3>1, <3>2
  <2> QED BY <2>1, <2>2, <2>5, <2>6 DEF Joined, U
<1>5. CASE ~(/\ out # <<>> /\ Last(out).e = x.s
             /\ Last(out).kind = x.kind \/ (x.kind = Opaque /\ Length(x) < MinSegment))
  <2> DEFINE l == Append(out, x)
  <2>1. Join(out, x) = l
    BY <1>5 DEF Join
  <2>2. l \in Plans(U) /\ Cursor(l) = x.e
    <3> DEFINE magic == "AFC3"
    <3>1. U \in SUBSET Proper(d, S, magic)
      BY DEF Proper
    <3> HIDE DEF magic
    <3> QED BY <3>1, Appended
  <2>3. Len(l) = n + 1 /\ l[n + 1] = x /\ \A k \in 1 .. n : l[k] = out[k]
    BY <1>1, AppendProperties
  <2> HIDE DEF l, U
  <2>4. l # <<>> /\ DOMAIN l = 1 .. n + 1 /\ n + 1 \in 1 .. n + 1
    <3>1. l \in Seq(U)
      BY <2>2 DEF Plans
    <3>2. n + 1 \in 1 .. n + 1 /\ n + 1 # 0
      BY <1>1
    <3> QED BY <2>3, <3>1, <3>2, EmptySeq
  <2>5. ASSUME NEW y \in U, Within(y, out) PROVE Within(y, l)
    <3>1. PICK k \in 1 .. n : out[k].kind = y.kind /\ out[k].s <= y.s /\ y.e <= out[k].e
      BY <1>1, <2>5 DEF Within
    <3>2. k \in DOMAIN l /\ l[k] = out[k]
      BY <1>1, <2>3, <2>4
    <3> QED BY <3>1, <3>2 DEF Within
  <2>6. Covered(x, l)
    <3>1. x.s <= x.s /\ x.e <= x.e
      BY <1>2
    <3> QED BY <2>3, <2>4, <3>1 DEF Covered, Within
  <2> QED BY <2>1, <2>2, <2>4, <2>5, <2>6 DEF Joined, U
<1> QED BY <1>4, <1>5

\* _merge_adjacent gives a plan that reaches as far and covers each segment.
LEMMA Merged ==
  ASSUME NEW C, NEW d \in Seq(C), NEW S, NEW list \in Plans(Untouched(d, S))
  PROVE  /\ MergeAdjacent(list) \in Plans(Untouched(d, S))
         /\ Cursor(MergeAdjacent(list)) = Cursor(list)
         /\ MergeAdjacent(list) = <<>> <=> list = <<>>
         /\ \A i \in 1 .. Len(list) : Covered(list[i], MergeAdjacent(list))
<1> DEFINE U == Untouched(d, S)
           n == Len(list)
<1>1. list \in Seq(U) /\ Chained(list) /\ n \in Nat /\ DOMAIN list = 1 .. n
  BY DEF Plans
<1>2. MergeAdjacent(list) = Joining!Fold(0, <<>>, list)
  BY DEF MergeAdjacent, Joining!Fold, JoinStep, FoldLeft, MapThenFoldSet, Max,
         Joining!FoldLeft, Joining!MapThenFoldSet, Joining!Max
<1>3. PICK f : Joining!Unrolls(0, <<>>, list, f) /\ Joining!Fold(0, <<>>, list) = f[Len(list)]
  BY <1>1, Joining!Unrolled
<1>4. f[0] = <<>> /\ \A i \in 1 .. n : f[i] = Join(f[i - 1], list[i])
  BY <1>3 DEF Joining!Unrolls, JoinStep
<1> HIDE DEF U, n
<1> DEFINE At(i) == /\ f[i] \in Plans(U)
                    /\ i = 0 => f[i] = <<>>
                    /\ i # 0 => f[i] # <<>> /\ Cursor(f[i]) = list[i].e
                    /\ \A j \in 1 .. i : Covered(list[j], f[i])
           T == {i \in Nat : i <= n => At(i)}
<1>5. 0 \in T
  <2>1. <<>> \in Plans(U)
    BY NoSegments
  <2> QED BY <1>4, <2>1
<1>6. ASSUME NEW k \in Nat, k \in T PROVE k + 1 \in T
  <2> DEFINE i == k + 1
  <2> SUFFICES ASSUME i <= n PROVE At(i)
    OBVIOUS
  <2>1. i \in 1 .. n /\ i - 1 = k /\ k <= n /\ i # 0
    BY <1>1
  <2> HIDE DEF i
  <2>2. At(k)
    BY <1>6, <2>1
  <2> DEFINE x == list[i]
  <2>3. x \in U /\ x.s = Cursor(f[k])
    <3>1. x \in U
      BY <1>1, <2>1
    <3>2. CASE k = 0
      <4>1. i = 1 /\ list # <<>>
        BY <1>1, <2>1, <3>2, EmptySeq DEF n
      <4>2. Cursor(f[k]) = 0
        BY <2>2, <3>2, NoSegments
      <4> QED BY <1>1, <3>1, <4>1, <4>2 DEF Chained
    <3>3. CASE k # 0
      <4>1. k \in 1 .. Len(list) - 1 /\ k + 1 = i
        BY <1>1, <2>1, <3>3 DEF n, i
      <4>2. list[k].e = list[i].s
        BY <1>1, <4>1 DEF Chained
      <4> QED BY <2>2, <3>1, <3>3, <4>2
    <3> QED BY <3>2, <3>3
  <2>4. Joined(U, f[k], x, f[i])
    <3>1. f[i] = Join(f[k], x)
      BY <1>4, <2>1
    <3>2. f[k] \in Plans(U)
      BY <2>2
    <3> HIDE DEF x
    <3> DEFINE out == f[k]
    <3>3. out \in Plans(Untouched(d, S)) /\ x \in Untouched(d, S) /\ x.s = Cursor(out)
      BY <2>3, <3>2 DEF U
    <3> HIDE DEF out
    <3>4. Joined(Untouched(d, S), out, x, Join(out, x))
      BY <3>3, Joins
    <3> QED BY <3>1, <3>4 DEF out, U
  <2>5. ASSUME NEW j \in 1 .. i PROVE Covered(list[j], f[i])
    <3>1. CASE j = i
      BY <2>4, <3>1 DEF Joined
    <3>2. CASE j # i
      <4>1. j \in 1 .. k /\ j \in 1 .. n
        BY <1>1, <2>1, <3>2
      <4>2. Covered(list[j], f[k]) /\ list[j] \in U
        BY <1>1, <2>2, <4>1
      <4> QED BY <2>4, <4>2 DEF Covered, Joined
    <3> QED BY <3>1, <3>2
  <2>6. f[i] \in Plans(U) /\ f[i] # <<>> /\ Cursor(f[i]) = x.e
    BY <2>4 DEF Joined
  <2> QED BY <2>1, <2>5, <2>6
<1>7. At(n)
  <2> HIDE DEF T
  <2>1. Nat \subseteq T
    BY <1>5, <1>6, Induction
  <2>2. n \in T
    BY <1>1, <2>1
  <2> QED BY <1>1, <2>2 DEF T
<1>8. MergeAdjacent(list) = f[n]
  BY <1>2, <1>3 DEF n
<1>9. Cursor(f[n]) = Cursor(list) /\ (f[n] = <<>> <=> list = <<>>)
  <2>1. CASE n = 0
    <3>1. list = <<>> /\ f[n] = <<>>
      BY <1>1, <1>4, <2>1, EmptySeq DEF n
    <3> QED BY <3>1
  <2>2. CASE n # 0
    <3>1. list # <<>>
      BY <1>1, <2>2, EmptySeq DEF n
    <3>2. Cursor(list) = list[n].e
      BY <3>1 DEF Cursor, Last, n
    <3> QED BY <1>7, <2>2, <3>1, <3>2
  <2> QED BY <2>1, <2>2
<1> QED BY <1>7, <1>8, <1>9 DEF U, n

(***************************************************************************)
(* The cells of a container                                                *)
(***************************************************************************)

\* An element of a part is found where the part is.
LEMMA Looked ==
  ASSUME NEW S, NEW s \in Seq(S), NEW l \in Nat, NEW q \in Seq(S), l + Len(q) <= Len(s),
         SubSeq(s, l + 1, l + Len(q)) = q, NEW k \in 1 .. Len(q)
  PROVE  s[l + k] = q[k]
<1> DEFINE h == l + Len(q)
           a == l + 1
           w == SubSeq(s, a, h)
<1>1. a \in Int /\ h \in Int /\ Len(q) \in Nat /\ Len(s) \in Nat
  OBVIOUS
<1>2. \A i \in a .. h : s[i] \in S
  <2>1. \A i \in a .. h : i \in 1 .. Len(s)
    BY <1>1
  <2> HIDE DEF a, h
  <2> QED BY <2>1
<1>3. w = q
  OBVIOUS
<1>4. k \in 1 .. h - a + 1 /\ a + k - 1 = l + k
  BY <1>1
<1> HIDE DEF a, h
<1>5. \A i \in 1 .. h - a + 1 : w[i] = s[a + i - 1]
  BY <1>1, <1>2, SubSeqProperties
<1> HIDE DEF w
<1>6. w[k] = s[a + k - 1]
  BY <1>4, <1>5
<1> QED BY <1>3, <1>4, <1>6

\* What a container is made of, piece by piece.
Laid(cells, h, m, o, q) ==
  /\ Len(cells) = 5 + Len(m) + Len(o) + Len(q)
  /\ cells[1] = h[1] /\ cells[2] = h[2] /\ cells[3] = h[3]
  /\ \A k \in 1 .. Len(m) : cells[3 + k] = m[k]
  /\ cells[4 + Len(m)] = Number(Len(o))
  /\ SubSeq(cells, 4 + Len(m) + 1, 4 + Len(m) + Len(o)) = o
  /\ cells[5 + Len(m) + Len(o)] = Number(Len(q))
  /\ SubSeq(cells, 5 + Len(m) + Len(o) + 1, 5 + Len(m) + Len(o) + Len(q)) = q

\* Build lays them out so.
LEMMA Laying ==
  ASSUME NEW Z, NEW h \in Seq(Z), Len(h) = 3, NEW m \in Seq(Z), NEW o \in Seq(Z),
         NEW q \in Seq(Z), Number(Len(o)) \in Z, Number(Len(q)) \in Z
  PROVE  /\ Laid(h \o m \o <<Number(Len(o))>> \o o \o <<Number(Len(q))>> \o q, h, m, o, q)
         /\ h \o m \o <<Number(Len(o))>> \o o \o <<Number(Len(q))>> \o q \in Seq(Z)
<1> DEFINE u == <<Number(Len(o))>>
           v == <<Number(Len(q))>>
           lm == Len(m)
           lo == Len(o)
           lq == Len(q)
           ss == <<h, m, u, o, v, q>>
           cells == h \o m \o u \o o \o v \o q
<1>1. u \in Seq(Z) /\ v \in Seq(Z) /\ Len(u) = 1 /\ Len(v) = 1
  OBVIOUS
<1>2. u[1] = Number(lo) /\ v[1] = Number(lq)
  OBVIOUS
<1>3. lm \in Nat /\ lo \in Nat /\ lq \in Nat /\ lm = Len(m) /\ lo = Len(o) /\ lq = Len(q)
  OBVIOUS
<1> HIDE DEF u, v, lm, lo, lq
<1>4. /\ ss \in Seq(Seq(Z)) /\ Len(ss) = 6 /\ ss[1] = h /\ ss[2] = m /\ ss[3] = u
      /\ ss[4] = o /\ ss[5] = v /\ ss[6] = q
  BY <1>1
<1> HIDE DEF ss
<1>5. PICK f \in [0 .. 6 -> Seq(Z)] : f[0] = <<>> /\ \A i \in 1 .. 6 : f[i] = f[i - 1] \o ss[i]
  <2>1. \E f \in [0 .. Len(ss) -> Seq(Z)] :
          f[0] = <<>> /\ \A i \in 1 .. Len(ss) : f[i] = f[i - 1] \o ss[i]
    BY <1>4, Flattened
  <2> QED BY <1>4, <2>1
<1>6. /\ f[1] = f[0] \o h /\ f[2] = f[1] \o m /\ f[3] = f[2] \o u /\ f[4] = f[3] \o o
      /\ f[5] = f[4] \o v /\ f[6] = f[5] \o q
  <2>1. \A i \in 1 .. 6 : f[i] = f[i - 1] \o ss[i]
    BY <1>5
  <2>2. /\ 1 \in 1 .. 6 /\ 2 \in 1 .. 6 /\ 3 \in 1 .. 6 /\ 4 \in 1 .. 6 /\ 5 \in 1 .. 6
        /\ 6 \in 1 .. 6
        /\ 1 - 1 = 0 /\ 2 - 1 = 1 /\ 3 - 1 = 2 /\ 4 - 1 = 3 /\ 5 - 1 = 4 /\ 6 - 1 = 5
    OBVIOUS
  <2>3. f[1] = f[0] \o h
    BY <1>4, <2>1, <2>2
  <2>4. f[2] = f[1] \o m
    BY <1>4, <2>1, <2>2
  <2>5. f[3] = f[2] \o u
    BY <1>4, <2>1, <2>2
  <2>6. f[4] = f[3] \o o
    BY <1>4, <2>1, <2>2
  <2>7. f[5] = f[4] \o v
    BY <1>4, <2>1, <2>2
  <2>8. f[6] = f[5] \o q
    BY <1>4, <2>1, <2>2
  <2> QED BY <2>3, <2>4, <2>5, <2>6, <2>7, <2>8
<1>7. f[1] = h /\ f[6] = cells
  <2>1. <<>> \o h = h
    BY ConcatEmptySeq
  <2> QED BY <1>5, <1>6, <2>1
<1>8. /\ f[1] \in Seq(Z) /\ f[2] \in Seq(Z) /\ f[3] \in Seq(Z) /\ f[4] \in Seq(Z)
      /\ f[5] \in Seq(Z) /\ f[6] \in Seq(Z)
  BY <1>5
<1>9. /\ Len(f[1]) = 3 /\ Len(f[2]) = 3 + lm /\ Len(f[3]) = 4 + lm /\ Len(f[4]) = 4 + lm + lo
      /\ Len(f[5]) = 5 + lm + lo /\ Len(f[6]) = 5 + lm + lo + lq
  <2>1. Len(f[1]) = 3
    BY <1>7
  <2>2. Len(f[2]) = 3 + lm
    <3>1. Len(f[2]) = Len(f[1]) + Len(m)
      BY <1>6, <1>8, ConcatProperties
    <3> QED BY <1>3, <2>1, <3>1
  <2>3. Len(f[3]) = 4 + lm
    <3>1. u \in Seq(Z) /\ f[2] \in Seq(Z) /\ f[3] = f[2] \o u
      BY <1>1, <1>6, <1>8
    <3>2. Len(f[3]) = Len(f[2]) + Len(u)
      BY <3>1, ConcatProperties
    <3> QED BY <1>1, <1>3, <2>2, <3>2
  <2>4. Len(f[4]) = 4 + lm + lo
    <3>1. Len(f[4]) = Len(f[3]) + Len(o)
      BY <1>6, <1>8, ConcatProperties
    <3> QED BY <1>3, <2>3, <3>1
  <2>5. Len(f[5]) = 5 + lm + lo
    <3>1. v \in Seq(Z) /\ f[4] \in Seq(Z) /\ f[5] = f[4] \o v
      BY <1>1, <1>6, <1>8
    <3>2. Len(f[5]) = Len(f[4]) + Len(v)
      BY <3>1, ConcatProperties
    <3> QED BY <1>1, <1>3, <2>4, <3>2
  <2>6. Len(f[6]) = 5 + lm + lo + lq
    <3>1. Len(f[6]) = Len(f[5]) + Len(q)
      BY <1>6, <1>8, ConcatProperties
    <3> QED BY <1>3, <2>5, <3>1
  <2> QED BY <2>1, <2>2, <2>3, <2>4, <2>5, <2>6
<1>10. \A i \in 1 .. 6 : /\ Len(f[i - 1]) \in Nat /\ Len(ss[i]) \in Nat
                         /\ Len(f[i - 1]) + Len(ss[i]) <= Len(f[6])
                         /\ SubSeq(f[6], Len(f[i - 1]) + 1, Len(f[i - 1]) + Len(ss[i])) = ss[i]
  <2>1. f \in [0 .. Len(ss) -> Seq(Z)] /\ \A j \in 1 .. Len(ss) : f[j] = f[j - 1] \o ss[j]
    BY <1>4, <1>5
  <2>2. ss \in Seq(Seq(Z))
    BY <1>4
  <2>3. \A i \in 1 .. Len(ss) :
          /\ Len(f[i - 1]) \in Nat /\ Len(ss[i]) \in Nat
          /\ Len(f[i - 1]) + Len(ss[i]) <= Len(f[Len(ss)])
          /\ SubSeq(f[Len(ss)], Len(f[i - 1]) + 1, Len(f[i - 1]) + Len(ss[i])) = ss[i]
    BY <2>1, <2>2, Pieces
  <2> QED BY <1>4, <2>3
<1> HIDE DEF cells
<1>11. /\ SubSeq(cells, 1, 3) = h /\ 0 + 3 <= Len(cells)
       /\ SubSeq(cells, 3 + 1, 3 + lm) = m /\ 3 + lm <= Len(cells)
       /\ SubSeq(cells, 3 + lm + 1, 3 + lm + 1) = u /\ 3 + lm + 1 <= Len(cells)
  <2>1. /\ Len(f[0]) + Len(ss[1]) <= Len(f[6])
        /\ SubSeq(f[6], Len(f[0]) + 1, Len(f[0]) + Len(ss[1])) = ss[1]
    <3>1. 1 \in 1 .. 6 /\ 1 - 1 = 0
      OBVIOUS
    <3> QED BY <1>10, <3>1
  <2>2. /\ Len(f[1]) + Len(ss[2]) <= Len(f[6])
        /\ SubSeq(f[6], Len(f[1]) + 1, Len(f[1]) + Len(ss[2])) = ss[2]
    <3>1. 2 \in 1 .. 6 /\ 2 - 1 = 1
      OBVIOUS
    <3> QED BY <1>10, <3>1
  <2>3. /\ Len(f[2]) + Len(ss[3]) <= Len(f[6])
        /\ SubSeq(f[6], Len(f[2]) + 1, Len(f[2]) + Len(ss[3])) = ss[3]
    <3>1. 3 \in 1 .. 6 /\ 3 - 1 = 2
      OBVIOUS
    <3> QED BY <1>10, <3>1
  <2>4. Len(<<>>) = 0 /\ 0 + 1 = 1 /\ 0 + 3 = 3
    OBVIOUS
  <2> QED BY <1>1, <1>3, <1>4, <1>5, <1>7, <1>9, <2>1, <2>2, <2>3, <2>4
<1>12. /\ SubSeq(cells, 4 + lm + 1, 4 + lm + lo) = o
       /\ SubSeq(cells, 4 + lm + lo + 1, 4 + lm + lo + 1) = v /\ 4 + lm + lo + 1 <= Len(cells)
       /\ SubSeq(cells, 5 + lm + lo + 1, 5 + lm + lo + lq) = q
  <2>1. /\ Len(f[3]) + Len(ss[4]) <= Len(f[6])
        /\ SubSeq(f[6], Len(f[3]) + 1, Len(f[3]) + Len(ss[4])) = ss[4]
    <3>1. 4 \in 1 .. 6 /\ 4 - 1 = 3
      OBVIOUS
    <3> QED BY <1>10, <3>1
  <2>2. /\ Len(f[4]) + Len(ss[5]) <= Len(f[6])
        /\ SubSeq(f[6], Len(f[4]) + 1, Len(f[4]) + Len(ss[5])) = ss[5]
    <3>1. 5 \in 1 .. 6 /\ 5 - 1 = 4
      OBVIOUS
    <3> QED BY <1>10, <3>1
  <2>3. /\ Len(f[5]) + Len(ss[6]) <= Len(f[6])
        /\ SubSeq(f[6], Len(f[5]) + 1, Len(f[5]) + Len(ss[6])) = ss[6]
    <3>1. 6 \in 1 .. 6 /\ 6 - 1 = 5
      OBVIOUS
    <3> QED BY <1>10, <3>1
  <2> QED BY <1>1, <1>3, <1>4, <1>7, <1>9, <2>1, <2>2, <2>3
<1>13. cells \in Seq(Z) /\ Len(cells) = 5 + lm + lo + lq
  BY <1>7, <1>8, <1>9
<1>14. cells[1] = h[1] /\ cells[2] = h[2] /\ cells[3] = h[3]
  <2>1. \A k \in 1 .. Len(h) : cells[0 + k] = h[k]
    <3> DEFINE l == 0
    <3>1. l \in Nat /\ l + Len(h) <= Len(cells) /\ SubSeq(cells, l + 1, l + Len(h)) = h
      BY <1>11
    <3> HIDE DEF l
    <3>2. \A k \in 1 .. Len(h) : cells[l + k] = h[k]
      BY <1>13, <3>1, Looked
    <3> QED BY <3>2 DEF l
  <2>2. \A k \in 1 .. 3 : cells[0 + k] = h[k]
    BY <2>1
  <2>3. 0 + 1 = 1 /\ 0 + 2 = 2 /\ 0 + 3 = 3 /\ 1 \in 1 .. 3 /\ 2 \in 1 .. 3 /\ 3 \in 1 .. 3
    OBVIOUS
  <2> HIDE DEF cells
  <2>4. cells[0 + 1] = h[1] /\ cells[0 + 2] = h[2] /\ cells[0 + 3] = h[3]
    BY <2>2, <2>3
  <2> QED BY <2>3, <2>4
<1>15. ASSUME NEW k \in 1 .. Len(m) PROVE cells[3 + k] = m[k]
  <2> DEFINE l == 3
  <2>1. l \in Nat /\ l + Len(m) <= Len(cells) /\ SubSeq(cells, l + 1, l + Len(m)) = m
    BY <1>3, <1>11
  <2> HIDE DEF l
  <2>2. cells[l + k] = m[k]
    BY <1>13, <2>1, Looked
  <2> QED BY <2>2 DEF l
<1>16. cells[4 + lm] = Number(lo)
  <2> DEFINE l == 3 + lm
  <2>1. l \in Nat /\ l + 1 <= Len(cells) /\ SubSeq(cells, l + 1, l + 1) = u /\ l + 1 = 4 + lm
    BY <1>3, <1>11
  <2> HIDE DEF l
  <2>2. l + Len(u) <= Len(cells) /\ SubSeq(cells, l + 1, l + Len(u)) = u /\ 1 \in 1 .. Len(u)
    BY <1>1, <2>1
  <2>3. cells[l + 1] = u[1]
    BY <1>1, <1>13, <2>1, <2>2, Looked
  <2> QED BY <1>2, <2>1, <2>3
<1>17. cells[5 + lm + lo] = Number(lq)
  <2> DEFINE l == 4 + lm + lo
  <2>1. l \in Nat /\ l + 1 <= Len(cells) /\ SubSeq(cells, l + 1, l + 1) = v /\ l + 1 = 5 + lm + lo
    BY <1>3, <1>12
  <2> HIDE DEF l
  <2>2. l + Len(v) <= Len(cells) /\ SubSeq(cells, l + 1, l + Len(v)) = v /\ 1 \in 1 .. Len(v)
    BY <1>1, <2>1
  <2>3. cells[l + 1] = v[1]
    BY <1>1, <1>13, <2>1, <2>2, Looked
  <2> QED BY <1>2, <2>1, <2>3
<1>18. Laid(cells, h, m, o, q)
  BY <1>3, <1>12, <1>13, <1>14, <1>15, <1>16, <1>17 DEF Laid
<1> QED BY <1>13, <1>18 DEF cells, u, v

\* The parts in ss follow each other, and f[i] is what the first i make up.
Frames(S, ss, f) ==
  /\ Len(f[0]) = 0 /\ FlattenSeq(ss) = f[Len(ss)]
  /\ \A i \in 0 .. Len(ss) : f[i] \in Seq(S) /\ Len(f[i]) \in Nat
  /\ \A i \in 1 .. Len(ss) :
       /\ Len(f[i]) = Len(f[i - 1]) + Len(ss[i]) /\ Len(f[i]) <= Len(f[Len(ss)])
       /\ SubSeq(f[Len(ss)], Len(f[i - 1]) + 1, Len(f[i - 1]) + Len(ss[i])) = ss[i]

\* Parts one after the other, as Collect writes them.
LEMMA Framed ==
  ASSUME NEW S, NEW ss \in Seq(Seq(S))
  PROVE  \E f : Frames(S, ss, f)
<1> DEFINE n == Len(ss)
<1>1. PICK f \in [0 .. Len(ss) -> Seq(S)] :
        /\ f[0] = <<>> /\ FlattenSeq(ss) = f[Len(ss)]
        /\ \A i \in 1 .. Len(ss) : f[i] = f[i - 1] \o ss[i]
  BY Flattened
<1>2. n \in Nat /\ n = Len(ss) /\ \A i \in 1 .. n : ss[i] \in Seq(S)
  OBVIOUS
<1>3. \A i \in 1 .. Len(ss) :
        /\ Len(f[i - 1]) \in Nat /\ Len(ss[i]) \in Nat
        /\ Len(f[i - 1]) + Len(ss[i]) <= Len(f[Len(ss)])
        /\ SubSeq(f[Len(ss)], Len(f[i - 1]) + 1, Len(f[i - 1]) + Len(ss[i])) = ss[i]
  BY <1>1, Pieces
<1> HIDE DEF n
<1>4. \A i \in 0 .. n : f[i] \in Seq(S) /\ Len(f[i]) \in Nat
  BY SMTT(40), <1>1, <1>2
<1>5. ASSUME NEW i \in 1 .. n
      PROVE  Len(f[i]) = Len(f[i - 1]) + Len(ss[i]) /\ Len(f[i]) <= Len(f[n])
  <2>1. i - 1 \in 0 .. n
    BY <1>2
  <2>2. f[i] = f[i - 1] \o ss[i] /\ f[i - 1] \in Seq(S) /\ ss[i] \in Seq(S)
    BY <1>1, <1>2, <1>4, <2>1
  <2>3. Len(f[i]) = Len(f[i - 1]) + Len(ss[i])
    BY <2>2, ConcatProperties
  <2>4. Len(f[i - 1]) + Len(ss[i]) <= Len(f[n])
    BY <1>2, <1>3
  <2> QED BY <2>3, <2>4
<1>6. Len(f[0]) = 0 /\ FlattenSeq(ss) = f[n]
  BY <1>1, <1>2
<1>7. Frames(S, ss, f)
  BY <1>2, <1>3, <1>4, <1>5, <1>6 DEF Frames
<1> QED BY <1>7

\* Everything a container may hold.
Cells(S) ==
  S \cup {Number(k) : k \in Nat} \cup {Magic(m) : m \in {"AFC3", "AFC4", "AFC6"}}
    \cup {[t |-> "entry", kind |-> x[1], n |-> x[2]] : x \in (0 .. 2) \X Nat}
    \cup {[t |-> "engine", of |-> q] : q \in Seq(S)}

\* Its members.
LEMMA CellsOf ==
  ASSUME NEW S
  PROVE  /\ \A x \in S : x \in Cells(S)
         /\ \A k \in Nat : Number(k) \in Cells(S)
         /\ \A m \in {"AFC3", "AFC4", "AFC6"} : Magic(m) \in Cells(S)
         /\ \A q \in Seq(S) : [t |-> "engine", of |-> q] \in Cells(S)
         /\ \A k \in 0 .. 2, m \in Nat : [t |-> "entry", kind |-> k, n |-> m] \in Cells(S)
<1>1. \A k \in 0 .. 2, m \in Nat : [t |-> "entry", kind |-> k, n |-> m] \in Cells(S)
  <2>1. ASSUME NEW k \in 0 .. 2, NEW m \in Nat
        PROVE  [t |-> "entry", kind |-> k, n |-> m] \in Cells(S)
    <3> DEFINE x == <<k, m>>
    <3>1. x \in (0 .. 2) \X Nat /\ x[1] = k /\ x[2] = m
      OBVIOUS
    <3> HIDE DEF x
    <3>2. [t |-> "entry", kind |-> x[1], n |-> x[2]] \in Cells(S)
      BY <3>1 DEF Cells
    <3> QED BY <3>1, <3>2
  <2> QED BY <2>1
<1>2. \A q \in Seq(S) : [t |-> "engine", of |-> q] \in Cells(S)
  BY DEF Cells
<1> QED BY <1>1, <1>2 DEF Cells

\* The entries, the opaque and the pooled parts of a plan.
Manifests(list) == [i \in DOMAIN list |-> Manifest(list[i])]
Opaques(list) == [i \in DOMAIN list |-> OpaquePart(list[i])]
Pooleds(list) == [i \in DOMAIN list |-> PooledPart(list[i])]

\* What a segment's parts are, and how long.
PartsOf(C, S, x) ==
  /\ Manifest(x) \in Seq(Cells(S)) /\ OpaquePart(x) \in Seq(C) /\ PooledPart(x) \in Seq(S)
  /\ Len(Manifest(x)) = IF x.kind = Transformed THEN 3 ELSE 1
  /\ Len(OpaquePart(x)) = IF x.kind = Opaque THEN Length(x) ELSE 0
  /\ Len(PooledPart(x)) = IF x.kind = Transformed THEN Len(x.source) + Len(x.recipe)
                          ELSE IF x.kind = Pooled THEN Length(x) ELSE 0
  /\ Length(x) \in Nat \ {0} /\ Len(x.source) \in Nat /\ Len(x.recipe) \in Nat
  /\ x.source \in Seq(S) /\ x.recipe \in Seq(S)
  /\ x.kind \in {Opaque, Pooled, Transformed}

\* What Build writes for a segment.
LEMMA Parts ==
  ASSUME NEW C, file.data \in Seq(C), NEW S, C \subseteq S, NEW magic,
         NEW x \in Proper(file.data, S, magic)
  PROVE  PartsOf(C, S, x)
<1> DEFINE d == file.data
           q == Part(d, x)
<1>1. /\ x.kind \in 0 .. 2 /\ x.s \in Nat /\ x.e \in Nat /\ x.s < x.e /\ x.e <= Len(d)
      /\ HasSource(S, x) /\ x.recipe \in Seq(S) /\ Len(d) \in Nat
      /\ x.kind = Transformed => Restores(d, magic, x)
      /\ x.kind # Transformed => x.source = <<>> /\ x.recipe = <<>>
  BY ProperFields
<1>2. q \in Seq(C) /\ Len(q) = Length(x) /\ Payload(x) = q /\ x.e - x.s \in Nat \ {0}
  <2>1. Part(d, x) \in Seq(C) /\ Len(Part(d, x)) = x.e - x.s
    <3>1. x.s <= x.e
      BY <1>1
    <3> QED BY <1>1, <3>1, PartType
  <2> QED BY <1>1, <2>1 DEF Payload, Part, Length
<1> HIDE DEF q, d
<1>3. q \in Seq(S)
  BY <1>2
<1>4. x.source \in Seq(S) /\ x.recipe \in Seq(S) /\ Len(x.source) \in Nat /\ Len(x.recipe) \in Nat
  BY <1>1 DEF HasSource
<1>5. Manifest(x) \in Seq(Cells(S)) /\ Len(Manifest(x)) = IF x.kind = Transformed THEN 3 ELSE 1
  <2>1. Entry(x) \in Cells(S)
    <3>1. x.kind \in 0 .. 2 /\ Length(x) \in Nat
      BY <1>1, <1>2 DEF Length
    <3> QED BY <3>1, CellsOf DEF Entry
  <2>2. Number(Len(x.source)) \in Cells(S) /\ Number(Len(x.recipe)) \in Cells(S)
    BY <1>4, CellsOf
  <2> QED BY <2>1, <2>2 DEF Manifest
<1>6. OpaquePart(x) \in Seq(C) /\ Len(OpaquePart(x)) = IF x.kind = Opaque THEN Length(x) ELSE 0
  BY <1>2 DEF OpaquePart
<1>7. PooledPart(x) \in Seq(S)
  BY <1>2, <1>3, <1>4 DEF PooledPart
<1>8. Len(PooledPart(x)) = IF x.kind = Transformed THEN Len(x.source) + Len(x.recipe)
                           ELSE IF x.kind = Pooled THEN Length(x) ELSE 0
  BY ZenonT(60), <1>2, <1>4, ConcatProperties DEF PooledPart
<1>9. x.kind \in {Opaque, Pooled, Transformed} /\ Length(x) \in Nat \ {0}
  BY <1>1, <1>2 DEF Opaque, Pooled, Transformed, Length
<1> QED BY <1>4, <1>5, <1>6, <1>7, <1>8, <1>9 DEF PartsOf

(***************************************************************************)
(* Reading the manifest                                                    *)
(***************************************************************************)

EntryStep(cells, m, i) == ReadEntry(m, cells)

Entering == INSTANCE RecursionLemmas WITH Step <- EntryStep

\* What is read of a segment's entry.
Header(x) ==
  [kind |-> x.kind, n |-> Length(x), source |-> Len(x.source), recipe |-> Len(x.recipe)]

\* What is read of the first i segments of a plan.
Headers(list, i) == [j \in 1 .. i |-> Header(list[j])]

\* The manifest has been read so far without an error.
Reads(at, list) == [ok |-> TRUE, at |-> at, list |-> list]

\* Reading the manifest has failed.
Fallen(m) == m = [ok |-> FALSE, at |-> m.at, list |-> m.list]

\* The entry is read, or it is not all there.
Entered(m, at, h, x, l) ==
  \/ m = Reads(at + Len(Manifest(x)), Append(h, Header(x)))
  \/ Fallen(m) /\ l < at + Len(Manifest(x)) - 1

\* An entry of the manifest is read again, or it was cut.
LEMMA EntryRead ==
  ASSUME NEW C, NEW S, NEW x, PartsOf(C, S, x),
         x.kind = Transformed => x.source # <<>> /\ x.recipe # <<>>,
         x.kind # Transformed => x.source = <<>> /\ x.recipe = <<>>,
         NEW at \in Nat, NEW h, NEW other, NEW l \in Nat, Len(other) = l,
         \A k \in 1 .. Len(Manifest(x)) : at + k - 1 <= l => other[at + k - 1] = Manifest(x)[k]
  PROVE  Entered(ReadEntry(Reads(at, h), other), at, h, x, l)
<1> DEFINE m == Reads(at, h)
           w == Len(Manifest(x))
<1>1. m.ok = TRUE /\ m.at = at /\ m.list = h
  BY DEF Reads
<1>2. /\ Length(x) \in Nat \ {0} /\ Len(x.source) \in Nat /\ Len(x.recipe) \in Nat
      /\ w = IF x.kind = Transformed THEN 3 ELSE 1
      /\ x.kind # Transformed => Len(x.source) = 0 /\ Len(x.recipe) = 0
  BY DEF PartsOf
<1>3. m.at + 1 = at + 1 /\ m.at + 2 = at + 2
  BY <1>1
<1>4. Fallen(Refused(m))
  <2> DEFINE z == Refused(m)
  <2>1. z = [ok |-> FALSE, at |-> at, list |-> h]
    <3>1. ASSUME NEW y, y = Refused(Reads(at, h)) PROVE y = [ok |-> FALSE, at |-> at, list |-> h]
      BY <3>1 DEF Refused, Reads
    <3> QED BY <3>1
  <2> HIDE DEF z
  <2>2. z.at = at /\ z.list = h
    BY <2>1
  <2> QED BY <2>1, <2>2 DEF Fallen, z
<1>5. CASE at > l
  <2>1. ReadEntry(m, other) = Refused(m)
    BY <1>1, <1>5 DEF ReadEntry
  <2>2. l < at + w - 1
    BY <1>2, <1>5
  <2> QED BY <1>4, <2>1, <2>2 DEF Entered
<1>6. CASE ~(at > l)
  <2>1. other[at] = Entry(x)
    <3>1. 1 \in 1 .. w /\ at + 1 - 1 <= l /\ at + 1 - 1 = at
      BY <1>2, <1>6
    <3>2. other[at + 1 - 1] = Manifest(x)[1]
      BY <3>1
    <3>3. Manifest(x)[1] = Entry(x)
      BY DEF Manifest
    <3> QED BY <3>1, <3>2, <3>3
  <2>2. other[at].kind = x.kind /\ other[at].n = Length(x)
    BY <2>1 DEF Entry
  <2>3. CASE x.kind # Transformed
    <3>1. ReadEntry(m, other) =
            [m EXCEPT !.at = @ + 1,
                      !.list = Append(@, [kind |-> x.kind, n |-> Length(x),
                                          source |-> 0, recipe |-> 0])]
      BY <1>1, <1>2, <1>6, <2>2, <2>3 DEF ReadEntry
    <3>2. Header(x) = [kind |-> x.kind, n |-> Length(x), source |-> 0, recipe |-> 0]
      BY <1>2, <2>3 DEF Header
    <3> DEFINE y == Header(x)
    <3>3. ReadEntry(m, other) = [m EXCEPT !.at = @ + 1, !.list = Append(@, y)]
      BY <3>1, <3>2
    <3> HIDE DEF y
    <3>4. ReadEntry(m, other) = Reads(at + 1, Append(h, y))
      BY <3>3 DEF Reads
    <3> QED BY <1>2, <2>3, <3>4 DEF Entered, y
  <2>4. CASE x.kind = Transformed
    <3>1. w = 3 /\ Manifest(x)[2] = Number(Len(x.source)) /\ Manifest(x)[3] = Number(Len(x.recipe))
      BY <1>2, <2>4 DEF Manifest
    <3>2. CASE at + 2 > l
      <4>1. ReadEntry(m, other) = Refused(m)
        BY <1>1, <1>2, <1>3, <1>6, <2>2, <2>4, <3>2 DEF ReadEntry
      <4>2. l < at + w - 1
        BY <3>1, <3>2
      <4> QED BY <1>4, <4>1, <4>2 DEF Entered
    <3>3. CASE ~(at + 2 > l)
      <4>1. other[at + 1] = Number(Len(x.source)) /\ other[at + 2] = Number(Len(x.recipe))
        <5>1. 2 \in 1 .. w /\ 3 \in 1 .. w /\ at + 2 - 1 = at + 1 /\ at + 3 - 1 = at + 2
          BY <3>1
        <5>2. at + 2 - 1 <= l /\ at + 3 - 1 <= l
          BY <3>3
        <5>3. other[at + 2 - 1] = Manifest(x)[2] /\ other[at + 3 - 1] = Manifest(x)[3]
          BY <5>1, <5>2
        <5> QED BY <3>1, <5>1, <5>3
      <4>2. other[at + 1].n = Len(x.source) /\ other[at + 2].n = Len(x.recipe)
        BY <4>1 DEF Number
      <4>3. Len(x.source) # 0 /\ Len(x.recipe) # 0
        <5>1. x.source # <<>> /\ x.recipe # <<>>
          BY <2>4
        <5>2. x.source \in Seq(S) /\ x.recipe \in Seq(S)
          BY <2>4 DEF PartsOf
        <5> QED BY <5>1, <5>2, EmptySeq
      <4>4. ReadEntry(m, other) =
              [m EXCEPT !.at = @ + 3,
                        !.list = Append(@, [kind |-> Transformed, n |-> Length(x),
                                            source |-> Len(x.source),
                                            recipe |-> Len(x.recipe)])]
        BY <1>1, <1>2, <1>3, <1>6, <2>2, <2>4, <3>3, <4>2, <4>3 DEF ReadEntry
      <4> DEFINE y == Header(x)
      <4>5. ReadEntry(m, other) = [m EXCEPT !.at = @ + 3, !.list = Append(@, y)]
        BY <2>4, <4>4 DEF Header
      <4> HIDE DEF y
      <4>6. ReadEntry(m, other) = Reads(at + 3, Append(h, y))
        BY <4>5 DEF Reads
      <4> QED BY <3>1, <4>6 DEF Entered, y
    <3> QED BY <3>2, <3>3
  <2> QED BY <2>3, <2>4
<1> QED BY <1>5, <1>6

\* What is read of a plan, entry by entry.
LEMMA HeadersNext ==
  ASSUME NEW list, NEW i \in Nat
  PROVE  /\ Headers(list, i + 1) = Append(Headers(list, i), Header(list[i + 1]))
         /\ Headers(list, 0) = <<>>
         /\ Len(Headers(list, i)) = i
         /\ \A j \in 1 .. i : Headers(list, i)[j] = Header(list[j])
<1> DEFINE T == {Header(list[j]) : j \in Nat}
           p == Headers(list, i)
           q == Headers(list, i + 1)
           y == Header(list[i + 1])
<1>1. p \in Seq(T) /\ Len(p) = i /\ \A j \in 1 .. i : p[j] = Header(list[j])
  <2>1. \A j \in 1 .. i : Header(list[j]) \in T
    OBVIOUS
  <2> HIDE DEF T
  <2> QED BY <2>1 DEF Headers
<1>2. q \in Seq(T) /\ Len(q) = i + 1 /\ \A j \in 1 .. i + 1 : q[j] = Header(list[j])
  <2>1. \A j \in 1 .. i + 1 : Header(list[j]) \in T
    OBVIOUS
  <2> HIDE DEF T
  <2> QED BY <2>1 DEF Headers
<1>3. y \in T /\ i + 1 \in 1 .. i + 1
  OBVIOUS
<1>4. Headers(list, 0) = <<>>
  BY DEF Headers
<1>5. q[i + 1] = y
  BY <1>2, <1>3
<1> HIDE DEF p, q, y, T
<1>6. /\ Append(p, y) \in Seq(T) /\ Len(Append(p, y)) = i + 1 /\ Append(p, y)[i + 1] = y
      /\ \A j \in 1 .. i : Append(p, y)[j] = p[j]
  BY <1>1, <1>3, AppendProperties
<1>7. \A j \in 1 .. i + 1 : Append(p, y)[j] = q[j]
  <2>1. \A j \in 1 .. i : j \in 1 .. i + 1 /\ Append(p, y)[j] = q[j]
    BY <1>1, <1>2, <1>6
  <2>2. \A j \in 1 .. i + 1 : j \in 1 .. i \/ j = i + 1
    OBVIOUS
  <2> QED BY <1>5, <1>6, <2>1, <2>2
<1>8. q = Append(p, y)
  BY <1>2, <1>6, <1>7, SeqEqual
<1> QED BY <1>1, <1>4, <1>8 DEF p, q, y

\* As far as it goes, other is like cells.
Agrees(other, cells) ==
  \A k \in 1 .. Len(other) : k <= Len(cells) => other[k] = cells[k]

\* It stays so.
LEMMA StaysFallen ==
  ASSUME NEW m, Fallen(m), NEW cells
  PROVE  Fallen(ReadEntry(m, cells))
<1>1. ~m.ok
  BY DEF Fallen
<1>2. ReadEntry(m, cells) = Refused(m)
  BY <1>1 DEF ReadEntry
<1>3. ASSUME NEW y, y = Refused([ok |-> FALSE, at |-> m.at, list |-> m.list])
      PROVE  y = [ok |-> FALSE, at |-> m.at, list |-> m.list]
  BY <1>3 DEF Refused
<1>4. Refused(m) = [ok |-> FALSE, at |-> m.at, list |-> m.list]
  <2>1. m = [ok |-> FALSE, at |-> m.at, list |-> m.list]
    BY DEF Fallen
  <2> DEFINE y == Refused([ok |-> FALSE, at |-> m.at, list |-> m.list])
  <2>2. y = [ok |-> FALSE, at |-> m.at, list |-> m.list]
    BY <1>3
  <2>3. y = Refused(m)
    BY <2>1
  <2> HIDE DEF y
  <2> QED BY <2>2, <2>3
<1> DEFINE z == Refused(m)
<1> HIDE DEF z
<1>5. z = [ok |-> FALSE, at |-> m.at, list |-> m.list]
  BY <1>4 DEF z
<1>6. z.at = m.at /\ z.list = m.list
  BY <1>5
<1> QED BY <1>2, <1>5, <1>6 DEF Fallen, z

\* The manifest is read as it was written, unless the container was cut in it.
LEMMA ManifestRead ==
  ASSUME NEW C, file.data \in Seq(C), NEW S, C \subseteq S, NEW magic,
         NEW list \in Seq(Proper(file.data, S, magic)),
         NEW f, Frames(Cells(S), Manifests(list), f),
         NEW cells, Len(cells) \in Nat, 3 + Len(f[Len(list)]) < Len(cells),
         cells[3] = Number(Len(list)),
         \A k \in 1 .. Len(f[Len(list)]) : cells[3 + k] = f[Len(list)][k],
         NEW other, Len(other) \in Nat, Agrees(other, cells)
  PROVE  \/ ReadManifest(other) = Reads(4 + Len(f[Len(list)]), Headers(list, Len(list)))
         \/ ~ReadManifest(other).ok /\ Len(other) < Len(cells)
<1> DEFINE d == file.data
           P == Proper(d, S, magic)
           n == Len(list)
           ss == Manifests(list)
           l == Len(other)
<1>1. n \in Nat /\ DOMAIN list = 1 .. n /\ l \in Nat /\ \A i \in 1 .. n : list[i] \in P
  OBVIOUS
<1>2. \A i \in 1 .. n : PartsOf(C, S, list[i])
  BY <1>1, Parts
<1>3. ss \in Seq(Seq(Cells(S))) /\ Len(ss) = n /\ \A i \in 1 .. n : ss[i] = Manifest(list[i])
  <2>1. \A i \in 1 .. n : Manifest(list[i]) \in Seq(Cells(S))
    BY <1>2 DEF PartsOf
  <2>2. ss = [i \in 1 .. n |-> Manifest(list[i])]
    BY <1>1 DEF Manifests
  <2> HIDE DEF ss, n
  <2>3. ss \in [1 .. n -> Seq(Cells(S))]
    BY <2>1, <2>2
  <2> QED BY <1>1, <2>2, <2>3
<1> HIDE DEF ss, n, l, P
<1>4. /\ Len(f[0]) = 0
      /\ \A i \in 0 .. n : f[i] \in Seq(Cells(S)) /\ Len(f[i]) \in Nat
      /\ \A i \in 1 .. n :
           /\ Len(f[i]) = Len(f[i - 1]) + Len(ss[i]) /\ Len(f[i]) <= Len(f[n])
           /\ SubSeq(f[n], Len(f[i - 1]) + 1, Len(f[i - 1]) + Len(ss[i])) = ss[i]
  BY <1>3 DEF Frames, ss
<1>5. ASSUME NEW i \in 1 .. n, NEW k \in 1 .. Len(Manifest(list[i]))
      PROVE  cells[3 + (Len(f[i - 1]) + k)] = Manifest(list[i])[k]
  <2> DEFINE q == ss[i]
             a == Len(f[i - 1])
             w == f[n]
  <2>1. i - 1 \in 0 .. n /\ n \in 0 .. n
    BY <1>1
  <2>2. a \in Nat /\ w \in Seq(Cells(S)) /\ q = Manifest(list[i]) /\ q \in Seq(Cells(S))
    <3>1. a \in Nat /\ w \in Seq(Cells(S))
      BY <1>4, <2>1
    <3>2. q = Manifest(list[i])
      BY <1>3
    <3>3. q \in Seq(Cells(S))
      BY <1>2, <3>2 DEF PartsOf
    <3> QED BY <3>1, <3>2, <3>3
  <2>3. a + Len(q) <= Len(w) /\ SubSeq(w, a + 1, a + Len(q)) = q
    BY <1>4
  <2>4. k \in 1 .. Len(q)
    BY <2>2
  <2>5. \A k1 \in 1 .. Len(w) : cells[3 + k1] = w[k1]
    BY DEF n
  <2> HIDE DEF a, q, w
  <2>6. w[a + k] = q[k]
    BY SMTT(40), <2>2, <2>3, <2>4, Looked
  <2>7. a + k \in 1 .. Len(w)
    <3>1. Len(q) \in Nat /\ Len(w) \in Nat
      BY <2>2
    <3> QED BY <2>2, <2>3, <2>4, <3>1
  <2> QED BY <2>2, <2>5, <2>6, <2>7 DEF a
<1>6. \A i \in 1 .. n : Len(ss[i]) \in {1, 3}
  <2>1. ASSUME NEW i \in 1 .. n PROVE Len(ss[i]) \in {1, 3}
    BY <1>2, <1>3 DEF PartsOf
  <2> QED BY <2>1
<1>7. n <= Len(f[n])
  <2> DEFINE T == {i \in Nat : i <= n => i <= Len(f[i])}
  <2>1. 0 \in T
    BY <1>4
  <2>2. ASSUME NEW k \in Nat, k \in T PROVE k + 1 \in T
    <3> DEFINE j == k + 1
    <3> SUFFICES ASSUME j <= n PROVE j <= Len(f[j])
      OBVIOUS
    <3>1. j \in 1 .. n /\ j - 1 = k /\ k \in 0 .. n /\ k <= Len(f[k])
      BY <1>1, <2>2
    <3>2. j = k + 1
      OBVIOUS
    <3> HIDE DEF j
    <3> DEFINE fj == Len(f[j])
               fk == Len(f[k])
               sj == Len(ss[j])
    <3>3. fj = fk + sj
      <4>1. Len(f[j]) = Len(f[j - 1]) + Len(ss[j])
        BY <1>4, <3>1
      <4> QED BY <3>1, <4>1
    <3>4. sj \in {1, 3} /\ fk \in Nat /\ k <= fk
      BY <1>4, <1>6, <3>1
    <3> HIDE DEF fj, fk, sj
    <3>5. j <= fj
      BY <3>2, <3>3, <3>4
    <3> QED BY <3>5 DEF fj
  <2> HIDE DEF T
  <2>3. Nat \subseteq T
    BY <2>1, <2>2, Induction
  <2> QED BY <1>1, <2>3 DEF T
<1>8. l \in Nat /\ l = Len(other) /\ cells[3].n = n /\ 3 + n < Len(cells)
  <2>1. Len(f[n]) \in Nat
    <3>1. n \in 0 .. n
      BY <1>1
    <3> QED BY <1>4, <3>1
  <2> QED BY <1>1, <1>7, <2>1 DEF l, n, Number
<1>9. CASE l < 3 \/ other[3].n > l
  <2>1. ~ReadManifest(other).ok
    BY <1>9 DEF ReadManifest, l
  <2>2. l < Len(cells)
    <3>1. CASE l < 3
      BY <1>1, <1>8, <3>1
    <3>2. CASE ~(l < 3) /\ other[3].n > l
      <4>1. 3 \in 1 .. Len(other) /\ 3 <= Len(cells)
        BY <1>1, <1>8, <3>2
      <4>2. other[3] = cells[3]
        BY <4>1 DEF Agrees
      <4>3. n > l
        BY <1>8, <3>2, <4>2
      <4> QED BY <1>1, <1>8, <4>3
    <3> QED BY <1>9, <3>1, <3>2
  <2> QED BY <1>8, <2>1, <2>2
<1>10. CASE ~(l < 3 \/ other[3].n > l)
  <2> DEFINE m == ReadManifest(other)
             steps == [i \in 1 .. n |-> i]
             start == Reads(4, <<>>)
  <2>1. other[3].n = n
    <3>1. 3 \in 1 .. Len(other) /\ 3 <= Len(cells)
      BY <1>1, <1>8, <1>10
    <3>2. other[3] = cells[3]
      BY <3>1 DEF Agrees
    <3> QED BY <1>8, <3>2
  <2>2. m = FoldLeft(LAMBDA mm, i : ReadEntry(mm, other), start, steps)
    BY <1>8, <1>10, <2>1 DEF ReadManifest, Reads
  <2>3. m = Entering!Fold(other, start, steps)
    BY <2>2 DEF Entering!Fold, EntryStep, FoldLeft, MapThenFoldSet, Max,
                Entering!FoldLeft, Entering!MapThenFoldSet, Entering!Max
  <2>4. Len(steps) = n /\ DOMAIN steps = 1 .. Len(steps) /\ Len(steps) \in Nat
    BY <1>1
  <2> HIDE DEF m, steps, start
  <2>5. PICK g : Entering!Unrolls(other, start, steps, g)
                 /\ Entering!Fold(other, start, steps) = g[Len(steps)]
    BY SMTT(40), <2>4, Entering!Unrolled
  <2>6. g[0] = start /\ \A i \in 1 .. n : g[i] = ReadEntry(g[i - 1], other)
    BY <2>4, <2>5 DEF Entering!Unrolls, EntryStep
  <2> DEFINE At(i) == \/ g[i] = Reads(4 + Len(f[i]), Headers(list, i))
                      \/ Fallen(g[i]) /\ l < Len(cells)
             T == {i \in Nat : i <= n => At(i)}
  <2>7. 0 \in T
    <3>1. Headers(list, 0) = <<>>
      BY HeadersNext
    <3>2. 4 + Len(f[0]) = 4
      BY <1>4
    <3>3. g[0] = Reads(4 + Len(f[0]), Headers(list, 0))
      BY <2>6, <3>1, <3>2 DEF start
    <3> QED BY <3>3
  <2>8. ASSUME NEW k \in Nat, k \in T PROVE k + 1 \in T
    <3> DEFINE i == k + 1
    <3> SUFFICES ASSUME i <= n PROVE At(i)
      OBVIOUS
    <3>1. i \in 1 .. n /\ i - 1 = k /\ k \in 0 .. n /\ At(k) /\ i = k + 1
      BY <1>1, <2>8
    <3>2. Headers(list, i) = Append(Headers(list, k), Header(list[i]))
      BY HeadersNext
    <3> HIDE DEF i
    <3>3. g[i] = ReadEntry(g[k], other)
      BY <2>6, <3>1
    <3>4. CASE Fallen(g[k]) /\ l < Len(cells)
      <4> DEFINE mm == g[k]
      <4>1. Fallen(mm)
        BY <3>4
      <4> HIDE DEF mm
      <4>2. Fallen(ReadEntry(mm, other))
        BY <4>1, StaysFallen
      <4> QED BY <3>3, <3>4, <4>2 DEF mm
    <3>5. CASE g[k] = Reads(4 + Len(f[k]), Headers(list, k))
      <4> DEFINE x == list[i]
                 at == 4 + Len(f[k])
                 h == Headers(list, k)
                 w == Len(Manifest(x))
                 fk == Len(f[k])
                 fi == Len(f[i])
                 fn == Len(f[n])
                 lc == Len(cells)
      <4>1. fk \in Nat /\ at \in Nat /\ lc \in Nat
        BY <1>4, <3>1
      <4>2. PartsOf(C, S, x) /\ x \in P
        BY <1>1, <1>2, <3>1
      <4>3. w \in {1, 3} /\ fi = fk + w /\ fi <= fn
        <5>1. Len(ss[i]) \in {1, 3} /\ ss[i] = Manifest(x)
          BY <1>3, <1>6, <3>1
        <5>2. Len(f[i]) = Len(f[i - 1]) + Len(ss[i]) /\ Len(f[i]) <= Len(f[n])
          BY <1>4, <3>1
        <5> QED BY <3>1, <5>1, <5>2
      <4>4. fn \in Nat
        <5>1. n \in 0 .. n
          BY <1>1
        <5> QED BY <1>4, <5>1
      <4>5. 3 + fn < lc
        BY DEF n
      <4>6. at = 4 + fk
        OBVIOUS
      <4> HIDE DEF at, h, w, fk, fi, fn, lc
      <4>7. ASSUME NEW j \in 1 .. w, at + j - 1 <= l PROVE other[at + j - 1] = Manifest(x)[j]
        <5>1. cells[3 + (fk + j)] = Manifest(x)[j]
          BY <1>5, <3>1 DEF w, fk
        <5>2. 3 + (fk + j) = at + j - 1 /\ j \in 1 .. 3 /\ j <= w
          BY <4>1, <4>3, <4>6
        <5>3. at + j - 1 \in 1 .. l /\ at + j - 1 <= lc
          BY <1>1, <4>1, <4>3, <4>4, <4>5, <4>6, <4>7, <5>2
        <5>4. other[at + j - 1] = cells[at + j - 1]
          BY <5>3 DEF Agrees, l, lc
        <5> QED BY <5>1, <5>2, <5>4
      <4>8. /\ x.kind = Transformed => x.source # <<>> /\ x.recipe # <<>>
            /\ x.kind # Transformed => x.source = <<>> /\ x.recipe = <<>>
        BY SMTT(40), <4>2, ProperFields DEF P, Restores
      <4> HIDE DEF x
      <4>9. Entered(ReadEntry(Reads(at, h), other), at, h, x, l)
        BY <1>8, <4>1, <4>2, <4>7, <4>8, EntryRead DEF w
      <4>10. Entered(g[i], at, h, x, l)
        BY <3>3, <3>5, <4>9 DEF at, h
      <4>11. CASE g[i] = Reads(at + w, Append(h, Header(x)))
        <5>1. at + w = 4 + fi
          BY <4>1, <4>3, <4>6
        <5>2. Append(h, Header(x)) = Headers(list, i)
          BY <3>2 DEF h, x
        <5> QED BY <4>11, <5>1, <5>2 DEF fi
      <4>12. CASE Fallen(g[i]) /\ l < at + w - 1
        <5>1. at + w - 1 < lc
          BY <4>1, <4>3, <4>4, <4>5, <4>6
        <5>2. l < lc
          BY <1>1, <4>1, <4>3, <4>12, <5>1
        <5> QED BY <4>12, <5>2 DEF lc
      <4> QED BY <4>10, <4>11, <4>12 DEF Entered, w
    <3> QED BY <3>1, <3>4, <3>5
  <2>9. At(n)
    <3> HIDE DEF T
    <3>1. Nat \subseteq T
      BY <2>7, <2>8, Induction
    <3> QED BY <1>1, <3>1 DEF T
  <2>10. m = g[n]
    BY <2>3, <2>4, <2>5
  <2>11. Fallen(g[n]) => ~g[n].ok
    BY DEF Fallen
  <2> QED BY <1>8, <2>9, <2>10, <2>11 DEF m, n
<1> QED BY <1>9, <1>10

(***************************************************************************)
(* Restoring the file                                                      *)
(***************************************************************************)

AddStep(c, a, x) == AddComponent(a, x, c[1], c[2])

Adding == INSTANCE RecursionLemmas WITH Step <- AddStep

\* The file has been put back so far without an error.
Added(out, p, o) == [out |-> out, p |-> p, o |-> o, ok |-> TRUE]

\* q lies in s behind the first l elements.
Found(s, l, q) == l + Len(q) <= Len(s) /\ SubSeq(s, l + 1, l + Len(q)) = q

\* Of a stretch found in a sequence, both halves are found.
LEMMA Halves ==
  ASSUME NEW S, NEW s \in Seq(S), NEW l \in Nat, NEW u \in Seq(S), NEW v \in Seq(S),
         Found(s, l, u \o v)
  PROVE  /\ SubSeq(s, l + 1, l + Len(u)) = u
         /\ SubSeq(s, l + Len(u) + 1, l + (Len(u) + Len(v))) = v
<1> DEFINE lu == Len(u)
           lv == Len(v)
           q == u \o v
<1>1. lu \in Nat /\ lv \in Nat /\ Len(s) \in Nat
  OBVIOUS
<1>2. /\ q \in Seq(S) /\ Len(q) = lu + lv
      /\ \A i \in 1 .. lu + lv : q[i] = IF i <= lu THEN u[i] ELSE v[i - lu]
  BY ConcatProperties
<1>3. l + Len(q) <= Len(s) /\ SubSeq(s, l + 1, l + Len(q)) = q
  BY DEF Found
<1>4. lu = Len(u) /\ lv = Len(v)
  OBVIOUS
<1> HIDE DEF q, lu, lv
<1>5. \A k \in 1 .. Len(q) : s[l + k] = q[k]
  BY <1>2, <1>3, Looked
<1>6. \A i \in 1 .. lu : s[l + i] = u[i]
  <2>1. ASSUME NEW i \in 1 .. lu PROVE s[l + i] = u[i]
    <3>1. i \in 1 .. lu + lv /\ i <= lu
      BY <1>1
    <3> QED BY <1>2, <1>5, <3>1
  <2> QED BY <2>1
<1>7. \A i \in 1 .. lv : s[(l + lu) + i] = v[i]
  <2>1. ASSUME NEW i \in 1 .. lv PROVE s[(l + lu) + i] = v[i]
    <3> DEFINE j == lu + i
    <3>1. j \in 1 .. lu + lv /\ ~(j <= lu) /\ j - lu = i /\ (l + lu) + i = l + j
      BY <1>1
    <3> HIDE DEF j
    <3>2. s[l + j] = q[j] /\ q[j] = v[j - lu]
      BY <1>2, <1>5, <3>1
    <3> QED BY <3>1, <3>2
  <2> QED BY <2>1
<1>8. ASSUME NEW a \in Nat, NEW w \in Seq(S), a + Len(w) <= Len(s),
             \A i \in 1 .. Len(w) : s[a + i] = w[i]
      PROVE  SubSeq(s, a + 1, a + Len(w)) = w
  <2> DEFINE b == a + 1
             h == a + Len(w)
             z == SubSeq(s, b, h)
  <2>1. b \in Int /\ h \in Int /\ Len(w) \in Nat /\ h <= Len(s) /\ b >= 1 /\ h - b + 1 = Len(w)
    BY <1>1, <1>8
  <2>2. \A i \in 1 .. Len(w) : b + i - 1 = a + i
    BY <1>8
  <2> HIDE DEF b, h
  <2>3. \A i \in b .. h : s[i] \in S
    <3>1. \A i \in b .. h : i \in 1 .. Len(s)
      BY <1>1, <2>1
    <3> QED BY <3>1
  <2>4. /\ z \in Seq(S) /\ Len(z) = IF b <= h THEN h - b + 1 ELSE 0
        /\ \A i \in 1 .. h - b + 1 : z[i] = s[b + i - 1]
    BY <2>1, <2>3, SubSeqProperties
  <2> HIDE DEF z
  <2>5. Len(z) = Len(w)
    BY <2>1, <2>4
  <2>6. \A i \in 1 .. Len(w) : z[i] = w[i]
    BY <1>8, <2>1, <2>2, <2>4
  <2>7. z = w
    BY <1>8, <2>4, <2>5, <2>6, SeqEqual
  <2> QED BY <2>7 DEF z, b, h
<1>9. SubSeq(s, l + 1, l + Len(u)) = u
  <2>1. l + Len(u) <= Len(s)
    BY <1>1, <1>2, <1>3, <1>4
  <2> QED BY <1>4, <1>6, <1>8, <2>1
<1>10. SubSeq(s, (l + lu) + 1, (l + lu) + Len(v)) = v
  <2> DEFINE a == l + lu
  <2>1. a \in Nat /\ a + Len(v) <= Len(s)
    BY <1>1, <1>2, <1>3, <1>4
  <2>2. \A i \in 1 .. Len(v) : s[a + i] = v[i]
    BY <1>4, <1>7
  <2> HIDE DEF a
  <2>3. SubSeq(s, a + 1, a + Len(v)) = v
    BY <1>8, <2>1, <2>2
  <2> QED BY <2>3 DEF a
<1>11. (l + lu) + lv = l + (lu + lv)
  BY <1>1
<1> QED BY <1>4, <1>9, <1>10, <1>11

\* Up to a segment, and with it.
LEMMA UptoPart ==
  ASSUME NEW C, NEW d \in Seq(C), NEW x, x.s \in Nat, x.e \in Nat, x.s < x.e, x.e <= Len(d)
  PROVE  Upto(d, x.s) \o Part(d, x) = Upto(d, x.e)
<1> DEFINE q == Part(d, x)
           l == x.s
           h == x.e
<1>1. q \in Seq(C) /\ Len(q) = h - l /\ \A i \in 1 .. h - l : q[i] = d[l + i]
  <2>1. x.s <= x.e
    OBVIOUS
  <2> QED BY <2>1, PartType
<1>2. l \in Nat /\ l + (h - l) = h /\ h <= Len(d)
  OBVIOUS
<1> HIDE DEF q, l, h
<1>3. l + Len(q) <= Len(d) /\ l + Len(q) = h /\ \A i \in 1 .. Len(q) : q[i] = d[l + i]
  BY <1>1, <1>2
<1>4. Upto(d, l) \o q = Upto(d, l + Len(q))
  BY <1>1, <1>2, <1>3, UptoConcat
<1> QED BY <1>3, <1>4 DEF q, l, h

\* An opaque component is taken from the opaque region.
LEMMA AddsOpaque ==
  ASSUME NEW s, NEW p, NEW o, NEW y, NEW magic, NEW r, y.kind = Opaque
  PROVE  AddComponent(Added(s, p, o), y, magic, r) =
           Added(s \o SubSeq(r.opaque, o + 1, o + y.n), p, o + y.n)
<1> DEFINE a == [out |-> s, p |-> p, o |-> o, ok |-> TRUE]
           q == s \o SubSeq(r.opaque, o + 1, o + y.n)
           m == o + y.n
<1>0. q = s \o SubSeq(r.opaque, o + 1, o + y.n) /\ m = o + y.n
  OBVIOUS
<1> HIDE DEF q, m
<1>1. a.ok = TRUE /\ a.out = s /\ a.p = p /\ a.o = o
  OBVIOUS
<1>2. ASSUME NEW z, z = [a EXCEPT !.out = q, !.o = m] PROVE z = Added(q, p, m)
  BY <1>2 DEF Added
<1>3. [a EXCEPT !.out = q, !.o = m] = Added(q, p, m)
  BY <1>2
<1> HIDE DEF a
<1>4. a.out \o SubSeq(r.opaque, a.o + 1, a.o + y.n) = q /\ a.o + y.n = m
  BY <1>0, <1>1
<1>5. y.kind # Pooled
  BY DEF Opaque, Pooled
<1>6. AddComponent(a, y, magic, r) =
        [a EXCEPT !.out = a.out \o SubSeq(r.opaque, a.o + 1, a.o + y.n), !.o = a.o + y.n]
  BY <1>1, <1>5, Zenon DEF AddComponent
<1>7. AddComponent(a, y, magic, r) = [a EXCEPT !.out = q, !.o = m]
  BY <1>4, <1>6
<1> QED BY <1>3, <1>7 DEF a, Added, q, m

\* A pooled one from the pooled region.
LEMMA AddsPooled ==
  ASSUME NEW s, NEW p, NEW o, NEW y, NEW magic, NEW r, y.kind = Pooled
  PROVE  AddComponent(Added(s, p, o), y, magic, r) =
           Added(s \o SubSeq(r.pooled, p + 1, p + y.n), p + y.n, o)
<1> DEFINE a == [out |-> s, p |-> p, o |-> o, ok |-> TRUE]
           q == s \o SubSeq(r.pooled, p + 1, p + y.n)
           m == p + y.n
<1>0. q = s \o SubSeq(r.pooled, p + 1, p + y.n) /\ m = p + y.n
  OBVIOUS
<1> HIDE DEF q, m
<1>1. a.ok = TRUE /\ a.out = s /\ a.p = p /\ a.o = o
  OBVIOUS
<1>2. ASSUME NEW z, z = [a EXCEPT !.out = q, !.p = m] PROVE z = Added(q, m, o)
  BY <1>2 DEF Added
<1>3. [a EXCEPT !.out = q, !.p = m] = Added(q, m, o)
  BY <1>2
<1> HIDE DEF a
<1>4. a.out \o SubSeq(r.pooled, a.p + 1, a.p + y.n) = q /\ a.p + y.n = m
  BY <1>0, <1>1
<1>5. y.kind # Opaque
  BY DEF Opaque, Pooled
<1>6. AddComponent(a, y, magic, r) =
        [a EXCEPT !.out = a.out \o SubSeq(r.pooled, a.p + 1, a.p + y.n), !.p = a.p + y.n]
  BY <1>1, <1>5, Zenon DEF AddComponent
<1>7. AddComponent(a, y, magic, r) = [a EXCEPT !.out = q, !.p = m]
  BY <1>4, <1>6
<1> QED BY <1>3, <1>7 DEF a, Added, q, m

\* A transform gives back raw from the pooled region.
Regained(magic, r, p, y, raw) ==
  /\ RestoreAs(magic, SubSeq(r.pooled, p + 1, p + y.source),
                SubSeq(r.pooled, p + y.source + 1, p + Wanted(y))) = <<raw>>
  /\ Len(raw) = y.n

\* A transform is restored from its source and recipe in the pooled region.
LEMMA AddsRestored ==
  ASSUME NEW s, NEW p, NEW o, NEW y, NEW magic, NEW r, y.kind = Transformed, NEW raw,
         Regained(magic, r, p, y, raw)
  PROVE  AddComponent(Added(s, p, o), y, magic, r) = Added(s \o raw, p + Wanted(y), o)
<1> DEFINE q == s \o raw
           m == p + Wanted(y)
<1>0. q = s \o raw /\ m = p + Wanted(y)
  OBVIOUS
<1> HIDE DEF q, m
<1> DEFINE a == [out |-> s, p |-> p, o |-> o, ok |-> TRUE]
           w == RestoreAs(magic, SubSeq(r.pooled, a.p + 1, a.p + y.source),
                          SubSeq(r.pooled, a.p + y.source + 1, a.p + Wanted(y)))
<1>1. a.ok = TRUE /\ a.out = s /\ a.p = p /\ a.o = o
  OBVIOUS
<1>2. ASSUME NEW z, z = [a EXCEPT !.out = q, !.p = m] PROVE z = Added(q, m, o)
  BY <1>2 DEF Added
<1>3. [a EXCEPT !.out = q, !.p = m] = Added(q, m, o)
  BY <1>2
<1> HIDE DEF a
<1>4. w = <<raw>> /\ Len(raw) = y.n
  BY <1>1 DEF Regained
<1>5. y.kind # Opaque /\ y.kind # Pooled
  BY DEF Opaque, Pooled, Transformed
<1>6. AddComponent(a, y, magic, r) = AddRestored(a, y, w)
  BY <1>1, <1>5, Zenon DEF AddComponent
<1>7. AddRestored(a, y, <<raw>>) = [a EXCEPT !.out = a.out \o raw, !.p = a.p + Wanted(y)]
  <2>1. <<raw>> # <<>> /\ <<raw>>[1] = raw
    OBVIOUS
  <2> DEFINE v == <<raw>>
  <2>2. v # <<>> /\ v[1] = raw
    BY <2>1
  <2> HIDE DEF v
  <2>3. AddRestored(a, y, v) = [a EXCEPT !.out = a.out \o v[1], !.p = a.p + Wanted(y)]
    BY <1>4, <2>2, Zenon DEF AddRestored
  <2> QED BY <2>2, <2>3 DEF v
<1>8. a.out \o raw = q /\ a.p + Wanted(y) = m
  BY <1>0, <1>1
<1>9. AddComponent(a, y, magic, r) = [a EXCEPT !.out = q, !.p = m]
  BY <1>4, <1>6, <1>7, <1>8
<1> QED BY <1>3, <1>9 DEF a, Added, q, m

\* The parts of x lie at these places of the regions.
Stocked(x, p, o, opaque, pooled) ==
  /\ p + Len(PooledPart(x)) <= Len(pooled)
  /\ SubSeq(opaque, o + 1, o + Len(OpaquePart(x))) = OpaquePart(x)
  /\ SubSeq(pooled, p + 1, p + Len(PooledPart(x))) = PooledPart(x)

\* A segment is put back behind those before it.
PutsBack(magic, x, p, o, r) ==
  AddComponent(Added(Upto(file.data, x.s), p, o), Header(x), magic, r) =
    Added(Upto(file.data, x.e), p + Len(PooledPart(x)), o + Len(OpaquePart(x)))

\* What the regions of a container hold is put back segment by segment.
LEMMA AddedOne ==
  ASSUME NEW C, file.data \in Seq(C), NEW S, C \subseteq S, NEW magic,
         NEW x \in Proper(file.data, S, magic), NEW p \in Nat, NEW o \in Nat,
         NEW opaque \in Seq(C), NEW pooled \in Seq(S), Stocked(x, p, o, opaque, pooled)
  PROVE  PutsBack(magic, x, p, o, [opaque |-> opaque, pooled |-> pooled])
<1> DEFINE d == file.data
           q == Part(d, x)
           y == Header(x)
           r == [opaque |-> opaque, pooled |-> pooled]
           n == Length(x)
           ls == Len(x.source)
           lr == Len(x.recipe)
           s == Upto(d, x.s)
           e == Upto(d, x.e)
<1>1. /\ x.s \in Nat /\ x.e \in Nat /\ x.s < x.e /\ x.e <= Len(d) /\ Len(d) \in Nat
      /\ x.kind = Transformed => Restores(d, magic, x)
  BY ProperFields
<1>2. PartsOf(C, S, x)
  BY Parts
<1>3. s \o q = e
  BY <1>1, UptoPart
<1>4. Len(q) = n
  <2>1. x.s <= x.e
    BY <1>1
  <2> QED BY <1>1, <2>1, PartType DEF Length
<1>5. Payload(x) = q
  BY DEF Payload, Part
<1>6. y.kind = x.kind /\ y.n = n /\ y.source = ls /\ y.recipe = lr
  BY DEF Header
<1>7. r.opaque = opaque /\ r.pooled = pooled
  OBVIOUS
<1>8. /\ p + Len(PooledPart(x)) <= Len(pooled)
      /\ SubSeq(opaque, o + 1, o + Len(OpaquePart(x))) = OpaquePart(x)
      /\ SubSeq(pooled, p + 1, p + Len(PooledPart(x))) = PooledPart(x)
  BY DEF Stocked
<1>9. /\ n \in Nat \ {0} /\ ls \in Nat /\ lr \in Nat
      /\ Len(OpaquePart(x)) = IF x.kind = Opaque THEN n ELSE 0
      /\ Len(PooledPart(x)) = IF x.kind = Transformed THEN ls + lr
                              ELSE IF x.kind = Pooled THEN n ELSE 0
      /\ x.kind \in {Opaque, Pooled, Transformed} /\ x.source \in Seq(S) /\ x.recipe \in Seq(S)
  BY <1>2 DEF PartsOf
<1> HIDE DEF q, n, ls, lr, s, e, r, y
<1>10. CASE x.kind = Opaque
  <2>1. OpaquePart(x) = q
    BY <1>5, <1>10 DEF OpaquePart
  <2>2. Len(OpaquePart(x)) = n /\ Len(PooledPart(x)) = 0
    BY <1>9, <1>10 DEF Opaque, Pooled, Transformed
  <2>3. SubSeq(r.opaque, o + 1, o + y.n) = q
    BY <1>6, <1>7, <1>8, <2>1, <2>2
  <2>4. y.kind = Opaque /\ e = s \o SubSeq(r.opaque, o + 1, o + y.n)
    BY <1>3, <1>6, <1>10, <2>3
  <2>5. AddComponent(Added(s, p, o), y, magic, r) =
          Added(s \o SubSeq(r.opaque, o + 1, o + y.n), p, o + y.n)
    BY <2>4, AddsOpaque
  <2>6. o + y.n = o + Len(OpaquePart(x)) /\ p = p + Len(PooledPart(x))
    BY <1>6, <2>2
  <2> QED BY <2>4, <2>5, <2>6 DEF PutsBack, y, r, e, s, d
<1>11. CASE x.kind = Pooled
  <2>1. PooledPart(x) = q
    BY <1>5, <1>11 DEF PooledPart, Pooled, Transformed
  <2>2. Len(PooledPart(x)) = n /\ Len(OpaquePart(x)) = 0
    BY <1>9, <1>11 DEF Opaque, Pooled, Transformed
  <2>3. SubSeq(r.pooled, p + 1, p + y.n) = q
    BY <1>6, <1>7, <1>8, <2>1, <2>2
  <2>4. y.kind = Pooled /\ e = s \o SubSeq(r.pooled, p + 1, p + y.n)
    BY <1>3, <1>6, <1>11, <2>3
  <2>5. AddComponent(Added(s, p, o), y, magic, r) =
          Added(s \o SubSeq(r.pooled, p + 1, p + y.n), p + y.n, o)
    BY <2>4, AddsPooled
  <2>6. p + y.n = p + Len(PooledPart(x)) /\ o = o + Len(OpaquePart(x))
    BY <1>6, <2>2
  <2> QED BY <2>4, <2>5, <2>6 DEF PutsBack, y, r, e, s, d
<1>12. CASE x.kind = Transformed
  <2>1. PooledPart(x) = x.source \o x.recipe
    BY <1>12 DEF PooledPart
  <2>2. Len(PooledPart(x)) = ls + lr /\ Len(OpaquePart(x)) = 0
    BY <1>9, <1>12 DEF Opaque, Pooled, Transformed
  <2>3. Wanted(y) = ls + lr
    BY <1>6, <1>12 DEF Wanted
  <2>4. /\ SubSeq(pooled, p + 1, p + ls) = x.source
        /\ SubSeq(pooled, p + ls + 1, p + (ls + lr)) = x.recipe
    <3> DEFINE u == x.source
               v == x.recipe
    <3>1. u \in Seq(S) /\ v \in Seq(S)
      BY <1>9
    <3>2. Found(pooled, p, u \o v)
      BY <1>8, <2>1 DEF Found
    <3>3. ls = Len(u) /\ lr = Len(v)
      BY DEF ls, lr
    <3> HIDE DEF u, v
    <3>4. /\ SubSeq(pooled, p + 1, p + Len(u)) = u
          /\ SubSeq(pooled, p + Len(u) + 1, p + (Len(u) + Len(v))) = v
      BY <3>1, <3>2, Halves
    <3> QED BY <3>3, <3>4 DEF u, v
  <2>5. RestoreAs(magic, x.source, x.recipe) = <<q>>
    BY <1>1, <1>12 DEF Restores, q
  <2>6. /\ SubSeq(r.pooled, p + 1, p + y.source) = x.source
        /\ SubSeq(r.pooled, p + y.source + 1, p + Wanted(y)) = x.recipe
    BY <1>6, <1>7, <2>3, <2>4
  <2>7. y.kind = Transformed /\ Regained(magic, r, p, y, q)
    BY <1>4, <1>6, <1>12, <2>5, <2>6 DEF Regained
  <2>8. AddComponent(Added(s, p, o), y, magic, r) = Added(s \o q, p + Wanted(y), o)
    BY <2>7, AddsRestored
  <2>9. p + Wanted(y) = p + Len(PooledPart(x)) /\ o = o + Len(OpaquePart(x))
    BY <2>2, <2>3
  <2> QED BY <1>3, <2>8, <2>9 DEF PutsBack, y, r, e, s, d
<1> QED BY <1>9, <1>10, <1>11, <1>12

\* Where the segments of a plan end: each begins where the one before it does.
Trail(list, g) ==
  /\ g[0] = 0 /\ Cursor(list) = g[Len(list)]
  /\ \A i \in 0 .. Len(list) : g[i] \in Nat
  /\ \A i \in 1 .. Len(list) : /\ g[i] = list[i].e /\ g[i - 1] = list[i].s
                               /\ g[i] = g[i - 1] + Length(list[i])

\* Every plan has such a trail.
LEMMA Trailed ==
  ASSUME NEW C, NEW d \in Seq(C), NEW S, NEW magic, NEW list \in Plans(Proper(d, S, magic))
  PROVE  \E g : Trail(list, g)
<1> DEFINE P == Proper(d, S, magic)
           n == Len(list)
           g == [i \in 0 .. n |-> IF i = 0 THEN 0 ELSE list[i].e]
<1>1. list \in Seq(P) /\ Chained(list) /\ n \in Nat /\ \A i \in 1 .. n : list[i] \in P
  BY DEF Plans
<1>2. \A x \in P : x.s \in Nat /\ x.e \in Nat /\ x.s < x.e
  BY ProperFields
<1>3. \A i \in 1 .. n : list[i].s \in Nat /\ list[i].e \in Nat /\ list[i].s < list[i].e
  BY <1>1, <1>2
<1>4. n = 0 => list = <<>>
  BY <1>1, EmptySeq
<1>5. n # 0 => list # <<>>
  BY <1>1, EmptySeq
<1>6. n = Len(list)
  OBVIOUS
<1> HIDE DEF P, n
<1>7. g[0] = 0 /\ \A i \in 1 .. n : g[i] = list[i].e
  BY <1>1
<1> HIDE DEF g
<1>8. ASSUME NEW i \in 1 .. n PROVE g[i - 1] = list[i].s
  <2>1. CASE i = 1
    <3>1. list # <<>> /\ i - 1 = 0
      BY <1>5, <2>1
    <3>2. list[1].s = 0
      BY <1>1, <3>1 DEF Chained
    <3> QED BY <1>7, <2>1, <3>1, <3>2
  <2>2. CASE i # 1
    <3> DEFINE j == i - 1
    <3>1. j \in 1 .. Len(list) - 1 /\ j + 1 = i /\ j \in 1 .. n
      BY <1>1, <1>6, <2>2
    <3> HIDE DEF j
    <3>2. list[j].e = list[j + 1].s
      BY <1>1, <3>1 DEF Chained
    <3>3. g[j] = list[i].s
      BY <1>7, <3>1, <3>2
    <3> QED BY <3>3 DEF j
  <2> QED BY <2>1, <2>2
<1>9. ASSUME NEW i \in 1 .. n PROVE g[i] = g[i - 1] + Length(list[i])
  <2>1. g[i] = list[i].e /\ g[i - 1] = list[i].s
    BY <1>7, <1>8
  <2> QED BY <1>3, <2>1 DEF Length
<1>10. Cursor(list) = g[n]
  <2>1. CASE n = 0
    BY <1>4, <1>7, <2>1, NoSegments
  <2>2. CASE n # 0
    <3>1. n \in 1 .. n
      BY <1>1, <2>2
    <3> QED BY <1>5, <1>6, <1>7, <2>2, <3>1 DEF Cursor, Last
  <2> QED BY <2>1, <2>2
<1>11. \A i \in 0 .. n : g[i] \in Nat
  <2>1. \A i \in 0 .. n : i = 0 \/ i \in 1 .. n
    BY <1>1
  <2> QED BY <1>3, <1>7, <2>1
<1>12. Trail(list, g)
  BY <1>6, <1>7, <1>8, <1>9, <1>10, <1>11 DEF Trail
<1> QED BY <1>12

\* What the manifest adds up to.
LengthSum(h) == SumOver(LAMBDA x : x.n, h)
OpaqueSum(h) == SumOver(OpaqueWanted, h)
PooledSum(h) == SumOver(Wanted, h)

\* What the manifest says of the regions is how long they are.
LEMMA HeaderSums ==
  ASSUME NEW C, file.data \in Seq(C), NEW S, C \subseteq S, NEW magic,
         NEW list \in Plans(Proper(file.data, S, magic)),
         NEW fo, Frames(C, Opaques(list), fo), NEW fp, Frames(S, Pooleds(list), fp)
  PROVE  /\ LengthSum(Headers(list, Len(list))) = Cursor(list)
         /\ OpaqueSum(Headers(list, Len(list))) = Len(fo[Len(list)])
         /\ PooledSum(Headers(list, Len(list))) = Len(fp[Len(list)])
<1> DEFINE d == file.data
           P == Proper(d, S, magic)
           n == Len(list)
           h == Headers(list, n)
<1>1. n \in Nat /\ list \in Seq(P) /\ DOMAIN list = 1 .. n /\ \A i \in 1 .. n : list[i] \in P
  BY DEF Plans
<1>2. \A i \in 1 .. n : PartsOf(C, S, list[i])
  BY <1>1, Parts
<1>3. PICK g : Trail(list, g)
  BY Trailed
<1>4. n = Len(list)
  OBVIOUS
<1> HIDE DEF n, P
<1>5. DOMAIN h = 1 .. n /\ \A i \in 1 .. n : h[i] = Header(list[i])
  BY DEF Headers
<1> HIDE DEF h
<1>6. \A i \in 1 .. n : Length(list[i]) \in Nat
  BY <1>2 DEF PartsOf
<1>7. LengthSum(h) = g[n]
  <2> DEFINE q == [i \in DOMAIN h |-> h[i].n]
  <2>1. LengthSum(h) = FoldLeft(LAMBDA sum, k : sum + k, 0, q)
    BY DEF LengthSum, SumOver
  <2>2. \A i \in 1 .. n : h[i].n = Length(list[i])
    BY <1>5 DEF Header
  <2>3. q = [i \in 1 .. n |-> h[i].n]
    BY <1>5
  <2> HIDE DEF q
  <2>4. q \in [1 .. n -> Nat] /\ \A i \in 1 .. n : q[i] = Length(list[i])
    BY <1>6, <2>2, <2>3
  <2>5. q \in Seq(Nat) /\ Len(q) = n
    BY <1>1, <2>4
  <2>6. Sums(q, g)
    BY <1>3, <1>4, <2>4, <2>5 DEF Sums, Trail
  <2>7. FoldLeft(LAMBDA sum, k : sum + k, 0, q) = g[Len(q)]
    BY <2>5, <2>6, SumIs
  <2> QED BY <2>1, <2>5, <2>7
<1>8. OpaqueSum(h) = Len(fo[n])
  <2> DEFINE q == [i \in DOMAIN h |-> OpaqueWanted(h[i])]
             z == [i \in 0 .. n |-> Len(fo[i])]
             ss == Opaques(list)
  <2>1. OpaqueSum(h) = FoldLeft(LAMBDA sum, k : sum + k, 0, q)
    BY DEF OpaqueSum, SumOver
  <2>2. Len(ss) = n /\ \A i \in 1 .. n : ss[i] = OpaquePart(list[i])
    BY <1>1 DEF Opaques
  <2> HIDE DEF ss
  <2>3. \A i \in 1 .. n : OpaqueWanted(h[i]) = Len(ss[i]) /\ Len(ss[i]) \in Nat
    <3>1. ASSUME NEW i \in 1 .. n PROVE OpaqueWanted(h[i]) = Len(ss[i]) /\ Len(ss[i]) \in Nat
      <4> DEFINE x == list[i]
      <4>1. h[i] = Header(x) /\ ss[i] = OpaquePart(x) /\ PartsOf(C, S, x)
        BY <1>2, <1>5, <2>2
      <4> HIDE DEF x
      <4>2. h[i].kind = x.kind /\ h[i].n = Length(x)
        BY <4>1 DEF Header
      <4>3. Length(x) \in Nat /\ Len(OpaquePart(x)) = IF x.kind = Opaque THEN Length(x) ELSE 0
        BY <4>1 DEF PartsOf
      <4> QED BY <4>1, <4>2, <4>3 DEF OpaqueWanted
    <3> QED BY <3>1
  <2>4. q = [i \in 1 .. n |-> OpaqueWanted(h[i])]
    BY <1>5
  <2> HIDE DEF q
  <2>5. q \in [1 .. n -> Nat] /\ \A i \in 1 .. n : q[i] = Len(ss[i])
    BY <2>3, <2>4
  <2>6. q \in Seq(Nat) /\ Len(q) = n
    BY <1>1, <2>5
  <2>7. /\ Len(fo[0]) = 0 /\ \A i \in 1 .. n : Len(fo[i]) = Len(fo[i - 1]) + Len(ss[i])
    BY <2>2 DEF Frames, ss
  <2>8. Sums(q, z)
    <3>1. z[0] = 0
      BY <1>1, <2>7
    <3>2. ASSUME NEW i \in 1 .. Len(q) PROVE z[i] = z[i - 1] + q[i]
      <4>1. i \in 1 .. n /\ i \in 0 .. n /\ i - 1 \in 0 .. n
        BY <1>1, <2>6
      <4>2. z[i] = Len(fo[i]) /\ z[i - 1] = Len(fo[i - 1]) /\ q[i] = Len(ss[i])
        BY <2>5, <4>1
      <4> QED BY <2>7, <4>1, <4>2
    <3> HIDE DEF z
    <3> QED BY <3>1, <3>2 DEF Sums
  <2>9. z[n] = Len(fo[n])
    BY <1>1
  <2> HIDE DEF z
  <2>10. FoldLeft(LAMBDA sum, k : sum + k, 0, q) = z[Len(q)]
    BY ZenonT(60), <2>6, <2>8, SumIs
  <2> QED BY <2>1, <2>6, <2>9, <2>10
<1>9. PooledSum(h) = Len(fp[n])
  <2> DEFINE q == [i \in DOMAIN h |-> Wanted(h[i])]
             z == [i \in 0 .. n |-> Len(fp[i])]
             ss == Pooleds(list)
  <2>1. PooledSum(h) = FoldLeft(LAMBDA sum, k : sum + k, 0, q)
    BY DEF PooledSum, SumOver
  <2>2. Len(ss) = n /\ \A i \in 1 .. n : ss[i] = PooledPart(list[i])
    BY <1>1 DEF Pooleds
  <2> HIDE DEF ss
  <2>3. \A i \in 1 .. n : Wanted(h[i]) = Len(ss[i]) /\ Len(ss[i]) \in Nat
    <3>1. ASSUME NEW i \in 1 .. n PROVE Wanted(h[i]) = Len(ss[i]) /\ Len(ss[i]) \in Nat
      <4> DEFINE x == list[i]
      <4>1. h[i] = Header(x) /\ ss[i] = PooledPart(x) /\ PartsOf(C, S, x)
        BY <1>2, <1>5, <2>2
      <4> HIDE DEF x
      <4>2. /\ h[i].kind = x.kind /\ h[i].n = Length(x)
            /\ h[i].source = Len(x.source) /\ h[i].recipe = Len(x.recipe)
        BY <4>1 DEF Header
      <4>3. /\ Length(x) \in Nat /\ Len(x.source) \in Nat /\ Len(x.recipe) \in Nat
            /\ Len(PooledPart(x)) = IF x.kind = Transformed THEN Len(x.source) + Len(x.recipe)
                                    ELSE IF x.kind = Pooled THEN Length(x) ELSE 0
        BY <4>1 DEF PartsOf
      <4> DEFINE a == Length(x)
                 b == Len(x.source)
                 c == Len(x.recipe)
                 y == h[i]
      <4> HIDE DEF a, b, c, y
      <4>4. /\ y.kind = x.kind /\ y.n = a /\ y.source = b /\ y.recipe = c
            /\ a \in Nat /\ b \in Nat /\ c \in Nat
        BY <4>2, <4>3 DEF a, b, c, y
      <4>5. Len(ss[i]) = IF x.kind = Transformed THEN b + c ELSE IF x.kind = Pooled THEN a ELSE 0
        BY <4>1, <4>3 DEF a, b, c
      <4>6. Wanted(y) = IF x.kind = Transformed THEN b + c ELSE IF x.kind = Pooled THEN a ELSE 0
        BY <4>4 DEF Wanted
      <4>7. Wanted(y) = Len(ss[i]) /\ Len(ss[i]) \in Nat
        BY <4>4, <4>5, <4>6
      <4> QED BY <4>7 DEF y
    <3> QED BY <3>1
  <2>4. q = [i \in 1 .. n |-> Wanted(h[i])]
    BY <1>5
  <2> HIDE DEF q
  <2>5. q \in [1 .. n -> Nat] /\ \A i \in 1 .. n : q[i] = Len(ss[i])
    BY <2>3, <2>4
  <2>6. q \in Seq(Nat) /\ Len(q) = n
    BY <1>1, <2>5
  <2>7. /\ Len(fp[0]) = 0 /\ \A i \in 1 .. n : Len(fp[i]) = Len(fp[i - 1]) + Len(ss[i])
    BY <2>2 DEF Frames, ss
  <2>8. Sums(q, z)
    <3>1. z[0] = 0
      BY <1>1, <2>7
    <3>2. ASSUME NEW i \in 1 .. Len(q) PROVE z[i] = z[i - 1] + q[i]
      <4>1. i \in 1 .. n /\ i \in 0 .. n /\ i - 1 \in 0 .. n
        BY <1>1, <2>6
      <4>2. z[i] = Len(fp[i]) /\ z[i - 1] = Len(fp[i - 1]) /\ q[i] = Len(ss[i])
        BY <2>5, <4>1
      <4> QED BY <2>7, <4>1, <4>2
    <3> HIDE DEF z
    <3> QED BY <3>1, <3>2 DEF Sums
  <2>9. z[n] = Len(fp[n])
    BY SMTT(40), <1>1
  <2> HIDE DEF z
  <2>10. FoldLeft(LAMBDA sum, k : sum + k, 0, q) = z[Len(q)]
    BY <2>6, <2>8, SumIs
  <2> QED BY ZenonT(60), <2>1, <2>6, <2>9, <2>10
<1>10. g[n] = Cursor(list)
  BY <1>3, <1>4 DEF Trail
<1> QED BY <1>7, <1>8, <1>9, <1>10 DEF h, n

\* From its headers and regions a whole plan puts the file back.
LEMMA Rebuilt ==
  ASSUME NEW C, file.data \in Seq(C), NEW S, C \subseteq S, NEW magic,
         NEW list \in Plans(Proper(file.data, S, magic)), Cursor(list) = Len(file.data),
         NEW fo, Frames(C, Opaques(list), fo), NEW fp, Frames(S, Pooleds(list), fp)
  PROVE  Rebuild(magic, Headers(list, Len(list)),
                 [opaque |-> fo[Len(list)], pooled |-> fp[Len(list)]]) = <<file.data>>
<1> DEFINE d == file.data
           P == Proper(d, S, magic)
           n == Len(list)
           h == Headers(list, n)
           r == [opaque |-> fo[n], pooled |-> fp[n]]
           start == Added(<<>>, 0, 0)
           fold == FoldLeft(LAMBDA a, x : AddComponent(a, x, magic, r), start, h)
           c == <<magic, r>>
<1>1. n \in Nat /\ list \in Seq(P) /\ DOMAIN list = 1 .. n /\ \A i \in 1 .. n : list[i] \in P
  BY DEF Plans
<1>2. PICK g : Trail(list, g)
  BY Trailed
<1>3. /\ Len(Opaques(list)) = n /\ \A i \in 1 .. n : Opaques(list)[i] = OpaquePart(list[i])
      /\ Len(Pooleds(list)) = n /\ \A i \in 1 .. n : Pooleds(list)[i] = PooledPart(list[i])
  BY <1>1 DEF Opaques, Pooleds
<1>4. h = Headers(list, n) /\ Len(h) = n /\ DOMAIN h = 1 .. n /\ \A i \in 1 .. n : h[i] = Header(list[i])
  BY <1>1 DEF Headers
<1>5. PooledSum(h) = Len(fp[n])
  BY HeaderSums
<1>6. /\ g[0] = 0 /\ g[n] = Len(d)
      /\ \A i \in 0 .. n : g[i] \in Nat
      /\ \A i \in 1 .. n : g[i] = list[i].e /\ g[i - 1] = list[i].s
  BY <1>2 DEF Trail
<1> HIDE DEF h, n, P
<1>7. /\ Len(fo[0]) = 0 /\ \A i \in 0 .. n : fo[i] \in Seq(C) /\ Len(fo[i]) \in Nat
      /\ \A i \in 1 .. n : /\ Len(fo[i]) = Len(fo[i - 1]) + Len(OpaquePart(list[i]))
                           /\ Len(fo[i]) <= Len(fo[n])
                           /\ SubSeq(fo[n], Len(fo[i - 1]) + 1,
                                     Len(fo[i - 1]) + Len(OpaquePart(list[i]))) = OpaquePart(list[i])
  BY <1>3 DEF Frames
<1>8. /\ Len(fp[0]) = 0 /\ \A i \in 0 .. n : fp[i] \in Seq(S) /\ Len(fp[i]) \in Nat
      /\ \A i \in 1 .. n : /\ Len(fp[i]) = Len(fp[i - 1]) + Len(PooledPart(list[i]))
                           /\ Len(fp[i]) <= Len(fp[n])
                           /\ SubSeq(fp[n], Len(fp[i - 1]) + 1,
                                     Len(fp[i - 1]) + Len(PooledPart(list[i]))) = PooledPart(list[i])
  BY <1>3 DEF Frames
<1>9. n \in 0 .. n /\ 0 \in 0 .. n
  BY <1>1
<1>10. fold = Adding!Fold(c, start, h)
  <2>1. c[1] = magic /\ c[2] = r
    OBVIOUS
  <2> HIDE DEF c, r, start
  <2> QED BY <2>1 DEF Adding!Fold, AddStep, FoldLeft, MapThenFoldSet, Max,
                      Adding!FoldLeft, Adding!MapThenFoldSet, Adding!Max
<1>11. c[1] = magic /\ c[2] = r
  OBVIOUS
<1> HIDE DEF c, start, fold
<1>12. PICK k : Adding!Unrolls(c, start, h, k) /\ Adding!Fold(c, start, h) = k[Len(h)]
  <2>1. Len(h) \in Nat /\ DOMAIN h = 1 .. Len(h)
    BY <1>1, <1>4
  <2> QED BY <2>1, Adding!Unrolled
<1>13. k[0] = start /\ \A i \in 1 .. n : k[i] = AddComponent(k[i - 1], h[i], magic, r)
  BY <1>4, <1>11, <1>12 DEF Adding!Unrolls, AddStep
<1> DEFINE At(i) == k[i] = Added(Upto(d, g[i]), Len(fp[i]), Len(fo[i]))
           T == {i \in Nat : i <= n => At(i)}
<1>14. 0 \in T
  <2>1. Upto(d, 0) = <<>>
    <3> DEFINE z == 0
    <3>1. z \in 0 .. Len(d)
      OBVIOUS
    <3>2. z = 0
      OBVIOUS
    <3> HIDE DEF z
    <3>3. Upto(d, z) \in Seq(C) /\ Len(Upto(d, z)) = z
      BY <3>1, UptoType
    <3> QED BY <3>2, <3>3, EmptySeq
  <2>2. At(0)
    BY <1>6, <1>7, <1>8, <1>13, <2>1 DEF start
  <2> QED BY <2>2
<1>15. ASSUME NEW j \in Nat, j \in T PROVE j + 1 \in T
  <2> DEFINE i == j + 1
  <2> SUFFICES ASSUME i <= n PROVE At(i)
    OBVIOUS
  <2>1. i \in 1 .. n /\ i - 1 = j /\ j \in 0 .. n /\ At(j)
    BY <1>1, <1>15
  <2> HIDE DEF i
  <2> DEFINE x == list[i]
             p == Len(fp[j])
             o == Len(fo[j])
             opaque == fo[n]
             pooled == fp[n]
  <2>2. x \in P /\ h[i] = Header(x) /\ g[i] = x.e /\ g[j] = x.s
    BY <1>1, <1>4, <1>6, <2>1
  <2>3. p \in Nat /\ o \in Nat /\ opaque \in Seq(C) /\ pooled \in Seq(S)
    BY <1>7, <1>8, <1>9, <2>1
  <2>4. /\ Len(fo[i]) = o + Len(OpaquePart(x))
        /\ SubSeq(opaque, o + 1, o + Len(OpaquePart(x))) = OpaquePart(x)
    BY <1>7, <2>1
  <2>5. /\ Len(fp[i]) = p + Len(PooledPart(x)) /\ Len(fp[i]) <= Len(pooled)
        /\ SubSeq(pooled, p + 1, p + Len(PooledPart(x))) = PooledPart(x)
    BY <1>8, <2>1
  <2>6. k[j] = Added(Upto(d, x.s), p, o) /\ r = [opaque |-> opaque, pooled |-> pooled]
    BY <2>1, <2>2
  <2>7. k[i] = AddComponent(k[j], Header(x), magic, r)
    BY <1>13, <2>1, <2>2
  <2> HIDE DEF x, p, o, opaque, pooled, r
  <2>8. Stocked(x, p, o, opaque, pooled)
    BY <2>4, <2>5 DEF Stocked
  <2>9. x \in Proper(file.data, S, magic)
    BY <2>2 DEF P
  <2>10. PutsBack(magic, x, p, o, [opaque |-> opaque, pooled |-> pooled])
    BY <2>3, <2>8, <2>9, AddedOne
  <2>11. k[i] = Added(Upto(d, x.e), p + Len(PooledPart(x)), o + Len(OpaquePart(x)))
    BY <2>6, <2>7, <2>10 DEF PutsBack
  <2> QED BY <2>2, <2>4, <2>5, <2>11
<1>16. At(n)
  <2> HIDE DEF T
  <2>1. Nat \subseteq T
    BY <1>14, <1>15, Induction
  <2> QED BY <1>1, <2>1 DEF T
<1>17. Upto(d, g[n]) = d
  BY <1>6, SubSeqFull DEF Upto
<1>18. fold = Added(d, Len(fp[n]), Len(fo[n]))
  BY <1>4, <1>10, <1>12, <1>16, <1>17
<1>19. r.opaque = fo[n] /\ r.pooled = fp[n]
  OBVIOUS
<1> HIDE DEF r, d
<1>20. UsedUp(fold, r) = <<d>>
  <2> DEFINE a == Added(d, Len(fp[n]), Len(fo[n]))
  <2>1. a.ok = TRUE /\ a.p = Len(fp[n]) /\ a.o = Len(fo[n]) /\ a.out = d
    BY DEF Added
  <2>2. fold = a
    BY <1>18
  <2> HIDE DEF a
  <2> QED BY <1>19, <2>1, <2>2 DEF UsedUp
<1>21. Rebuild(magic, h, r) = UsedUp(fold, r)
  BY <1>5, <1>19 DEF Rebuild, PooledSum, fold, start, Added
<1> QED BY <1>20, <1>21 DEF r, d, h, n

(***************************************************************************)
(* Containers                                                              *)
(***************************************************************************)

\* The container of a plan, as it was built.
Built(C, S, magic, list, cells, fm, fo, fp) ==
  /\ Frames(Cells(S), Manifests(list), fm) /\ Frames(C, Opaques(list), fo)
  /\ Frames(S, Pooleds(list), fp) /\ cells \in Seq(Cells(S))
  /\ Laid(cells, <<Magic(magic), Number(Len(file.data)), Number(Len(list))>>,
          fm[Len(list)], fo[Len(list)], Compress(fp[Len(list)]))

\* Build lays out a container as Built says.
LEMMA Builds ==
  ASSUME NEW C, file.data \in Seq(C), NEW S, C \subseteq S,
         NEW magic \in {"AFC3", "AFC4", "AFC6"},
         NEW list \in Seq(Proper(file.data, S, magic))
  PROVE  \E fm, fo, fp : Built(C, S, magic, list, Build(magic, list), fm, fo, fp)
<1> DEFINE d == file.data
           P == Proper(d, S, magic)
           n == Len(list)
           Z == Cells(S)
<1>1. n \in Nat /\ DOMAIN list = 1 .. n /\ \A i \in 1 .. n : list[i] \in P
  OBVIOUS
<1>2. \A i \in 1 .. n : PartsOf(C, S, list[i])
  BY <1>1, Parts
<1> HIDE DEF n, P, Z
<1>3. /\ \A i \in 1 .. n : Manifest(list[i]) \in Seq(Z)
      /\ \A i \in 1 .. n : OpaquePart(list[i]) \in Seq(C)
      /\ \A i \in 1 .. n : PooledPart(list[i]) \in Seq(S)
  BY <1>2 DEF PartsOf, Z
<1>4. Manifests(list) \in Seq(Seq(Z)) /\ Len(Manifests(list)) = n
  <2>1. Manifests(list) = [i \in 1 .. n |-> Manifest(list[i])]
    BY <1>1 DEF Manifests
  <2>2. [i \in 1 .. n |-> Manifest(list[i])] \in [1 .. n -> Seq(Z)]
    BY <1>3
  <2> QED BY <1>1, <2>1, <2>2
<1>5. Opaques(list) \in Seq(Seq(C)) /\ Len(Opaques(list)) = n
  <2>1. Opaques(list) = [i \in 1 .. n |-> OpaquePart(list[i])]
    BY <1>1 DEF Opaques
  <2>2. [i \in 1 .. n |-> OpaquePart(list[i])] \in [1 .. n -> Seq(C)]
    BY <1>3
  <2> QED BY <1>1, <2>1, <2>2
<1>6. Pooleds(list) \in Seq(Seq(S)) /\ Len(Pooleds(list)) = n
  <2>1. Pooleds(list) = [i \in 1 .. n |-> PooledPart(list[i])]
    BY <1>1 DEF Pooleds
  <2>2. [i \in 1 .. n |-> PooledPart(list[i])] \in [1 .. n -> Seq(S)]
    BY <1>3
  <2> QED BY <1>1, <2>1, <2>2
<1>7. PICK fm : Frames(Z, Manifests(list), fm)
  BY <1>4, Framed
<1>8. PICK fo : Frames(C, Opaques(list), fo)
  BY <1>5, Framed
<1>9. PICK fp : Frames(S, Pooleds(list), fp)
  BY <1>6, Framed
<1> DEFINE h == <<Magic(magic), Number(Len(d)), Number(n)>>
           m == fm[n]
           o == fo[n]
           q == Compress(fp[n])
           cells == h \o m \o <<Number(Len(o))>> \o o \o <<Number(Len(q))>> \o q
<1>10. n \in 0 .. n /\ Len(d) \in Nat
  BY <1>1
<1>11. /\ m \in Seq(Z) /\ FlattenSeq(Manifests(list)) = m
  BY <1>4, <1>7, <1>10 DEF Frames
<1>12. /\ o \in Seq(C) /\ Len(o) \in Nat /\ FlattenSeq(Opaques(list)) = o
  BY <1>5, <1>8, <1>10 DEF Frames
<1>13. /\ fp[n] \in Seq(S) /\ FlattenSeq(Pooleds(list)) = fp[n]
  BY <1>6, <1>9, <1>10 DEF Frames
<1>14. q \in Seq(Z) /\ Len(q) \in Nat
  <2>1. [t |-> "engine", of |-> fp[n]] \in Z
    BY <1>13, CellsOf DEF Z
  <2>2. q \in Seq(Z)
    BY <2>1 DEF Compress
  <2> HIDE DEF q
  <2> QED BY <2>2
<1>15. o \in Seq(Z)
  <2>1. \A x \in C : x \in Z
    BY CellsOf DEF Z
  <2> HIDE DEF o
  <2> QED BY <1>12, <2>1
<1>16. h \in Seq(Z) /\ Len(h) = 3
  <2>1. Magic(magic) \in Z /\ Number(Len(d)) \in Z /\ Number(n) \in Z
    BY <1>1, <1>10, CellsOf DEF Z
  <2> QED BY <2>1
<1>17. Number(Len(o)) \in Z /\ Number(Len(q)) \in Z
  <2> HIDE DEF o, q
  <2> QED BY <1>12, <1>14, CellsOf DEF Z
<1>18. Build(magic, list) = cells
  <2>1. /\ Collect(Manifest, list) = m /\ Collect(OpaquePart, list) = o
        /\ Collect(PooledPart, list) = fp[n]
    BY <1>11, <1>12, <1>13 DEF Collect, Manifests, Opaques, Pooleds
  <2> DEFINE ma == Collect(Manifest, list)
             op == Collect(OpaquePart, list)
             po == Collect(PooledPart, list)
  <2>2. Build(magic, list) =
          h \o ma \o <<Number(Len(op))>> \o op \o <<Number(Len(Compress(po)))>> \o Compress(po)
    BY DEF Build, Total, n
  <2> HIDE DEF ma, op, po, h
  <2>3. ma = m /\ op = o /\ po = fp[n]
    BY <2>1 DEF ma, op, po
  <2> QED BY <2>2, <2>3
<1>19. Laid(cells, h, m, o, q) /\ cells \in Seq(Z)
  <2> HIDE DEF h, m, o, q
  <2> QED BY <1>11, <1>14, <1>15, <1>16, <1>17, Laying
<1>20. Built(C, S, magic, list, Build(magic, list), fm, fo, fp)
  <2> HIDE DEF cells
  <2> QED BY <1>7, <1>8, <1>9, <1>18, <1>19 DEF Built, Z, n
<1> QED BY <1>20

\* The engine gives back what it was given.
LEMMA Decompressed ==
  ASSUME NEW S, NEW q \in Seq(S)
  PROVE  Decompress(Compress(q)) = q
<1>1. CASE q = <<>>
  BY <1>1 DEF Compress, Decompress
<1>2. CASE q # <<>>
  <2> DEFINE w == [t |-> "engine", of |-> q]
             z == <<w>>
  <2>1. z # <<>> /\ z[1] = w /\ w.of = q
    OBVIOUS
  <2>2. Compress(q) = z
    BY <1>2 DEF Compress
  <2> HIDE DEF w, z
  <2> QED BY <2>1, <2>2 DEF Decompress
<1> QED BY <1>1, <1>2

\* Where things are in a container.
Places(magic, list, cells, lm, lo, lq) ==
  /\ lm \in Nat /\ lo \in Nat /\ lq \in Nat /\ Len(cells) = 5 + lm + lo + lq
  /\ cells[1].magic = magic /\ cells[2].n = Len(file.data)
  /\ cells[4 + lm].n = lo /\ cells[5 + lm + lo].n = lq

\* A container that was built has them there.
LEMMA PlacesOf ==
  ASSUME NEW C, file.data \in Seq(C), NEW S, C \subseteq S, NEW magic,
         NEW list \in Seq(Proper(file.data, S, magic)),
         NEW cells, NEW fm, NEW fo, NEW fp, Built(C, S, magic, list, cells, fm, fo, fp)
  PROVE  /\ Places(magic, list, cells, Len(fm[Len(list)]), Len(fo[Len(list)]),
                   Len(Compress(fp[Len(list)])))
         /\ fp[Len(list)] \in Seq(S)
<1> DEFINE n == Len(list)
           h == <<Magic(magic), Number(Len(file.data)), Number(n)>>
           q == Compress(fp[n])
<1>1. n \in Nat /\ n \in 0 .. n /\ n = Len(list) /\ DOMAIN list = 1 .. n
  OBVIOUS
<1>2. /\ Len(Manifests(list)) = n /\ Len(Opaques(list)) = n /\ Len(Pooleds(list)) = n
  BY <1>1 DEF Manifests, Opaques, Pooleds
<1>3. h[1].magic = magic /\ h[2].n = Len(file.data)
  BY DEF Magic, Number
<1>4. Laid(cells, h, fm[n], fo[n], q)
  BY DEF Built
<1> HIDE DEF n, h, q
<1>5. Len(fm[n]) \in Nat /\ Len(fo[n]) \in Nat /\ fp[n] \in Seq(S)
  <2>1. Frames(Cells(S), Manifests(list), fm) /\ Frames(C, Opaques(list), fo)
        /\ Frames(S, Pooleds(list), fp)
    BY DEF Built
  <2> QED BY <1>1, <1>2, <2>1 DEF Frames
<1>6. Len(q) \in Nat
  BY <1>5 DEF q, Compress
<1>7. cells[4 + Len(fm[n])].n = Len(fo[n]) /\ cells[5 + Len(fm[n]) + Len(fo[n])].n = Len(q)
  <2>1. /\ cells[4 + Len(fm[n])] = Number(Len(fo[n]))
        /\ cells[5 + Len(fm[n]) + Len(fo[n])] = Number(Len(q))
    BY <1>4 DEF Laid
  <2>2. \A k : Number(k).n = k
    BY DEF Number
  <2> QED BY <2>1, <2>2
<1>8. /\ cells[1].magic = magic /\ cells[2].n = Len(file.data)
      /\ Len(cells) = 5 + Len(fm[n]) + Len(fo[n]) + Len(q)
  BY <1>3, <1>4 DEF Laid
<1> QED BY <1>5, <1>6, <1>7, <1>8 DEF Places, n, q

\* What is not as long as the container it begins like is refused.
LEMMA Damaged ==
  ASSUME NEW C, file.data \in Seq(C), NEW S, C \subseteq S, NEW magic,
         NEW list \in Seq(Proper(file.data, S, magic)),
         NEW cells, NEW fm, NEW fo, NEW fp, Built(C, S, magic, list, cells, fm, fo, fp),
         NEW other, Len(other) \in Nat, Agrees(other, cells)
  PROVE  /\ \/ ReadManifest(other) = Reads(4 + Len(fm[Len(list)]), Headers(list, Len(list)))
            \/ ~ReadManifest(other).ok /\ Len(other) < Len(cells)
         /\ Len(other) # Len(cells) => Decode(other) = <<>>
<1> DEFINE n == Len(list)
           lm == Len(fm[n])
           lo == Len(fo[n])
           lq == Len(Compress(fp[n]))
           l == Len(other)
           m == ReadManifest(other)
<1>1. Places(magic, list, cells, lm, lo, lq)
  BY PlacesOf
<1>2. m = Reads(4 + lm, Headers(list, n)) \/ (~m.ok /\ l < Len(cells))
  <2>1. Frames(Cells(S), Manifests(list), fm)
    BY DEF Built
  <2>2. /\ cells[3] = Number(n) /\ \A k \in 1 .. Len(fm[n]) : cells[3 + k] = fm[n][k]
    <3> DEFINE h == <<Magic(magic), Number(Len(file.data)), Number(n)>>
    <3>1. h[3] = Number(n)
      OBVIOUS
    <3>2. Laid(cells, h, fm[n], fo[n], Compress(fp[n]))
      BY DEF Built
    <3> HIDE DEF h, n
    <3> QED BY <3>1, <3>2 DEF Laid
  <2>3. Len(cells) \in Nat /\ 3 + lm < Len(cells)
    <3> HIDE DEF lm, lo, lq
    <3> QED BY <1>1 DEF Places
  <2> HIDE DEF m
  <2> QED BY <2>1, <2>2, <2>3, ManifestRead DEF m
<1> HIDE DEF lm, lo, lq, n, m
<1>3. l = Len(other) /\ l \in Nat
  OBVIOUS
<1>4. \A k \in Nat \ {0} : k <= l /\ k <= Len(cells) => other[k] = cells[k]
  <2>1. \A k \in Nat \ {0} : k <= l => k \in 1 .. l
    BY <1>3
  <2> QED BY <2>1 DEF Agrees
<1> HIDE DEF l
<1>5. ASSUME l # Len(cells), Fits(other, m) PROVE FALSE
  <2> DEFINE a == 4 + lm
             b == 5 + lm + lo
  <2>1. /\ lm \in Nat /\ lo \in Nat /\ lq \in Nat /\ Len(cells) = b + lq
        /\ cells[a].n = lo /\ cells[b].n = lq
    BY <1>1 DEF Places
  <2>2. a \in Nat \ {0} /\ b \in Nat \ {0} /\ a <= b /\ a + lo + 1 = b
    BY <2>1
  <2>3. m.ok
    BY <1>5 DEF Fits
  <2>4. m.at = a
    BY <1>2, <2>3 DEF Reads
  <2> HIDE DEF a, b
  <2>5. a <= l
    BY <1>3, <1>5, <2>4 DEF Fits
  <2>6. other[a].n = lo
    <3>1. a <= Len(cells)
      BY <2>1, <2>2
    <3> QED BY <1>4, <2>1, <2>2, <2>5, <3>1
  <2>7. b <= l /\ b + other[b].n = l
    BY <1>3, <1>5, <2>2, <2>4, <2>6 DEF Fits
  <2>8. other[b].n = lq
    <3>1. b <= Len(cells)
      BY <2>1, <2>2
    <3> QED BY <1>4, <2>1, <2>2, <2>7, <3>1
  <2> QED BY <1>5, <2>1, <2>7, <2>8
<1>6. l # Len(cells) => Decode(other) = <<>>
  BY <1>5 DEF Decode, DecodeRegions, m
<1> QED BY <1>2, <1>6 DEF m, l, lm, n

\* decompress_afc3, _afc4 and _afc6 give back the file.
LEMMA Decodes ==
  ASSUME NEW C, file.data \in Seq(C), NEW S, C \subseteq S, NEW magic,
         NEW list \in Plans(Proper(file.data, S, magic)), Cursor(list) = Len(file.data),
         NEW cells, NEW fm, NEW fo, NEW fp, Built(C, S, magic, list, cells, fm, fo, fp)
  PROVE  Decode(cells) = <<file.data>>
<1> DEFINE d == file.data
           n == Len(list)
           lm == Len(fm[n])
           lo == Len(fo[n])
           lq == Len(Compress(fp[n]))
           m == ReadManifest(cells)
           h == Headers(list, n)
           a == 4 + lm
           b == 5 + lm + lo
<1>1. list \in Seq(Proper(file.data, S, magic))
  BY DEF Plans
<1>2. Places(magic, list, cells, lm, lo, lq) /\ fp[n] \in Seq(S)
  BY <1>1, PlacesOf
<1> HIDE DEF lm, lo, lq, n
<1>3. /\ lm \in Nat /\ lo \in Nat /\ lq \in Nat /\ Len(cells) = b + lq
      /\ cells[1].magic = magic /\ cells[2].n = Len(d) /\ cells[a].n = lo /\ cells[b].n = lq
  BY <1>2 DEF Places
<1>4. a + lo + 1 = b /\ a + lo + 2 = b + 1 /\ a \in Nat /\ b \in Nat /\ a <= b + lq /\ b <= b + lq
  BY <1>3
<1>5. Len(cells) \in Nat /\ Agrees(cells, cells)
  BY <1>3, <1>4 DEF Agrees
<1>6. m = Reads(a, h)
  <2>1. m = Reads(4 + lm, Headers(list, n)) \/ (~m.ok /\ Len(cells) < Len(cells))
    BY <1>1, <1>5, Damaged DEF lm, n
  <2> HIDE DEF m
  <2> QED BY <1>5, <2>1
<1>7. Frames(C, Opaques(list), fo) /\ Frames(S, Pooleds(list), fp)
  BY DEF Built
<1>8. LengthSum(h) = Len(d) /\ OpaqueSum(h) = lo
  BY <1>7, HeaderSums DEF n, lo
<1> HIDE DEF m, h
<1>9. m.ok = TRUE /\ m.at = a /\ m.list = h
  BY <1>6 DEF Reads
<1> HIDE DEF a, b
<1>10. Fits(cells, m)
  BY <1>3, <1>4, <1>8, <1>9 DEF Fits, LengthSum, OpaqueSum
<1>11. SubSeq(cells, m.at + 1, m.at + cells[m.at].n) = fo[n]
  <2>1. SubSeq(cells, 4 + Len(fm[n]) + 1, 4 + Len(fm[n]) + Len(fo[n])) = fo[n]
    BY DEF Built, Laid, n
  <2> QED BY <1>3, <1>9, <2>1 DEF a, lm, lo
<1>12. Decompress(SubSeq(cells, m.at + cells[m.at].n + 2, Len(cells))) = fp[n]
  <2>1. SubSeq(cells, 5 + Len(fm[n]) + Len(fo[n]) + 1,
               5 + Len(fm[n]) + Len(fo[n]) + Len(Compress(fp[n]))) = Compress(fp[n])
    BY DEF Built, Laid, n
  <2>2. SubSeq(cells, b + 1, b + lq) = Compress(fp[n])
    BY <2>1 DEF b, lm, lo, lq
  <2>3. m.at + cells[m.at].n + 2 = b + 1
    BY <1>3, <1>4, <1>9
  <2> QED BY <1>2, <1>3, <2>2, <2>3, Decompressed
<1>13. Decode(cells) = Rebuild(magic, h, [opaque |-> fo[n], pooled |-> fp[n]])
  <2>1. Decode(cells) = DecodeRegions(cells, m)
    BY DEF Decode, m
  <2>2. DecodeRegions(cells, m) = Rebuild(cells[1].magic, m.list,
          [opaque |-> SubSeq(cells, m.at + 1, m.at + cells[m.at].n),
           pooled |-> Decompress(SubSeq(cells, m.at + cells[m.at].n + 2, Len(cells)))])
    BY <1>10 DEF DecodeRegions
  <2> QED BY <1>3, <1>9, <1>11, <1>12, <2>1, <2>2
<1>14. Rebuild(magic, h, [opaque |-> fo[n], pooled |-> fp[n]]) = <<d>>
  BY <1>7, Rebuilt DEF h, n
<1> QED BY <1>13, <1>14

(***************************************************************************)
(* Containers that were written                                            *)
(***************************************************************************)

\* Cut anywhere, or followed by anything, it is refused.
Guarded(cells) ==
  /\ \A n \in 0 .. Len(cells) - 1 : Decode(SubSeq(cells, 1, n)) = <<>>
  /\ Decode(Append(cells, Pad)) = <<>>

\* A container of a plan of the whole file gives it back, whole, or nothing.
LEMMA Sealed ==
  ASSUME NEW C, file.data \in Seq(C), NEW S, C \subseteq S,
         NEW magic \in {"AFC3", "AFC4", "AFC6"},
         NEW list \in Plans(Proper(file.data, S, magic)), Cursor(list) = Len(file.data)
  PROVE  /\ Build(magic, list)[1].magic = magic
         /\ Decode(Build(magic, list)) = <<file.data>>
         /\ Guarded(Build(magic, list))
<1>1. list \in Seq(Proper(file.data, S, magic))
  BY DEF Plans
<1>2. PICK fm, fo, fp : Built(C, S, magic, list, Build(magic, list), fm, fo, fp)
  BY <1>1, Builds
<1> DEFINE b == Build(magic, list)
<1>3. Built(C, S, magic, list, b, fm, fo, fp)
  BY <1>2
<1> HIDE DEF b
<1>4. Decode(b) = <<file.data>>
  BY <1>3, Decodes
<1>5. b[1].magic = magic
  <2>1. Places(magic, list, b, Len(fm[Len(list)]), Len(fo[Len(list)]),
               Len(Compress(fp[Len(list)])))
    BY <1>1, <1>3, PlacesOf
  <2> QED BY <2>1 DEF Places
<1>6. b \in Seq(Cells(S)) /\ Len(b) \in Nat
  BY <1>3 DEF Built
<1>7. ASSUME NEW other, Len(other) \in Nat, Agrees(other, b), Len(other) # Len(b)
      PROVE  Decode(other) = <<>>
  BY <1>1, <1>3, <1>7, Damaged
<1>8. ASSUME NEW n \in 0 .. Len(b) - 1 PROVE Decode(SubSeq(b, 1, n)) = <<>>
  <2> DEFINE q == Upto(b, n)
  <2>1. n \in 0 .. Len(b) /\ n # Len(b)
    BY <1>6
  <2>2. q \in Seq(Cells(S)) /\ Len(q) = n /\ \A i \in 1 .. n : q[i] = b[i]
    BY <1>6, <2>1, UptoType
  <2> HIDE DEF q
  <2>3. Agrees(q, b)
    BY <2>2 DEF Agrees
  <2>4. Decode(q) = <<>>
    BY <1>7, <2>1, <2>2, <2>3
  <2> QED BY <2>4 DEF q, Upto
<1>9. Decode(Append(b, Pad)) = <<>>
  <2> DEFINE q == Append(b, Pad)
             T == Cells(S) \cup {Pad}
  <2>1. b \in Seq(T) /\ Pad \in T
    BY <1>6
  <2>2. Len(q) = Len(b) + 1 /\ \A i \in 1 .. Len(b) : q[i] = b[i]
    BY <2>1, AppendProperties
  <2> HIDE DEF q
  <2>3. Agrees(q, b)
    <3>1. ASSUME NEW k \in 1 .. Len(q), k <= Len(b) PROVE q[k] = b[k]
      <4>1. k \in 1 .. Len(b)
        BY <1>6, <2>2, <3>1
      <4> QED BY <2>2, <4>1
    <3> QED BY <3>1 DEF Agrees
  <2>4. Len(q) \in Nat /\ Len(q) # Len(b)
    BY <1>6, <2>2
  <2>5. Decode(q) = <<>>
    BY <1>7, <2>3, <2>4
  <2> QED BY <2>5 DEF q
<1> QED BY <1>4, <1>5, <1>8, <1>9 DEF b, Guarded

\* _validate_tiling takes a plan that reaches to the end.
LEMMA Tiled ==
  ASSUME NEW C, file.data \in Seq(C), NEW S, NEW magic,
         NEW list \in Plans(Proper(file.data, S, magic)), list # <<>>,
         Cursor(list) = Len(file.data)
  PROVE  Tiles(list)
<1> DEFINE P == Proper(file.data, S, magic)
           n == Len(list)
<1>1. list \in Seq(P) /\ Chained(list)
  BY DEF Plans
<1>2. n \in Nat /\ \A i \in 1 .. n : list[i] \in P
  BY <1>1
<1>3. \A i \in 1 .. n : list[i].s < list[i].e
  BY <1>2, ProperFields
<1>4. Last(list).e = Total
  BY DEF Cursor, Total
<1> HIDE DEF n, P
<1>5. \A i \in 1 .. n - 1 : i \in 1 .. n
  BY <1>2
<1> QED BY <1>1, <1>3, <1>4, <1>5 DEF Tiles, Chained, n

(***************************************************************************)
(* The inductive invariant                                                 *)
(***************************************************************************)

\* What the streams of a file, or its recipes, may hold.
Stuff(f) == Elements(ToSet(f.data))
\* The container that a transform of f is for.
MagicOf(f) == IF f.format = "pdf" THEN "AFC6" ELSE "AFC4"

\* Untouched segments of f.
Whole(f) == Untouched(f.data, Stuff(f))
\* Segments of a plan of f, in the format f has.
Parted(f) == Proper(f.data, Stuff(f), MagicOf(f))

\* What the parsers made of the file.
Listed(f, inv) ==
  /\ inv \in Seq(f.components)
  /\ f.format = "pdf" => \A i \in 1 .. Len(inv) : inv[i].s < inv[i].e
  /\ f.format = "zip" => \A i \in 1 .. Len(inv) - 1 : inv[i].e <= inv[i + 1].s

\* The plan can go on with the next component.
Ahead(inv, p, list) == p < Len(inv) => Cursor(list) <= inv[p + 1].s

\* How far the segments reach in each phase.
Scanned(f, inv, p, fo) ==
  /\ fo \in Plans(Whole(f))
  /\ f.format = "zip" /\ inv # <<>> => p <= Len(inv) /\ Ahead(inv, p, fo)
  /\ ~(f.format = "zip" /\ inv # <<>>) => Cursor(fo) <= p

\* The scan is over.
Planned(f, fo) == fo \in Plans(Whole(f)) /\ Cursor(fo) = Len(f.data)

\* The plan of AFC3 covers what was found.
Merging(f, fo, sg) ==
  /\ sg \in Plans(Whole(f)) /\ sg # <<>>
  /\ \A i \in 1 .. Len(fo) : Covered(fo[i], sg)

\* The components before p have been planned.
Transforming(f, inv, p, fo) ==
  p <= Len(inv) /\ (f.format = "zip" => Ahead(inv, p, fo))

\* Any plan, of any phase, and the budget of its transforms.
Drawn(f, fo, sg) ==
  /\ fo \in Plans(Parted(f)) /\ sg \in Plans(Parted(f))
  /\ Expanded(fo) <= MaxTransform /\ Expanded(sg) <= MaxTransform
  /\ sg # <<>> => Cursor(sg) = Len(f.data)

\* The container was verified, and cannot be damaged unnoticed.
Vouched(bl, ke) == bl # <<>> => bl[1].magic \in ke /\ Guarded(bl)

\* The invariant of the phases.
Holds(f, inv, ph, p, fo, sg, bl, ke) ==
  /\ f \in Files /\ Listed(f, inv) /\ p \in Nat
  /\ ph \in {"scan", "plan", "direct", "transform", "done"}
  /\ Drawn(f, fo, sg) /\ Vouched(bl, ke)
  /\ ph = "scan" => Scanned(f, inv, p, fo)
  /\ ph = "plan" => Planned(f, fo)
  /\ ph = "direct" => Merging(f, fo, sg)
  /\ ph = "transform" => Transforming(f, inv, p, fo)

CInv == Holds(file, inventory, phase, pos, found, segs, blob, kept)

\* What is assumed of a file.
LEMMA FileOf ==
  ASSUME NEW f \in Files
  PROVE  /\ f.format \in {"pdf", "zip"} /\ f.data \in Seq(ToSet(f.data)) /\ Len(f.data) \in Nat
         /\ \A c \in ToSet(f.data) : Streamed(c)
         /\ ToSet(f.data) \subseteq Stuff(f)
         /\ MagicOf(f) \in {"AFC3", "AFC4", "AFC6"}
         /\ \A c \in f.components :
              /\ c.s \in 0 .. Len(f.data) /\ c.e \in 0 .. Len(f.data) /\ c.s <= c.e
              /\ c.s \in Nat /\ c.e \in Nat /\ c.size \in Nat
<1>1. /\ f.format \in {"pdf", "zip"} /\ f.data \in Seq(ToSet(f.data))
      /\ \A c \in ToSet(f.data) : Streamed(c)
  BY FilesTyped
<1>2. Len(f.data) \in Nat
  BY <1>1
<1>3. ToSet(f.data) \subseteq Stuff(f)
  BY ElementsOf DEF Stuff
<1>4. ASSUME NEW c \in f.components
      PROVE  /\ c.s \in 0 .. Len(f.data) /\ c.e \in 0 .. Len(f.data) /\ c.s <= c.e
             /\ c.s \in Nat /\ c.e \in Nat /\ c.size \in Nat
  <2>1. /\ c \in [s : 0 .. Len(f.data), e : 0 .. Len(f.data),
                  text : BOOLEAN, coded : BOOLEAN, size : Nat]
        /\ c.s <= c.e
    BY FilesTyped
  <2> QED BY <1>2, <2>1
<1> QED BY <1>1, <1>2, <1>3, <1>4 DEF MagicOf

\* The lemmas about plans, for one file.
LEMMA PlansOf ==
  ASSUME NEW f \in Files
  PROVE  /\ Whole(f) \in SUBSET Parted(f) /\ Whole(f) \subseteq Whole(f)
         /\ Whole(f) \subseteq Parted(f) /\ Plans(Whole(f)) \subseteq Plans(Parted(f))
         /\ \A list \in Plans(Parted(f)) : Cursor(list) \in 0 .. Len(f.data)
         /\ \A list \in Plans(Whole(f)) : Expanded(list) = 0
<1>1. f.data \in Seq(ToSet(f.data))
  BY FileOf
<1>2. Whole(f) \subseteq Parted(f)
  BY DEF Whole, Parted, Proper
<1>3. Plans(Whole(f)) \subseteq Plans(Parted(f))
  <2>1. \A list : list \in Seq(Whole(f)) => list \in Seq(Parted(f))
    BY <1>2
  <2> QED BY <2>1 DEF Plans
<1>4. ASSUME NEW list \in Plans(Parted(f)) PROVE Cursor(list) \in 0 .. Len(f.data)
  <2>1. list \in Seq(Proper(f.data, Stuff(f), MagicOf(f)))
    BY DEF Plans, Parted
  <2> QED BY <1>1, <2>1, CursorBounded
<1>5. ASSUME NEW list \in Plans(Whole(f)) PROVE Expanded(list) = 0
  <2>1. list \in Seq(Untouched(f.data, Stuff(f)))
    BY DEF Plans, Whole
  <2> QED BY <2>1, UntouchedExpands
<1> QED BY <1>2, <1>3, <1>4, <1>5

\* Placing a segment of a component behind a plan.
LEMMA SegmentPlaced ==
  ASSUME NEW f \in Files, NEW T \in SUBSET Parted(f), Whole(f) \subseteq T,
         NEW list \in Plans(T), NEW c \in f.components, NEW kind \in {Opaque, Pooled},
         c.s < c.e, Cursor(list) <= c.s
  PROVE  /\ Place(list, Segment(kind, c)) \in Plans(T)
         /\ Cursor(Place(list, Segment(kind, c))) = c.e
         /\ Expanded(Place(list, Segment(kind, c))) = Expanded(list)
<1> DEFINE x == Segment(kind, c)
           d == f.data
           S == Stuff(f)
           magic == MagicOf(f)
<1>1. d \in Seq(ToSet(d)) /\ c.s \in 0 .. Len(d) /\ c.e \in 0 .. Len(d)
  BY FileOf
<1> HIDE DEF x
<1>2. x \in Untouched(d, S) /\ x.s = c.s /\ x.e = c.e /\ x.source = <<>>
  BY <1>1, SegmentUntouched DEF x
<1>3. T \in SUBSET Proper(d, S, magic) /\ Untouched(d, S) \subseteq T
  BY DEF Whole, Parted
<1>4. x \in T /\ Cursor(list) <= x.s
  BY <1>2, <1>3
<1> HIDE DEF d, S, magic
<1>5. /\ Place(list, x) \in Plans(T) /\ Cursor(Place(list, x)) = x.e
      /\ Expanded(Place(list, x)) = Expanded(list) + Len(x.source)
      /\ Expanded(list) \in Nat
  BY <1>1, <1>3, <1>4, Placed
<1>6. Len(x.source) = 0
  BY <1>2
<1> QED BY <1>2, <1>5, <1>6 DEF x

\* Filling up a plan to the end of the file.
LEMMA GapFilled ==
  ASSUME NEW f \in Files, NEW T \in SUBSET Parted(f), Whole(f) \subseteq T,
         NEW list \in Plans(T)
  PROVE  /\ list \o Gap(Cursor(list), Len(f.data)) \in Plans(T)
         /\ Cursor(list \o Gap(Cursor(list), Len(f.data))) = Len(f.data)
         /\ Expanded(list \o Gap(Cursor(list), Len(f.data))) = Expanded(list)
<1>1. f.data \in Seq(ToSet(f.data)) /\ Len(f.data) \in 0 .. Len(f.data)
  BY FileOf
<1>2. /\ T \in SUBSET Proper(f.data, Stuff(f), MagicOf(f))
      /\ Untouched(f.data, Stuff(f)) \subseteq T
  BY DEF Whole, Parted
<1>3. list \in Seq(Proper(f.data, Stuff(f), MagicOf(f)))
  BY <1>2 DEF Plans
<1>4. Cursor(list) <= Len(f.data)
  BY <1>1, <1>3, CursorBounded
<1> QED BY <1>1, <1>2, <1>4, Reached

\* What an invariant state is.
LEMMA Held ==
  ASSUME CInv
  PROVE  /\ file \in Files /\ Listed(file, inventory) /\ pos \in Nat
         /\ phase \in {"scan", "plan", "direct", "transform", "done"}
         /\ Drawn(file, found, segs) /\ Vouched(blob, kept)
         /\ phase = "scan" => Scanned(file, inventory, pos, found)
         /\ phase = "plan" => Planned(file, found)
         /\ phase = "direct" => Merging(file, found, segs)
         /\ phase = "transform" => Transforming(file, inventory, pos, found)
         /\ Whole(file) \in SUBSET Parted(file) /\ Whole(file) \subseteq Whole(file)
         /\ Whole(file) \subseteq Parted(file) /\ MaxTransform \in Nat
         /\ Parted(file) \in SUBSET Parted(file)
         /\ Plans(Whole(file)) \subseteq Plans(Parted(file))
         /\ \A list \in Plans(Whole(file)) : Expanded(list) = 0
         /\ inventory \in Seq(file.components)
         /\ found \in Plans(Parted(file)) /\ segs \in Plans(Parted(file))
  BY PlansOf, LimitsNatural DEF CInv, Holds, Listed, Drawn

\* Before anything was found the invariant holds.
LEMMA Begins ==
  ASSUME Init
  PROVE  CInv
<1>1. file \in Files
  BY DEF Init
<1>2. PICK list \in SeqOf(file.components, MaxComponents) :
        /\ \A i \in 1 .. Len(list) - 1 : list[i].s <= list[i + 1].s
        /\ \/ file.format = "zip" /\ inventory = Directory(list)
           \/ file.format = "pdf" /\ Streams(list) /\ inventory = list
  BY DEF Init
<1>3. list \in Seq(file.components) /\ DOMAIN list = 1 .. Len(list)
  BY DEF SeqOf
<1>4. <<>> \in Seq(file.components) /\ Len(<<>>) = 0
  OBVIOUS
<1>5. Listed(file, inventory)
  <2>1. CASE file.format = "zip" /\ inventory = Directory(list)
    <3>1. CASE inventory = list /\ \A i \in 1 .. Len(list) - 1 : list[i].e <= list[i + 1].s
      BY <1>3, <2>1, <3>1 DEF Listed
    <3>2. CASE inventory = <<>>
      BY <1>4, <2>1, <3>2 DEF Listed
    <3> QED BY <2>1, <3>1, <3>2 DEF Directory
  <2>2. CASE file.format = "pdf" /\ Streams(list) /\ inventory = list
    BY <1>3, <2>2 DEF Listed, Streams
  <2> QED BY <1>2, <2>1, <2>2
<1>6. phase = "scan" /\ pos = 0 /\ found = <<>> /\ segs = <<>> /\ blob = <<>>
  BY DEF Init
<1>7. /\ <<>> \in Plans(Whole(file)) /\ <<>> \in Plans(Parted(file))
      /\ Cursor(<<>>) = 0 /\ Expanded(<<>>) = 0
  BY NoSegments
<1>8. MaxTransform \in Nat
  BY LimitsNatural
<1>9. Drawn(file, found, segs)
  BY <1>6, <1>7, <1>8 DEF Drawn
<1>10. Vouched(blob, kept)
  BY <1>6 DEF Vouched
<1>11. Scanned(file, inventory, pos, found)
  <2>1. found \in Plans(Whole(file)) /\ Cursor(found) <= pos
    BY <1>6, <1>7
  <2>2. pos <= Len(inventory) /\ Ahead(inventory, pos, found)
    <3>1. inventory \in Seq(file.components)
      BY <1>5 DEF Listed
    <3>2. Len(inventory) \in Nat
      BY <3>1
    <3>3. ASSUME 0 < Len(inventory) PROVE 0 <= inventory[0 + 1].s
      <4>1. inventory[0 + 1] \in file.components
        BY <3>1, <3>3
      <4>2. inventory[0 + 1].s \in Nat
        BY <1>1, <4>1, FileOf
      <4> QED BY <4>2
    <3> QED BY <1>6, <1>7, <3>2, <3>3 DEF Ahead
  <2> QED BY <2>1, <2>2 DEF Scanned
<1> QED BY <1>1, <1>5, <1>6, <1>9, <1>10, <1>11 DEF CInv, Holds

\* What is not transformed is opaque or pooled.
LEMMA Preserved ==
  ASSUME NEW c
  PROVE  Preserve(c) \in {Opaque, Pooled}
  BY DEF Preserve, Classify

\* The scan for a stream or a local header keeps it.
LEMMA ScansApart ==
  ASSUME CInv, NEW c \in file.components, ScanStream(c) \/ ScanLocal(c)
  PROVE  CInv'
<1>1. /\ phase = "scan" /\ c.s >= pos /\ pos' = c.e
      /\ UNCHANGED <<file, inventory, phase, segs, blob, kept>>
      /\ found' = IF c.s < c.e /\ Classify(Payload(c)) = Opaque
                    THEN Place(found, Segment(Opaque, c)) ELSE found
  BY DEF ScanStream, ScanLocal, SetApart
<1>2. ~(file.format = "zip" /\ inventory # <<>>)
  BY DEF ScanStream, ScanLocal
<1>3. found \in Plans(Whole(file)) /\ Cursor(found) <= pos
  BY <1>1, <1>2, Held DEF Scanned
<1>4. c.s \in Nat /\ c.e \in Nat /\ c.s <= c.e /\ pos \in Nat /\ Cursor(found) \in Nat
  <2>1. found \in Plans(Parted(file))
    BY Held
  <2>2. Cursor(found) \in 0 .. Len(file.data) /\ Len(file.data) \in Nat
    BY <2>1, Held, PlansOf, FileOf
  <2> QED BY <2>2, Held, FileOf
<1>5. found' \in Plans(Whole(file)) /\ Cursor(found') <= c.e
  <2>1. CASE c.s < c.e /\ Classify(Payload(c)) = Opaque
    <3>1. Cursor(found) <= c.s
      BY <1>1, <1>3, <1>4
    <3> DEFINE l == Place(found, Segment(Opaque, c))
    <3>2. l \in Plans(Whole(file)) /\ Cursor(l) = c.e
      BY <1>3, <2>1, <3>1, Held, SegmentPlaced
    <3>3. found' = l
      BY <1>1, <2>1
    <3> HIDE DEF l
    <3> QED BY <1>4, <3>2, <3>3
  <2>2. CASE ~(c.s < c.e /\ Classify(Payload(c)) = Opaque)
    <3>1. found' = found
      BY <1>1, <2>2
    <3>2. Cursor(found) <= c.e
      BY <1>1, <1>3, <1>4
    <3> QED BY <1>3, <3>1, <3>2
  <2> QED BY <2>1, <2>2
<1>6. Drawn(file, found', segs)
  <2>1. found' \in Plans(Parted(file)) /\ Expanded(found') = 0
    BY <1>5, Held
  <2> QED BY <2>1, Held DEF Drawn
<1>7. Scanned(file, inventory, c.e, found')
  BY <1>2, <1>5 DEF Scanned
<1>8. Holds(file, inventory, phase, c.e, found', segs, blob, kept)
  BY <1>1, <1>4, <1>6, <1>7, Held DEF Holds
<1>9. Holds(file', inventory', phase', pos', found', segs', blob', kept')
  BY <1>1, <1>8
<1> QED BY <1>9 DEF CInv

\* The next component, and how the one after it lies.
LEMMA NextOf ==
  ASSUME CInv, pos < Len(inventory)
  PROVE  /\ inventory[pos + 1] \in file.components /\ pos + 1 \in Nat
         /\ pos + 1 <= Len(inventory) /\ Len(inventory) \in Nat
         /\ file.format = "pdf" => inventory[pos + 1].s < inventory[pos + 1].e
         /\ file.format = "zip" /\ pos + 1 < Len(inventory) =>
              /\ inventory[pos + 1].e <= inventory[pos + 1 + 1].s
              /\ inventory[pos + 1 + 1].s \in Nat
<1>1. inventory \in Seq(file.components) /\ pos \in Nat /\ Listed(file, inventory)
  BY Held
<1>2. Len(inventory) \in Nat /\ pos + 1 \in 1 .. Len(inventory) /\ pos + 1 <= Len(inventory)
  BY <1>1
<1>3. inventory[pos + 1] \in file.components
  BY <1>1, <1>2
<1>4. ASSUME pos + 1 < Len(inventory) PROVE inventory[pos + 1 + 1].s \in Nat
  <2>1. inventory[pos + 1 + 1] \in file.components
    BY <1>1, <1>4
  <2> QED BY <2>1, Held, FileOf
<1>5. ASSUME file.format = "zip", pos + 1 < Len(inventory)
      PROVE  inventory[pos + 1].e <= inventory[pos + 1 + 1].s
  <2>1. pos + 1 \in 1 .. Len(inventory) - 1
    BY <1>1, <1>2, <1>5
  <2> QED BY <1>1, <1>5, <2>1 DEF Listed
<1>6. file.format = "pdf" => inventory[pos + 1].s < inventory[pos + 1].e
  BY <1>1, <1>2 DEF Listed
<1> QED BY <1>1, <1>2, <1>3, <1>4, <1>5, <1>6

\* In a ZIP package the plan goes on from member to member.
LEMMA NextAhead ==
  ASSUME NEW list, Cursor(list) \in Nat, CInv, file.format = "zip", pos < Len(inventory),
         Cursor(list) <= inventory[pos + 1].e
  PROVE  Ahead(inventory, pos + 1, list)
<1> SUFFICES ASSUME pos + 1 < Len(inventory) PROVE Cursor(list) <= inventory[pos + 1 + 1].s
  BY DEF Ahead
<1> DEFINE e == inventory[pos + 1].e
           s == inventory[pos + 1 + 1].s
<1>1. inventory[pos + 1] \in file.components
  BY NextOf
<1>2. e \in Nat
  BY <1>1, Held, FileOf
<1>3. e <= s /\ s \in Nat
  BY NextOf
<1>4. Cursor(list) <= e
  OBVIOUS
<1> HIDE DEF e, s
<1>5. Cursor(list) <= s
  BY <1>2, <1>3, <1>4
<1> QED BY <1>5 DEF s

\* The scan of a member of the directory keeps it: members do not overlap.
LEMMA ScansMember ==
  ASSUME CInv, ScanMember
  PROVE  CInv'
<1> DEFINE c == inventory[pos + 1]
           x == Segment(Preserve(c), c)
<1>1. /\ phase = "scan" /\ file.format = "zip" /\ pos < Len(inventory) /\ pos' = pos + 1
      /\ UNCHANGED <<file, inventory, phase, segs, blob, kept>>
      /\ found' = IF c.s < c.e THEN Place(found, x) ELSE found
  BY DEF ScanMember
<1>2. inventory # <<>>
  <2>1. pos \in Nat /\ Len(<<>>) = 0
    BY Held
  <2> QED BY <1>1, <2>1
<1>3. found \in Plans(Whole(file)) /\ Ahead(inventory, pos, found)
  BY <1>1, <1>2, Held DEF Scanned
<1>4. c \in file.components /\ c.s \in Nat /\ c.e \in Nat /\ c.s <= c.e /\ Cursor(found) <= c.s
  BY <1>1, <1>3, NextOf, Held, FileOf DEF Ahead
<1>5. Preserve(c) \in {Opaque, Pooled}
  BY Preserved
<1> HIDE DEF c
<1>6. Cursor(found) \in Nat
  <2>1. Cursor(found) \in 0 .. Len(file.data) /\ Len(file.data) \in Nat
    BY Held, PlansOf, FileOf
  <2> QED BY <2>1
<1>7. found' \in Plans(Whole(file)) /\ Cursor(found') <= c.e /\ Cursor(found') \in Nat
  <2>1. CASE c.s < c.e
    <3>1. Place(found, x) \in Plans(Whole(file)) /\ Cursor(Place(found, x)) = c.e
      BY <1>3, <1>4, <1>5, <2>1, Held, SegmentPlaced
    <3> HIDE DEF x
    <3> QED BY <1>1, <1>4, <2>1, <3>1
  <2>2. CASE ~(c.s < c.e)
    BY <1>1, <1>3, <1>4, <1>6, <2>2
  <2> QED BY <2>1, <2>2
<1>8. Ahead(inventory, pos + 1, found')
  <2> DEFINE l == found'
  <2>1. Cursor(l) \in Nat /\ Cursor(l) <= inventory[pos + 1].e
    BY <1>7 DEF c
  <2>2. CInv /\ file.format = "zip" /\ pos < Len(inventory)
    BY <1>1
  <2> HIDE DEF l
  <2>3. Ahead(inventory, pos + 1, l)
    BY <2>1, <2>2, NextAhead
  <2> QED BY <2>3 DEF l
<1>9. Drawn(file, found', segs)
  <2>1. found' \in Plans(Parted(file)) /\ Expanded(found') = 0
    BY <1>7, Held
  <2> QED BY <2>1, Held DEF Drawn
<1>10. Scanned(file, inventory, pos + 1, found') /\ pos + 1 \in Nat
  BY <1>1, <1>2, <1>7, <1>8, NextOf DEF Scanned
<1>11. Holds(file, inventory, phase, pos + 1, found', segs, blob, kept)
  BY <1>1, <1>9, <1>10, Held DEF Holds
<1>12. Holds(file', inventory', phase', pos', found', segs', blob', kept')
  BY <1>1, <1>11
<1> QED BY <1>12 DEF CInv

\* The end of a scan fills up the plan.
LEMMA ScanIsOver ==
  ASSUME CInv, ScanEnds
  PROVE  CInv'
<1> DEFINE l == found \o Gap(Cursor(found), Len(file.data))
<1>1. /\ phase = "scan" /\ found' = l /\ phase' = "plan"
      /\ UNCHANGED <<file, inventory, pos, segs, blob, kept>>
  BY DEF ScanEnds, Total
<1>2. found \in Plans(Whole(file))
  BY <1>1, Held DEF Scanned
<1>3. l \in Plans(Whole(file)) /\ Cursor(l) = Len(file.data)
  BY <1>2, Held, GapFilled
<1> HIDE DEF l
<1>4. l \in Plans(Parted(file)) /\ Expanded(l) = 0
  BY <1>3, Held
<1>5. Drawn(file, l, segs)
  BY <1>4, Held DEF Drawn
<1>6. Planned(file, l)
  BY <1>3 DEF Planned
<1>7. Holds(file, inventory, "plan", pos, l, segs, blob, kept)
  BY <1>5, <1>6, Held DEF Holds
<1>8. Holds(file', inventory', phase', pos', found', segs', blob', kept')
  BY <1>1, <1>7
<1> QED BY <1>8 DEF CInv

\* Merging keeps the plan whole and each segment covered.
LEMMA PlansDirect ==
  ASSUME CInv, Plan
  PROVE  CInv'
<1> DEFINE l == MergeAdjacent(found)
           U == Whole(file)
<1>1. /\ phase = "plan" /\ segs' = l
      /\ phase' \in {"direct", "done"}
      /\ phase' = "direct" => Tiles(segs')
      /\ UNCHANGED <<file, inventory, pos, found, blob, kept>>
  BY DEF Plan
<1>2. found \in Plans(U) /\ Cursor(found) = Len(file.data)
  BY <1>1, Held DEF Planned
<1>3. file.data \in Seq(ToSet(file.data))
  BY Held, FileOf
<1>4. /\ l \in Plans(U) /\ Cursor(l) = Cursor(found)
      /\ \A i \in 1 .. Len(found) : Covered(found[i], l)
  BY <1>2, <1>3, Merged DEF Whole
<1> HIDE DEF l
<1>5. phase' = "direct" => l # <<>>
  BY <1>1 DEF Tiles
<1>6. l \in Plans(Parted(file)) /\ Expanded(l) = 0
  BY <1>4, Held
<1>7. Drawn(file, found, l)
  BY <1>2, <1>4, <1>6, Held DEF Drawn
<1>8. phase' = "direct" => Merging(file, found, l)
  BY <1>4, <1>5 DEF Merging
<1>9. Holds(file, inventory, phase', pos, found, l, blob, kept)
  BY <1>1, <1>7, <1>8, Held DEF Holds
<1>10. Holds(file', inventory', phase', pos', found', segs', blob', kept')
  BY <1>1, <1>9
<1> QED BY <1>10 DEF CInv

\* What is written is kept, and cannot be damaged unnoticed.
LEMMA Writes ==
  ASSUME CInv, NEW magic \in {"AFC3", "AFC4", "AFC6"},
         NEW list \in Plans(Proper(file.data, Stuff(file), magic)),
         Cursor(list) = Len(file.data), Write(magic, list)
  PROVE  Vouched(blob', kept')
<1> DEFINE b == Build(magic, list)
<1>1. /\ file.data \in Seq(ToSet(file.data)) /\ ToSet(file.data) \subseteq Stuff(file)
  BY Held, FileOf
<1>2. b[1].magic = magic /\ Decode(b) = <<file.data>> /\ Guarded(b)
  BY <1>1, Sealed
<1>3. blob' = b
  BY DEF Write
<1>4. kept' = IF Decode(blob') = <<file.data>> THEN kept \cup {magic} ELSE kept
  BY DEF Write
<1> HIDE DEF b
<1>5. magic \in kept'
  BY <1>2, <1>3, <1>4
<1>6. Vouched(b, kept')
  BY <1>2, <1>5 DEF Vouched
<1> QED BY <1>3, <1>6

\* Writing AFC3, or not, and starting over for the transforms.
LEMMA WritesDirect ==
  ASSUME CInv, Direct
  PROVE  CInv'
<1>1. /\ phase = "direct" /\ phase' = "transform" /\ found' = <<>> /\ pos' = 0
      /\ Write("AFC3", segs) \/ UNCHANGED <<blob, kept>>
      /\ UNCHANGED <<file, inventory, segs>>
  BY DEF Direct
<1>2. segs \in Plans(Whole(file)) /\ Cursor(segs) = Len(file.data)
  BY <1>1, Held DEF Merging, Drawn
<1>3. Vouched(blob', kept')
  <2>1. CASE Write("AFC3", segs)
    <3>1. segs \in Plans(Proper(file.data, Stuff(file), "AFC3"))
      <4>1. Whole(file) \subseteq Proper(file.data, Stuff(file), "AFC3")
        BY DEF Whole, Proper
      <4>2. \A l : l \in Seq(Whole(file)) => l \in Seq(Proper(file.data, Stuff(file), "AFC3"))
        BY <4>1
      <4> QED BY <1>2, <4>2 DEF Plans
    <3>2. "AFC3" \in {"AFC3", "AFC4", "AFC6"}
      OBVIOUS
    <3> QED BY <1>2, <2>1, <3>1, <3>2, Writes
  <2>2. CASE UNCHANGED <<blob, kept>>
    BY <2>2, Held DEF Vouched
  <2> QED BY <1>1, <2>1, <2>2
<1>4. <<>> \in Plans(Parted(file)) /\ Cursor(<<>>) = 0 /\ Expanded(<<>>) = 0
  BY NoSegments
<1>5. Drawn(file, <<>>, segs)
  BY <1>4, Held DEF Drawn
<1>6. Transforming(file, inventory, 0, <<>>)
  <2>1. inventory \in Seq(file.components) /\ Len(inventory) \in Nat
    <3>1. inventory \in Seq(file.components)
      BY Held
    <3> QED BY <3>1
  <2>2. ASSUME 0 < Len(inventory) PROVE 0 <= inventory[0 + 1].s
    <3>1. inventory[0 + 1] \in file.components
      BY <2>1, <2>2
    <3>2. inventory[0 + 1].s \in Nat
      BY <3>1, Held, FileOf
    <3> QED BY <3>2
  <2> QED BY <1>4, <2>1, <2>2 DEF Transforming, Ahead
<1>7. Holds(file, inventory, "transform", 0, <<>>, segs, blob', kept')
  BY <1>3, <1>5, <1>6, Held DEF Holds
<1>8. Holds(file', inventory', phase', pos', found', segs', blob', kept')
  BY <1>1, <1>7
<1> QED BY <1>8 DEF CInv

\* What a plan expands to is a number.
LEMMA ExpandedOf ==
  ASSUME NEW f \in Files, NEW list \in Plans(Parted(f))
  PROVE  Expanded(list) \in Nat
<1> DEFINE T == Parted(f)
           S == Stuff(f)
<1>1. list \in Seq(T)
  BY DEF Plans
<1>2. f.data \in Seq(ToSet(f.data))
  BY FileOf
<1>3. \A x \in T : HasSource(S, x)
  <2>1. \A x \in Proper(f.data, Stuff(f), MagicOf(f)) : HasSource(Stuff(f), x)
    BY <1>2, ProperFields
  <2> QED BY <2>1 DEF Parted
<1> HIDE DEF T, S
<1>4. /\ SourceSizes(list) \in Seq(Nat)
  BY <1>1, <1>3, SourceSizesType
<1> DEFINE q == SourceSizes(list)
<1> HIDE DEF q
<1>5. q \in Seq(Nat)
  BY <1>4 DEF q
<1>6. PICK h : Sums(q, h) /\ FoldLeft(LAMBDA sum, n : sum + n, 0, q) = h[Len(q)]
  BY <1>5, Summed
<1>7. Len(q) \in 0 .. Len(q)
  BY <1>5
<1>8. h[Len(q)] \in Nat
  BY <1>5, <1>6, <1>7, SumsAgree
<1> QED BY <1>6, <1>8, ExpandedIs DEF q

\* A transform of a component, where its limit was max.
Transformable(f, c, max, u) ==
  /\ u.source \in Seq(Stuff(f)) /\ u.source # <<>> /\ Len(u.source) <= max
  /\ u.recipe \in Seq(Stuff(f)) /\ u.recipe # <<>>
  /\ RestoreAs(MagicOf(f), u.source, u.recipe) = <<Part(f.data, c)>>

\* Placing a transform costs no more of the budget than its limit.
LEMMA TransformPlaced ==
  ASSUME NEW f \in Files, NEW list \in Plans(Parted(f)), NEW c \in f.components,
         c.s < c.e, Cursor(list) <= c.s,
         NEW max \in Nat, NEW u, Transformable(f, c, max, u)
  PROVE  /\ Place(list, TransformedSegment(c, u)) \in Plans(Parted(f))
         /\ Cursor(Place(list, TransformedSegment(c, u))) = c.e
         /\ Expanded(Place(list, TransformedSegment(c, u))) <= Expanded(list) + max
<1> DEFINE x == TransformedSegment(c, u)
           d == f.data
           C == ToSet(d)
           magic == MagicOf(f)
           T == Proper(d, Elements(C), magic)
<1>1. d \in Seq(C) /\ c.s \in 0 .. Len(d) /\ c.e \in 0 .. Len(d)
  BY FileOf
<1>2. /\ u.source \in Seq(Elements(C)) /\ u.source # <<>> /\ Len(u.source) <= max
      /\ u.recipe \in Seq(Elements(C)) /\ u.recipe # <<>>
      /\ RestoreAs(magic, u.source, u.recipe) = <<Part(d, c)>>
  BY DEF Transformable, Stuff
<1> HIDE DEF x, d, C, magic
<1>3. x \in T /\ x.s = c.s /\ x.e = c.e /\ x.source = u.source
  BY <1>1, <1>2, TransformedProper DEF x
<1>4. Parted(f) = T
  BY DEF Parted, Stuff, d, C, magic
<1>5. list \in Plans(T) /\ Untouched(d, Elements(C)) \subseteq T /\ T \in SUBSET T
  BY <1>4 DEF Proper
<1>6. Cursor(list) <= x.s
  BY <1>3
<1>7. /\ Place(list, x) \in Plans(T) /\ Cursor(Place(list, x)) = x.e
      /\ Expanded(Place(list, x)) = Expanded(list) + Len(x.source)
      /\ Expanded(list) \in Nat /\ Len(x.source) \in Nat
  BY <1>1, <1>3, <1>5, <1>6, Placed DEF T
<1>8. Expanded(Place(list, x)) <= Expanded(list) + max
  BY <1>2, <1>3, <1>7
<1> QED BY <1>3, <1>4, <1>7, <1>8 DEF x

\* The bytes of a component are cells of the file.
LEMMA PayloadOf ==
  ASSUME file \in Files, NEW c \in file.components
  PROVE  /\ Payload(c) = Part(file.data, c) /\ Payload(c) \in Seq(ToSet(file.data))
<1>1. /\ file.data \in Seq(ToSet(file.data)) /\ c.s \in Nat /\ c.e \in Nat
      /\ c.s <= c.e /\ c.e <= Len(file.data)
  <2>1. c.e \in 0 .. Len(file.data) /\ Len(file.data) \in Nat
    BY FileOf
  <2> QED BY <2>1, FileOf
<1>2. Part(file.data, c) \in Seq(ToSet(file.data))
  BY <1>1, PartType
<1> QED BY <1>2 DEF Payload, Part

\* A member is transformed by its declared size, which the budget has.
LEMMA MemberTransformable ==
  ASSUME file \in Files, file.format = "zip", NEW c \in file.components,
         NEW u \in MemberTransforms(c)
  PROVE  Transformable(file, c, c.size, u) /\ Expanded(found) + c.size <= MaxTransform
<1>1. /\ Expanded(found) + c.size <= MaxTransform
      /\ u \in Transform(Payload(c), c.size) /\ u.source # <<>>
  BY DEF MemberTransforms
<1> DEFINE C == ToSet(file.data)
           raw == Payload(c)
           max == c.size
<1>2. /\ \A e \in C : Streamed(e)
  BY FileOf
<1>3. raw \in Seq(C) /\ max \in Nat /\ raw = Part(file.data, c)
  BY PayloadOf, FileOf
<1>4. u \in Transform(raw, max)
  BY <1>1
<1> HIDE DEF C, raw, max
<1>5. /\ u.source \in Seq(Elements(C)) /\ Len(u.source) <= max
      /\ u.recipe \in Seq(Elements(C)) /\ u.recipe # <<>>
      /\ Restore(u.source, u.recipe) = <<raw>>
  BY SMTT(40), <1>2, <1>3, <1>4, Transforms
<1>6. RestoreAs(MagicOf(file), u.source, u.recipe) = Restore(u.source, u.recipe)
  BY DEF MagicOf, RestoreAs
<1>7. RestoreAs(MagicOf(file), u.source, u.recipe) = <<Part(file.data, c)>>
  BY <1>3, <1>5, <1>6
<1> QED BY <1>1, <1>5, <1>7 DEF Transformable, Stuff, C, max

\* A stream is transformed within what is left of the budget.
LEMMA StreamTransformable ==
  ASSUME file \in Files, file.format = "pdf", NEW c \in file.components,
         Expanded(found) \in Nat, NEW u \in StreamTransforms(c)
  PROVE  /\ Transformable(file, c, MaxTransform - Expanded(found), u)
         /\ MaxTransform - Expanded(found) \in Nat
<1>1. /\ Expanded(found) < MaxTransform /\ u.source # <<>>
      /\ u \in TransformZlib(Payload(c), MaxTransform - Expanded(found))
  BY DEF StreamTransforms
<1> DEFINE C == ToSet(file.data)
           raw == Payload(c)
           max == MaxTransform - Expanded(found)
<1>2. /\ \A e \in C : Streamed(e)
  BY FileOf
<1>3. raw \in Seq(C) /\ raw = Part(file.data, c)
  BY PayloadOf
<1>4. max \in Nat
  BY <1>1, LimitsNatural
<1>5. u \in TransformZlib(raw, max)
  BY <1>1
<1> HIDE DEF C, raw, max
<1>6. /\ u.source \in Seq(Elements(C)) /\ Len(u.source) <= max
      /\ u.recipe \in Seq(Elements(C)) /\ u.recipe # <<>>
      /\ RestoreZlib(u.source, u.recipe) = <<raw>>
  BY <1>2, <1>3, <1>4, <1>5, TransformsZlib
<1>7. RestoreAs(MagicOf(file), u.source, u.recipe) = RestoreZlib(u.source, u.recipe)
  BY DEF MagicOf, RestoreAs
<1>8. RestoreAs(MagicOf(file), u.source, u.recipe) = <<Part(file.data, c)>>
  BY <1>3, <1>6, <1>7
<1> QED BY <1>1, <1>4, <1>6, <1>8 DEF Transformable, Stuff, C, max

\* Planning a member for AFC4 keeps the invariant.
LEMMA TransformsMember ==
  ASSUME CInv, TransformMember
  PROVE  CInv'
<1> DEFINE c == inventory[pos + 1]
           T == Parted(file)
           x == Segment(Preserve(c), c)
<1>1. /\ phase = "transform" /\ file.format = "zip" /\ pos < Len(inventory) /\ pos' = pos + 1
      /\ UNCHANGED <<file, inventory, phase, segs, blob, kept>>
      /\ \/ c.e <= c.s /\ UNCHANGED found
         \/ c.s < c.e /\ found' = Place(found, x)
         \/ /\ c.s < c.e
            /\ \E u \in MemberTransforms(c) : found' = Place(found, TransformedSegment(c, u))
  BY DEF TransformMember, NextComponent
<1>2. Ahead(inventory, pos, found) /\ found \in Plans(T)
  BY <1>1, Held DEF Transforming
<1>3. c \in file.components /\ c.s \in Nat /\ c.e \in Nat /\ c.s <= c.e /\ Cursor(found) <= c.s
      /\ c.size \in Nat
  BY <1>1, <1>2, NextOf, Held, FileOf DEF Ahead
<1>4. Preserve(c) \in {Opaque, Pooled}
  BY Preserved
<1>5. Cursor(found) \in Nat
  <2>1. Cursor(found) \in 0 .. Len(file.data) /\ Len(file.data) \in Nat
    BY Held, PlansOf, FileOf
  <2> QED BY <2>1
<1>6. Expanded(found) <= MaxTransform
  BY Held DEF Drawn
<1> DEFINE Fine(l) == /\ l \in Plans(T) /\ Cursor(l) <= c.e /\ Cursor(l) \in Nat
                      /\ Expanded(l) <= MaxTransform
<1> HIDE DEF c, T
<1>7. Fine(found')
  <2>1. CASE UNCHANGED found
    BY <1>2, <1>3, <1>5, <1>6, <2>1
  <2>2. CASE c.s < c.e /\ found' = Place(found, x)
    <3>1. Place(found, x) \in Plans(T) /\ Cursor(Place(found, x)) = c.e
          /\ Expanded(Place(found, x)) = Expanded(found)
      BY <1>2, <1>3, <1>4, <2>2, Held, SegmentPlaced DEF T
    <3> HIDE DEF x
    <3> QED BY <1>3, <1>6, <2>2, <3>1
  <2>3. CASE /\ c.s < c.e
             /\ \E u \in MemberTransforms(c) : found' = Place(found, TransformedSegment(c, u))
    <3>1. PICK u \in MemberTransforms(c) : found' = Place(found, TransformedSegment(c, u))
      BY <2>3
    <3>2. Transformable(file, c, c.size, u) /\ Expanded(found) + c.size <= MaxTransform
      BY <1>1, <1>3, Held, MemberTransformable
    <3> DEFINE l == Place(found, TransformedSegment(c, u))
    <3>3. l \in Plans(T) /\ Cursor(l) = c.e /\ Expanded(l) <= Expanded(found) + c.size
      BY <1>2, <1>3, <2>3, <3>2, Held, TransformPlaced DEF T
    <3>4. Expanded(l) \in Nat /\ Expanded(found) \in Nat
      BY <1>2, <3>3, Held, ExpandedOf DEF T
    <3>5. found' = l
      BY <3>1
    <3> HIDE DEF l
    <3>6. Expanded(l) <= MaxTransform
      BY <1>3, <3>2, <3>3, <3>4, LimitsNatural
    <3> QED BY <1>3, <3>3, <3>5, <3>6
  <2> QED BY <1>1, <2>1, <2>2, <2>3
<1>8. Ahead(inventory, pos + 1, found')
  <2> DEFINE l == found'
  <2>1. Cursor(l) \in Nat /\ Cursor(l) <= inventory[pos + 1].e
    BY <1>7 DEF c
  <2>2. CInv /\ file.format = "zip" /\ pos < Len(inventory)
    BY <1>1
  <2> HIDE DEF l
  <2>3. Ahead(inventory, pos + 1, l)
    BY <2>1, <2>2, NextAhead
  <2> QED BY <2>3 DEF l
<1>9. Drawn(file, found', segs)
  BY <1>7, Held DEF Drawn, T
<1>10. Transforming(file, inventory, pos + 1, found') /\ pos + 1 \in Nat
  BY <1>1, <1>8, NextOf DEF Transforming
<1>11. Holds(file, inventory, phase, pos + 1, found', segs, blob, kept)
  BY <1>1, <1>9, <1>10, Held DEF Holds
<1>12. Holds(file', inventory', phase', pos', found', segs', blob', kept')
  BY <1>1, <1>11
<1> QED BY <1>12 DEF CInv

\* Planning a stream for AFC6 keeps it.
LEMMA TransformsStream ==
  ASSUME CInv, TransformStream
  PROVE  CInv'
<1> DEFINE c == inventory[pos + 1]
           T == Parted(file)
           x == Segment(Preserve(c), c)
<1>1. /\ phase = "transform" /\ file.format = "pdf" /\ pos < Len(inventory) /\ pos' = pos + 1
      /\ c.s >= Cursor(found) /\ phase' \in {"transform", "done"}
      /\ UNCHANGED <<file, inventory, segs, blob, kept>>
      /\ \/ found' = Place(found, x)
         \/ \E u \in StreamTransforms(c) : found' = Place(found, TransformedSegment(c, u))
  BY DEF TransformStream, NextComponent
<1>2. found \in Plans(T)
  BY Held
<1>3. c \in file.components /\ c.s \in Nat /\ c.e \in Nat /\ c.s < c.e
  BY <1>1, NextOf, Held, FileOf
<1>4. Preserve(c) \in {Opaque, Pooled}
  BY Preserved
<1>5. Cursor(found) \in Nat
  <2>1. Cursor(found) \in 0 .. Len(file.data) /\ Len(file.data) \in Nat
    BY Held, PlansOf, FileOf
  <2> QED BY <2>1
<1>6. Expanded(found) <= MaxTransform /\ Expanded(found) \in Nat /\ MaxTransform \in Nat
  BY Held, ExpandedOf DEF Drawn
<1> HIDE DEF c, T
<1>7. Cursor(found) <= c.s
  BY <1>1, <1>3, <1>5
<1>8. found' \in Plans(T) /\ Expanded(found') <= MaxTransform
  <2>1. CASE found' = Place(found, x)
    <3>1. Place(found, x) \in Plans(T) /\ Expanded(Place(found, x)) = Expanded(found)
      BY <1>2, <1>3, <1>4, <1>7, Held, SegmentPlaced DEF T
    <3> HIDE DEF x
    <3> QED BY <1>6, <2>1, <3>1
  <2>2. CASE \E u \in StreamTransforms(c) : found' = Place(found, TransformedSegment(c, u))
    <3>1. PICK u \in StreamTransforms(c) : found' = Place(found, TransformedSegment(c, u))
      BY <2>2
    <3> DEFINE max == MaxTransform - Expanded(found)
               l == Place(found, TransformedSegment(c, u))
    <3>2. Transformable(file, c, max, u) /\ max \in Nat
      BY <1>1, <1>3, <1>6, Held, StreamTransformable
    <3> HIDE DEF max
    <3>3. l \in Plans(T) /\ Expanded(l) <= Expanded(found) + max
      BY <1>2, <1>3, <1>7, <3>2, Held, TransformPlaced DEF T
    <3>4. Expanded(l) \in Nat
      BY <3>3, Held, ExpandedOf DEF T
    <3>5. found' = l
      BY <3>1
    <3> HIDE DEF l
    <3>6. Expanded(l) <= MaxTransform
      BY <1>6, <3>3, <3>4 DEF max
    <3> QED BY <3>3, <3>5, <3>6
  <2> QED BY <1>1, <2>1, <2>2
<1>9. Drawn(file, found', segs)
  BY <1>8, Held DEF Drawn, T
<1>10. Transforming(file, inventory, pos + 1, found') /\ pos + 1 \in Nat
  BY <1>1, NextOf DEF Transforming
<1>11. Holds(file, inventory, phase', pos + 1, found', segs, blob, kept)
  BY <1>1, <1>9, <1>10, Held DEF Holds
<1>12. Holds(file', inventory', phase', pos', found', segs', blob', kept')
  BY <1>1, <1>11
<1> QED BY <1>12 DEF CInv

\* Giving up on AFC6 keeps it.
LEMMA Overlaps ==
  ASSUME CInv, StreamsOverlap
  PROVE  CInv'
<1>1. phase' = "done" /\ UNCHANGED <<file, inventory, pos, found, segs, blob, kept>>
  BY DEF StreamsOverlap
<1>2. Holds(file, inventory, "done", pos, found, segs, blob, kept)
  BY Held DEF Holds
<1>3. Holds(file', inventory', phase', pos', found', segs', blob', kept')
  BY <1>1, <1>2
<1> QED BY <1>3 DEF CInv

\* Writing AFC4 or AFC6, or not, keeps it.
LEMMA TransformsOver ==
  ASSUME CInv, TransformEnds
  PROVE  CInv'
<1> DEFINE l == found \o Gap(Cursor(found), Len(file.data))
           magic == MagicOf(file)
<1>1. /\ phase' = "done" /\ UNCHANGED <<file, inventory, pos, found>>
      /\ \/ segs' = l /\ (Write(magic, l) \/ UNCHANGED <<blob, kept>>)
         \/ UNCHANGED <<segs, blob, kept>>
  <2>1. /\ phase' = "done" /\ UNCHANGED <<file, inventory, pos, found>>
        /\ IF OfKind(Transformed, found) # <<>>
             THEN segs' = l /\ IF Tiles(l) THEN Write(magic, l) ELSE UNCHANGED <<blob, kept>>
             ELSE UNCHANGED <<segs, blob, kept>>
    BY DEF TransformEnds, Total, MagicOf
  <2> HIDE DEF l, magic
  <2> QED BY <2>1
<1>2. l \in Plans(Parted(file)) /\ Cursor(l) = Len(file.data) /\ Expanded(l) = Expanded(found)
  BY Held, GapFilled
<1> HIDE DEF l
<1>3. Drawn(file, found, l)
  BY <1>2, Held DEF Drawn
<1>4. CASE segs' = l /\ Write(magic, l)
  <2>1. magic \in {"AFC3", "AFC4", "AFC6"}
    BY Held, FileOf
  <2>2. l \in Plans(Proper(file.data, Stuff(file), magic))
    BY <1>2 DEF Parted
  <2> HIDE DEF magic
  <2>3. Vouched(blob', kept')
    BY <1>2, <1>4, <2>1, <2>2, Writes
  <2>4. Holds(file, inventory, "done", pos, found, l, blob', kept')
    BY <1>3, <2>3, Held DEF Holds
  <2>5. Holds(file', inventory', phase', pos', found', segs', blob', kept')
    BY <1>1, <1>4, <2>4
  <2> QED BY <2>5 DEF CInv
<1>5. CASE segs' = l /\ UNCHANGED <<blob, kept>>
  <2>1. Holds(file, inventory, "done", pos, found, l, blob, kept)
    BY <1>3, Held DEF Holds
  <2>2. Holds(file', inventory', phase', pos', found', segs', blob', kept')
    BY <1>1, <1>5, <2>1
  <2> QED BY <2>2 DEF CInv
<1>6. CASE UNCHANGED <<segs, blob, kept>>
  <2>1. Holds(file, inventory, "done", pos, found, segs, blob, kept)
    BY Held DEF Holds
  <2>2. Holds(file', inventory', phase', pos', found', segs', blob', kept')
    BY <1>1, <1>6, <2>1
  <2> QED BY <2>2 DEF CInv
<1> QED BY <1>1, <1>4, <1>5, <1>6

\* Each operation keeps the invariant.
LEMMA Goes ==
  ASSUME CInv, [Next]_vars
  PROVE  CInv'
<1>1. CASE \E c \in file.components : ScanStream(c) \/ ScanLocal(c)
  BY <1>1, ScansApart
<1>2. CASE ScanMember
  BY <1>2, ScansMember
<1>3. CASE ScanEnds
  BY <1>3, ScanIsOver
<1>4. CASE Plan
  BY <1>4, PlansDirect
<1>5. CASE Direct
  BY <1>5, WritesDirect
<1>6. CASE TransformMember
  BY <1>6, TransformsMember
<1>7. CASE TransformStream
  BY <1>7, TransformsStream
<1>8. CASE StreamsOverlap
  BY <1>8, Overlaps
<1>9. CASE TransformEnds
  BY <1>9, TransformsOver
<1>10. CASE UNCHANGED vars
  BY <1>10 DEF vars, CInv
<1> QED
  BY <1>1, <1>2, <1>3, <1>4, <1>5, <1>6, <1>7, <1>8, <1>9, <1>10 DEF Next

\* Whatever the parsers find, every plan is a chain of segments that the next component
\* fits behind, each transform restores its bytes within the budget, and the container
\* written last was verified and cannot be damaged unnoticed.
THEOREM PlansHold == Spec => []CInv
<1>1. Init => CInv
  BY Begins
<1>2. CInv /\ [Next]_vars => CInv'
  BY Goes
<1> QED
  BY <1>1, <1>2, PTL DEF Spec

\* A stream that could be read to its end is restored, or restore raises.
LEMMA Recovers ==
  ASSUME CInv
  PROVE  RecipesExact
<1> DEFINE raw == Payload(NextComponent)
           C == ToSet(file.data)
           z == Read(raw, MaxTransform)
<1> SUFFICES ASSUME phase = "transform", pos < Len(inventory), z.mode = "trailing",
                    ShortRest(z.rest)
             PROVE  Restore(z.plain, Recipe(z)) = IF StoredAtBytes(raw) THEN <<raw>> ELSE <<>>
  BY DEF RecipesExact
<1>1. NextComponent \in file.components /\ file \in Files
  BY Held, NextOf DEF NextComponent
<1>2. raw \in Seq(C)
  BY <1>1, PayloadOf
<1>3. \A c \in C : Streamed(c)
  BY <1>1, FileOf
<1>4. MaxTransform \in Nat
  BY LimitsNatural
<1>5. z = Read(raw, MaxTransform) /\ z.mode = "trailing" /\ ShortRest(z.rest)
  OBVIOUS
<1> HIDE DEF raw, C, z
<1> QED BY <1>2, <1>3, <1>4, <1>5, Rewritten, Refuses

\* The invariant leaves none of the checks on the way anything to refuse.
LEMMA Kept ==
  ASSUME CInv
  PROVE  LosslessOrRefused
<1>1. PlansTile
  <2> SUFFICES ASSUME segs # <<>> PROVE Tiles(segs)
    BY DEF PlansTile
  <2>1. /\ file.data \in Seq(ToSet(file.data)) /\ Cursor(segs) = Len(file.data)
        /\ segs \in Plans(Proper(file.data, Stuff(file), MagicOf(file)))
    BY Held, FileOf DEF Drawn, Parted
  <2> QED BY <2>1, Tiled
<1>2. ContainersExact /\ DamageRefused
  BY Held DEF Vouched, Guarded, ContainersExact, DamageRefused
<1> QED BY <1>1, <1>2, Recovers DEF LosslessOrRefused

\* It says what reaches the engine.
LEMMA Fed ==
  ASSUME CInv
  PROVE  EngineInput
<1>1. Expanded(found) <= MaxTransform /\ Expanded(segs) <= MaxTransform
  BY Held DEF Drawn
<1>2. ASSUME phase = "direct", NEW i \in DOMAIN found
      PROVE  (found[i].kind = Opaque /\ Length(found[i]) < MinSegment) \/ Within(found[i], segs)
  <2>1. DOMAIN found = 1 .. Len(found)
    <3>1. found \in Seq(Parted(file))
      BY Held DEF Plans
    <3> QED BY <3>1
  <2>2. Covered(found[i], segs)
    BY <1>2, <2>1, Held DEF Merging
  <2> QED BY <2>2 DEF Covered, Slight
<1> QED BY <1>1, <1>2 DEF EngineInput

\* compress_container never loses a byte: for every file, every finding of the parsers and
\* every limit, plans tile the file, containers give back what they were made from, a stream
\* is restored from its recipe if its stored blocks begin a byte and refused before it is
\* written if not, and a container that was cut or lengthened is refused.
THEOREM NothingLost == Spec => []LosslessOrRefused
<1>1. CInv => LosslessOrRefused
  BY Kept
<1> QED
  BY <1>1, PlansHold, PTL

\* Merging never hands the engine what it cannot compress, unless it is too small to set
\* apart, and the transforms of a file never expand to more than the budget.
THEOREM EngineFed == Spec => []EngineInput
<1>1. CInv => EngineInput
  BY Fed
<1> QED
  BY <1>1, PlansHold, PTL

=============================================================================
