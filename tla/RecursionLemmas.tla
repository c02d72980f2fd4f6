--------------------------- MODULE RecursionLemmas ---------------------------
(***************************************************************************)
(* Induction and recursion over the natural numbers, in the form the       *)
(* provers can use: a set of numbers in place of a predicate, and a        *)
(* function of step functions in place of an operator.  On them rests what *)
(* the models' recursive functions return, and what their folds do element *)
(* by element.                                                             *)
(***************************************************************************)
EXTENDS Integers, Sequences, FiniteSets, SequencesExt, TLAPS, SequenceTheorems,
        FiniteSetTheorems, WellFoundedInduction

\* Numbers that are not none have a least one.
LEMMA LeastNumber ==
  ASSUME NEW S \in SUBSET Nat, S # {}
  PROVE  \E m \in S : \A n \in S : m <= n
<1> DEFINE R == OpToRel(<, Nat)
<1>1. PICK m \in S : \A n \in S : ~ (<<n, m>> \in R)
  <2>1. IsWellFoundedOn(R, Nat)
    BY NatLessThanWellFounded
  <2> HIDE DEF R
  <2> QED
    BY <2>1, WFMin
<1>2. \A n \in S : ~(n < m)
  BY <1>1 DEF OpToRel
<1> QED
  BY <1>2

LEMMA GreatestNumber ==
  ASSUME NEW n \in Nat, NEW S \in SUBSET (0 .. n), S # {}
  PROVE  \E m \in S : \A k \in S : k <= m
<1> DEFINE T == {j \in Nat : n - j \in S}
<1>1. T \in SUBSET Nat /\ T # {}
  <2>1. PICK k \in S : TRUE
    OBVIOUS
  <2>2. n - k \in Nat /\ n - (n - k) = k
    BY <2>1
  <2> QED
    BY <2>1, <2>2
<1>2. PICK j \in T : \A i \in T : j <= i
  <2> HIDE DEF T
  <2> QED BY <1>1, LeastNumber
<1>3. n - j \in S /\ j \in Nat
  OBVIOUS
<1>4. ASSUME NEW k \in S PROVE k <= n - j
  <2>1. k \in Nat /\ n - k \in Nat /\ n - (n - k) = k
    OBVIOUS
  <2>2. n - k \in T
    BY <2>1
  <2> HIDE DEF T
  <2>3. j <= n - k
    BY <1>2, <2>2
  <2> QED BY <1>3, <2>1, <2>3
<1> QED
  BY <1>3, <1>4

\* What holds of 0, and of n + 1 whenever of n, holds of every number.
LEMMA Induction ==
  ASSUME NEW S, 0 \in S, \A n \in Nat : n \in S => n + 1 \in S
  PROVE  Nat \subseteq S
<1> SUFFICES ASSUME Nat \ S # {} PROVE FALSE
  OBVIOUS
<1>1. PICK m \in Nat \ S : \A n \in Nat \ S : m <= n
  BY LeastNumber
<1>2. \A n \in S : ~(n < m)
  BY <1>1
<1> QED
  BY <1>2

\* There is a function on the numbers up to n that begins with a and goes on
\* by these steps.
Recursive(S, a, n, step) ==
  \E f \in [0 .. n -> S] : f[0] = a /\ \A i \in 1 .. n : f[i] = step[i][f[i - 1]]

LEMMA Recursion ==
  ASSUME NEW S, NEW a \in S, NEW n \in Nat, NEW step \in [1 .. n -> [S -> S]]
  PROVE  Recursive(S, a, n, step)
<1> DEFINE Upto(k) == \E f \in [0 .. k -> S] :
             f[0] = a /\ \A i \in 1 .. k : f[i] = step[i][f[i - 1]]
           T == {k \in Nat : k <= n => Upto(k)}
<1>1. 0 \in T
  <2> DEFINE g == [i \in 0 .. 0 |-> a]
  <2>1. g \in [0 .. 0 -> S] /\ g[0] = a
    OBVIOUS
  <2>2. \A i \in 1 .. 0 : g[i] = step[i][g[i - 1]]
    OBVIOUS
  <2> HIDE DEF g
  <2>3. Upto(0)
    BY <2>1, <2>2
  <2> QED
    BY <2>3
<1>2. ASSUME NEW k \in T, k + 1 <= n PROVE Upto(k + 1)
  <2>1. PICK f \in [0 .. k -> S] :
          f[0] = a /\ \A i \in 1 .. k : f[i] = step[i][f[i - 1]]
    BY <1>2
  <2> DEFINE g == [i \in 0 .. k + 1 |-> IF i <= k THEN f[i] ELSE step[k + 1][f[k]]]
  <2>2. k + 1 \in 1 .. n /\ f[k] \in S /\ step[k + 1][f[k]] \in S
    BY <1>2, <2>1
  <2>3. g \in [0 .. k + 1 -> S]
    BY <2>1, <2>2
  <2>4. ASSUME NEW i \in 1 .. k + 1 PROVE g[i] = step[i][g[i - 1]]
    <3>1. CASE i = k + 1
      BY <2>2, <3>1
    <3>2. CASE i # k + 1
      BY <2>1, <3>2
    <3> QED
      BY <3>1, <3>2
  <2>5. g[0] = a
    BY <2>1
  <2> QED
    BY <2>3, <2>4, <2>5
<1> HIDE DEF Upto
<1>3. \A k \in Nat : k \in T => k + 1 \in T
  BY <1>2
<1>4. Nat \subseteq T
  <2> HIDE DEF T
  <2> QED
    BY <1>1, <1>3, Induction
<1> QED
  BY <1>4 DEF Upto, Recursive


\* FlattenSeq, as a sequence of longer and longer sequences.
LEMMA Flattened ==
  ASSUME NEW S, NEW ss \in Seq(Seq(S))
  PROVE  \E f \in [0 .. Len(ss) -> Seq(S)] :
           /\ f[0] = <<>>
           /\ \A i \in 1 .. Len(ss) : f[i] = f[i - 1] \o ss[i]
           /\ FlattenSeq(ss) = f[Len(ss)]
<1> DEFINE n == Len(ss)
           Rule(g) == [i \in 1 .. n |-> IF i = 1 THEN ss[i] ELSE g[i - 1] \o ss[i]]
           flatten == CHOOSE g : g = Rule(g)
           step == [i \in 1 .. n |-> [q \in Seq(S) |-> q \o ss[i]]]
<1>1. n \in Nat /\ \A i \in 1 .. n : ss[i] \in Seq(S)
  OBVIOUS
<1> HIDE DEF n
<1>2. PICK f \in [0 .. n -> Seq(S)] :
        f[0] = <<>> /\ \A i \in 1 .. n : f[i] = step[i][f[i - 1]]
  <2> DEFINE T == Seq(S)
             a == <<>>
  <2>1. n \in Nat /\ a \in T /\ step \in [1 .. n -> [T -> T]]
    BY <1>1
  <2> HIDE DEF step, T, a
  <2>2. Recursive(T, a, n, step)
    BY <2>1, Recursion
  <2> QED BY <2>2 DEF T, a, Recursive
<1>3. \A i \in 1 .. n : f[i - 1] \in Seq(S) /\ f[i] = f[i - 1] \o ss[i]
  <2>1. \A i \in 1 .. n : i - 1 \in 0 .. n
    BY <1>1
  <2>2. \A i \in 1 .. n : f[i - 1] \in Seq(S)
    BY <2>1
  <2> QED BY <1>2, <2>2
<1> HIDE DEF step
<1>4. CASE n = 0
  <2>1. ss = <<>> /\ FlattenSeq(ss) = ss
    BY <1>4 DEF FlattenSeq, n
  <2> QED BY <1>2, <1>3, <1>4, <2>1 DEF n
<1>5. CASE n # 0
  <2> DEFINE h == [i \in 1 .. n |-> f[i]]
  <2>1. ASSUME NEW i \in 1 .. n PROVE h[i] = IF i = 1 THEN ss[i] ELSE h[i - 1] \o ss[i]
    <3>1. h[i] = f[i - 1] \o ss[i]
      BY <1>3
    <3>2. CASE i = 1
      <4>1. f[i - 1] = <<>> /\ <<>> \o ss[i] = ss[i]
        BY <1>1, <1>2, <3>2, ConcatEmptySeq
      <4> QED BY <3>1, <3>2, <4>1
    <3>3. CASE i # 1
      <4>1. i - 1 \in 1 .. n
        BY <1>1, <3>3
      <4> QED BY <3>1, <3>3, <4>1
    <3> QED BY <3>2, <3>3
  <2>2. h = Rule(h)
    <3>1. h = [i \in 1 .. n |-> h[i]]
      OBVIOUS
    <3> HIDE DEF h
    <3> QED BY <2>1, <3>1
  <2>3. flatten = Rule(flatten)
    <3> HIDE DEF Rule, h
    <3> QED BY <2>2
  <2>4. FlattenSeq(ss) = flatten[n]
    BY <1>5 DEF FlattenSeq, n
  <2>5. \A i \in 1 .. n : flatten[i] = IF i = 1 THEN ss[i] ELSE flatten[i - 1] \o ss[i]
    <3> HIDE DEF flatten
    <3> QED BY <2>3
  <2> HIDE DEF flatten
  <2> DEFINE E == {k \in Nat : k + 1 <= n => flatten[k + 1] = f[k + 1]}
  <2>6. 0 \in E
    <3>1. 1 \in 1 .. n
      BY <1>1, <1>5
    <3>2. flatten[1] = ss[1] /\ h[1] = ss[1] /\ h[1] = f[1]
      BY <2>1, <2>5, <3>1
    <3> QED BY <3>2
  <2>7. ASSUME NEW k \in Nat, k \in E PROVE k + 1 \in E
    <3> SUFFICES ASSUME (k + 1) + 1 <= n PROVE flatten[(k + 1) + 1] = f[(k + 1) + 1]
      OBVIOUS
    <3>1. /\ (k + 1) + 1 \in 1 .. n /\ (k + 1) + 1 # 1 /\ ((k + 1) + 1) - 1 = k + 1
          /\ k + 1 \in 1 .. n
      BY <1>1
    <3>2. flatten[(k + 1) + 1] = flatten[k + 1] \o ss[(k + 1) + 1]
      BY <2>5, <3>1
    <3>3. f[(k + 1) + 1] = f[k + 1] \o ss[(k + 1) + 1]
      BY <1>3, <3>1
    <3>4. flatten[k + 1] = f[k + 1]
      BY <2>7, <3>1
    <3> QED BY <3>2, <3>3, <3>4
  <2>8. Nat \subseteq E
    <3> HIDE DEF E
    <3> QED BY <2>6, <2>7, Induction
  <2>9. n - 1 \in Nat /\ (n - 1) + 1 = n
    BY <1>1, <1>5
  <2>10. n - 1 \in E
    <3> HIDE DEF E
    <3> QED BY <2>8, <2>9
  <2>11. flatten[n] = f[n]
    BY <2>9, <2>10
  <2> QED BY <1>2, <1>3, <2>4, <2>11 DEF n
<1> QED BY <1>4, <1>5

\* Each sequence is in the flat one, behind those before it.
LEMMA Pieces ==
  ASSUME NEW S, NEW ss \in Seq(Seq(S)), NEW f \in [0 .. Len(ss) -> Seq(S)],
         \A j \in 1 .. Len(ss) : f[j] = f[j - 1] \o ss[j],
         NEW i \in 1 .. Len(ss)
  PROVE  /\ Len(f[i - 1]) \in Nat /\ Len(ss[i]) \in Nat
         /\ Len(f[i - 1]) + Len(ss[i]) <= Len(f[Len(ss)])
         /\ SubSeq(f[Len(ss)], Len(f[i - 1]) + 1, Len(f[i - 1]) + Len(ss[i])) = ss[i]
<1> DEFINE n == Len(ss)
           at == Len(f[i - 1])
           size == Len(ss[i])
           Holds(q) == /\ at + size <= Len(q)
                       /\ \A k \in 1 .. size : q[at + k] = ss[i][k]
<1>1. n \in Nat /\ i \in 1 .. n /\ i - 1 \in 0 .. n
  OBVIOUS
<1>a. \A j \in 1 .. n : f[j] = f[j - 1] \o ss[j]
  OBVIOUS
<1>b. (\A j \in 1 .. n : ss[j] \in Seq(S)) /\ \A j \in 0 .. n : f[j] \in Seq(S)
  BY ElementOfSeq
<1> HIDE DEF n
<1>c. ss[i] \in Seq(S) /\ f[i - 1] \in Seq(S)
  BY <1>1, <1>b
<1>2. at \in Nat /\ size \in Nat
  BY <1>c, LenProperties
<1>3. \A q, r \in Seq(S) : /\ q \o r \in Seq(S) /\ Len(q \o r) = Len(q) + Len(r)
                           /\ Len(q) \in Nat /\ Len(r) \in Nat
                           /\ \A k \in 1 .. Len(q) : (q \o r)[k] = q[k]
  BY ConcatProperties
<1> DEFINE E == {j \in Nat : i + j <= n => Holds(f[i + j])}
<1>4. 0 \in E
  <2>0. i + 0 = i
    BY <1>1
  <2>1. f[i] = f[i - 1] \o ss[i]
    BY <1>1, <1>a
  <2> HIDE DEF Holds
  <2>2. /\ Len(f[i]) = at + size
        /\ \A k \in 1 .. at + size : f[i][k] = IF k <= at THEN f[i - 1][k] ELSE ss[i][k - at]
    <3> DEFINE a == f[i - 1]
               b == ss[i]
    <3>1. a \in Seq(S) /\ b \in Seq(S) /\ f[i] = a \o b
      BY <1>c, <2>1
    <3> HIDE DEF a, b
    <3>2. /\ Len(f[i]) = Len(a) + Len(b)
          /\ \A k \in 1 .. Len(a) + Len(b) :
               f[i][k] = IF k <= Len(a) THEN a[k] ELSE b[k - Len(a)]
      BY <3>1, ConcatProperties
    <3> QED BY <3>2 DEF a, b
  <2> HIDE DEF at, size
  <2>3. ASSUME NEW k \in 1 .. size PROVE f[i][at + k] = ss[i][k]
    <3>1. at + k \in 1 .. at + size /\ ~(at + k <= at) /\ (at + k) - at = k
      BY <1>2
    <3> QED BY <2>2, <3>1
  <2>4. at + size <= Len(f[i])
    BY <1>2, <2>2
  <2>5. Holds(f[i])
    BY <2>3, <2>4 DEF Holds
  <2> QED BY <2>0, <2>5
<1>5. ASSUME NEW j \in Nat, j \in E PROVE j + 1 \in E
  <2> HIDE DEF Holds
  <2> SUFFICES ASSUME i + (j + 1) <= n PROVE Holds(f[i + (j + 1)])
    OBVIOUS
  <2>1. /\ i + (j + 1) \in 1 .. n /\ (i + (j + 1)) - 1 = i + j /\ i + j \in 0 .. n
        /\ i + j <= n
    BY <1>1
  <2>2. f[i + (j + 1)] = f[i + j] \o ss[i + (j + 1)]
    <3> DEFINE h == i + (j + 1)
    <3>1. h \in 1 .. n /\ h - 1 = i + j
      BY <2>1
    <3> HIDE DEF h
    <3>2. f[h] = f[h - 1] \o ss[h]
      BY <3>1, <1>a
    <3> QED BY <3>1, <3>2 DEF h
  <2>3. Holds(f[i + j])
    BY <1>5, <2>1
  <2>4. f[i + j] \in Seq(S) /\ ss[i + (j + 1)] \in Seq(S)
    BY <1>b, <2>1
  <2> HIDE DEF at, size
  <2> DEFINE q == f[i + j]
             r == ss[i + (j + 1)]
  <2>5. /\ Len(q \o r) = Len(q) + Len(r) /\ Len(q) \in Nat /\ Len(r) \in Nat
        /\ \A k \in 1 .. Len(q) : (q \o r)[k] = q[k]
    BY <1>3, <2>4
  <2>6. at + size <= Len(q) /\ \A k \in 1 .. size : q[at + k] = ss[i][k]
    BY <2>3 DEF Holds
  <2> HIDE DEF q, r
  <2>7. \A k \in 1 .. size : at + k \in 1 .. Len(q)
    BY <1>2, <2>5, <2>6
  <2>8. Holds(q \o r)
    BY <1>2, <2>5, <2>6, <2>7 DEF Holds
  <2> QED BY <2>2, <2>8 DEF q, r
<1>6. Nat \subseteq E
  <2> HIDE DEF E
  <2> QED BY <1>4, <1>5, Induction
<1>7. n - i \in Nat /\ i + (n - i) = n
  BY <1>1
<1>8. Holds(f[n])
  <2>1. n - i \in E
    <3> HIDE DEF E
    <3> QED BY <1>6, <1>7
  <2> HIDE DEF Holds
  <2> QED BY <1>7, <2>1
<1> DEFINE p == SubSeq(f[n], at + 1, at + size)
<1>9. f[n] \in Seq(S) /\ Len(f[n]) \in Nat
  <2>1. f[n] \in Seq(S)
    BY <1>1, <1>b
  <2> QED BY <2>1, LenProperties
<1> HIDE DEF at, size
<1>10. \A k \in at + 1 .. at + size : f[n][k] \in S
  BY <1>2, <1>8, <1>9
<1>11. /\ p \in Seq(S) /\ Len(p) = (IF at + 1 <= at + size THEN (at + size) - (at + 1) + 1 ELSE 0)
       /\ \A k \in 1 .. (at + size) - (at + 1) + 1 : p[k] = f[n][(at + 1) + k - 1]
  <2> DEFINE lo == at + 1
             hi == at + size
             q == f[n]
  <2>1. lo \in Int /\ hi \in Int /\ \A k \in lo .. hi : q[k] \in S
    BY <1>2, <1>10
  <2> HIDE DEF lo, hi, q
  <2>2. /\ SubSeq(q, lo, hi) \in Seq(S)
        /\ Len(SubSeq(q, lo, hi)) = (IF lo <= hi THEN hi - lo + 1 ELSE 0)
        /\ \A k \in 1 .. hi - lo + 1 : SubSeq(q, lo, hi)[k] = q[lo + k - 1]
    BY <2>1, SubSeqProperties
  <2> QED BY <2>2 DEF lo, hi, q
<1>12. Len(p) = size /\ \A k \in 1 .. size : p[k] = ss[i][k]
  <2> HIDE DEF p
  <2>1. (at + size) - (at + 1) + 1 = size /\ \A k \in 1 .. size : (at + 1) + k - 1 = at + k
    BY <1>2
  <2>2. Len(p) = size
    BY <1>2, <1>11, <2>1
  <2>3. \A k \in 1 .. size : p[k] = f[n][at + k]
    BY <1>11, <2>1
  <2> QED BY <1>8, <2>2, <2>3
<1>13. p = ss[i]
  <2> HIDE DEF p
  <2> QED BY <1>2, <1>11, <1>12, SeqEqual DEF size
<1> QED BY <1>2, <1>8, <1>13 DEF at, size, n

\* What holds of the empty sequence and stays when an element is appended
\* holds of every sequence.
LEMMA ByAppending ==
  ASSUME NEW S, NEW G, <<>> \in G,
         \A s \in Seq(S) : \A x \in S : s \in G => Append(s, x) \in G
  PROVE  Seq(S) \subseteq G
<1> DEFINE T == {n \in Nat : \A s \in Seq(S) : Len(s) = n => s \in G}
<1>1. 0 \in T
  <2>1. \A s \in Seq(S) : Len(s) = 0 => s = <<>>
    BY EmptySeq
  <2> QED BY <2>1
<1>2. ASSUME NEW n \in Nat, n \in T PROVE n + 1 \in T
  <2> SUFFICES ASSUME NEW s \in Seq(S), Len(s) = n + 1 PROVE s \in G
    OBVIOUS
  <2>0. n + 1 \in 1 .. n + 1 /\ n + 1 # 0 /\ (n + 1) - 1 = n /\ 1 <= n + 1
    OBVIOUS
  <2>1. PICK q \in Seq(S), x \in S : s = Append(q, x)
    BY <2>0, EmptySeq, SequenceEmptyOrAppend
  <2>2. Len(q) \in Nat /\ Len(s) = Len(q) + 1
    BY <2>1, AppendProperties
  <2>3. q \in G
    BY <1>2, <2>2
  <2> QED BY <2>1, <2>3
<1>3. Nat \subseteq T
  <2> HIDE DEF T
  <2> QED BY <1>1, <1>2, Induction
<1>4. ASSUME NEW s \in Seq(S) PROVE s \in G
  <2>1. Len(s) \in T
    BY <1>3
  <2> QED BY <2>1
<1> QED BY <1>4

(***************************************************************************)
(* Flat sequences                                                          *)
(***************************************************************************)

LEMMA FlatType ==
  ASSUME NEW S, NEW ss \in Seq(Seq(S))
  PROVE  FlattenSeq(ss) \in Seq(S)
<1>1. PICK f \in [0 .. Len(ss) -> Seq(S)] : FlattenSeq(ss) = f[Len(ss)]
  BY Flattened
<1>2. Len(ss) \in 0 .. Len(ss)
  OBVIOUS
<1> QED BY <1>1, <1>2

\* FlattenSeq of nothing, of one sequence more, of two lists, of one sequence.
LEMMA FlatEmpty == FlattenSeq(<<>>) = <<>>
BY DEF FlattenSeq

LEMMA FlatAppend ==
  ASSUME NEW S, NEW ss \in Seq(Seq(S)), NEW q \in Seq(S)
  PROVE  /\ Append(ss, q) \in Seq(Seq(S))
         /\ FlattenSeq(Append(ss, q)) = FlattenSeq(ss) \o q
<1> DEFINE n == Len(ss)
           tt == Append(ss, q)
<1>1. /\ n \in Nat /\ tt \in Seq(Seq(S)) /\ Len(tt) = n + 1 /\ tt[n + 1] = q
      /\ \A i \in 1 .. n : tt[i] = ss[i]
  OBVIOUS
<1> HIDE DEF tt
<1>2. PICK f \in [0 .. n -> Seq(S)] :
        /\ f[0] = <<>> /\ \A i \in 1 .. n : f[i] = f[i - 1] \o ss[i]
        /\ FlattenSeq(ss) = f[n]
  BY Flattened
<1>3. PICK g \in [0 .. n + 1 -> Seq(S)] :
        /\ g[0] = <<>> /\ \A i \in 1 .. n + 1 : g[i] = g[i - 1] \o tt[i]
        /\ FlattenSeq(tt) = g[n + 1]
  <2>1. \E g \in [0 .. Len(tt) -> Seq(S)] :
          /\ g[0] = <<>> /\ \A i \in 1 .. Len(tt) : g[i] = g[i - 1] \o tt[i]
          /\ FlattenSeq(tt) = g[Len(tt)]
    BY <1>1, Flattened
  <2> QED BY <1>1, <2>1
<1> HIDE DEF n
<1> DEFINE T == {i \in Nat : i <= n => g[i] = f[i]}
<1>4. 0 \in T
  BY <1>2, <1>3
<1>5. ASSUME NEW i \in Nat, i \in T PROVE i + 1 \in T
  <2> SUFFICES ASSUME i + 1 <= n PROVE g[i + 1] = f[i + 1]
    OBVIOUS
  <2> DEFINE j == i + 1
  <2>1. j \in 1 .. n /\ j \in 1 .. n + 1 /\ j - 1 = i /\ i <= n
    BY <1>1
  <2> HIDE DEF j
  <2>2. g[i] = f[i]
    BY <1>5, <2>1
  <2>3. g[j] = g[i] \o tt[j] /\ f[j] = f[i] \o ss[j] /\ tt[j] = ss[j]
    BY <1>1, <1>2, <1>3, <2>1
  <2>4. g[j] = f[j]
    BY <2>2, <2>3
  <2> QED BY <2>4 DEF j
<1>6. g[n] = f[n]
  <2>1. Nat \subseteq T
    <3> HIDE DEF T
    <3> QED BY <1>4, <1>5, Induction
  <2> QED BY <1>1, <2>1
<1>7. g[n + 1] = g[n] \o q
  <2>1. n + 1 \in 1 .. n + 1 /\ (n + 1) - 1 = n
    BY <1>1
  <2> QED BY <1>1, <1>3, <2>1
<1> QED BY <1>1, <1>2, <1>3, <1>6, <1>7 DEF tt

LEMMA FlatConcat ==
  ASSUME NEW S, NEW ss \in Seq(Seq(S)), NEW tt \in Seq(Seq(S))
  PROVE  FlattenSeq(ss \o tt) = FlattenSeq(ss) \o FlattenSeq(tt)
<1> DEFINE Q == Seq(S)
           G == {qq \in Seq(Q) : FlattenSeq(ss \o qq) = FlattenSeq(ss) \o FlattenSeq(qq)}
<1>1. <<>> \in G
  <2>1. ss \o <<>> = ss /\ FlattenSeq(ss) \o <<>> = FlattenSeq(ss)
    BY FlatType, ConcatEmptySeq
  <2>2. <<>> \in Seq(Q)
    OBVIOUS
  <2> QED BY <2>1, <2>2, FlatEmpty
<1>2. ASSUME NEW qq \in Seq(Q), NEW q \in Q, qq \in G PROVE Append(qq, q) \in G
  <2>1. ss \o Append(qq, q) = Append(ss \o qq, q) /\ ss \o qq \in Seq(Seq(S))
    OBVIOUS
  <2>2. FlattenSeq(Append(ss \o qq, q)) = FlattenSeq(ss \o qq) \o q
    BY <2>1, FlatAppend
  <2>3. FlattenSeq(Append(qq, q)) = FlattenSeq(qq) \o q /\ Append(qq, q) \in Seq(Q)
    BY FlatAppend
  <2>4. FlattenSeq(ss) \in Q /\ FlattenSeq(qq) \in Q
    BY FlatType
  <2>5. (FlattenSeq(ss) \o FlattenSeq(qq)) \o q = FlattenSeq(ss) \o (FlattenSeq(qq) \o q)
    BY <2>4, ConcatAssociative
  <2>6. FlattenSeq(ss \o qq) = FlattenSeq(ss) \o FlattenSeq(qq)
    BY <1>2
  <2> QED BY <2>1, <2>2, <2>3, <2>5, <2>6
<1>3. Seq(Q) \subseteq G
  <2> HIDE DEF G, Q
  <2> QED BY <1>1, <1>2, ByAppending
<1> QED BY <1>3

LEMMA FlatOne ==
  ASSUME NEW S, NEW q \in Seq(S)
  PROVE  FlattenSeq(<<q>>) = q
<1>1. <<q>> = Append(<<>>, q) /\ <<>> \in Seq(Seq(S)) /\ <<>> \o q = q
  OBVIOUS
<1> QED BY <1>1, FlatAppend, FlatEmpty

(***************************************************************************)
(* Recursion from the end of a sequence: each place from those behind it.  *)
(***************************************************************************)

\* The rule of each place looks only behind it.
LooksBehind(S, n, rule) ==
  /\ rule \in [1 .. n -> [[1 .. n + 1 -> S] -> S]]
  /\ \A i \in 1 .. n : \A t, u \in [1 .. n + 1 -> S] :
       (\A j \in i + 1 .. n + 1 : t[j] = u[j]) => rule[i][t] = rule[i][u]

\* There is a table that ends with a and follows the rule.
Fillable(S, n, a, rule) ==
  \E t \in [1 .. n + 1 -> S] : t[n + 1] = a /\ \A i \in 1 .. n : t[i] = rule[i][t]

\* Such a rule can be followed from the last place to the first.
LEMMA FromTheEnd ==
  ASSUME NEW S, NEW n \in Nat, NEW a \in S, NEW rule, LooksBehind(S, n, rule)
  PROVE  Fillable(S, n, a, rule)
<1> DEFINE Tables == [1 .. n + 1 -> S]
           Filled(t, k) == t[n + 1] = a /\ \A i \in n - k + 1 .. n : t[i] = rule[i][t]
           T == {k \in Nat : k <= n => \E t \in Tables : Filled(t, k)}
<1>1. 0 \in T
  <2> DEFINE t == [i \in 1 .. n + 1 |-> a]
  <2>1. t \in Tables /\ t[n + 1] = a /\ n - 0 + 1 .. n = {}
    OBVIOUS
  <2> HIDE DEF t, Tables
  <2> QED BY <2>1
<1>2. ASSUME NEW k \in Nat, k \in T PROVE k + 1 \in T
  <2> SUFFICES ASSUME k + 1 <= n PROVE \E t \in Tables : Filled(t, k + 1)
    OBVIOUS
  <2>1. PICK t \in Tables : Filled(t, k)
    BY <1>2
  <2> DEFINE m == n - k
             u == [t EXCEPT ![m] = rule[m][t]]
  <2>2. m \in 1 .. n /\ n - (k + 1) + 1 = m /\ n - k + 1 = m + 1 /\ m # n + 1
    OBVIOUS
  <2>3. rule[m][t] \in S
    BY <2>1, <2>2 DEF LooksBehind
  <2>4. u \in Tables /\ u[m] = rule[m][t] /\ \A i \in 1 .. n + 1 : i # m => u[i] = t[i]
    BY <2>1, <2>2, <2>3
  <2> HIDE DEF u, m
  <2>5. ASSUME NEW i \in m .. n PROVE rule[i][u] = rule[i][t]
    <3>1. i \in 1 .. n /\ \A j \in i + 1 .. n + 1 : j \in 1 .. n + 1 /\ j # m
      BY <2>2
    <3>2. \A j \in i + 1 .. n + 1 : u[j] = t[j]
      BY <2>4, <3>1
    <3> QED BY <2>1, <2>4, <3>1, <3>2 DEF LooksBehind
  <2>6. ASSUME NEW i \in m .. n PROVE u[i] = rule[i][u]
    <3>1. CASE i = m
      BY <2>4, <2>5, <3>1
    <3>2. CASE i # m
      <4>1. i \in m + 1 .. n /\ i \in 1 .. n + 1
        BY <2>2, <3>2
      <4>2. t[i] = rule[i][t]
        BY <2>1, <2>2, <4>1
      <4> QED BY <2>4, <2>5, <3>2, <4>1, <4>2
    <3> QED BY <3>1, <3>2
  <2>7. u[n + 1] = a
    <3>1. n + 1 \in 1 .. n + 1
      OBVIOUS
    <3> QED BY <2>1, <2>2, <2>4, <3>1
  <2> HIDE DEF Tables
  <2> QED BY <2>2, <2>4, <2>6, <2>7
<1> HIDE DEF Filled
<1>3. n \in T
  <2>1. Nat \subseteq T
    <3> HIDE DEF T
    <3> QED BY <1>1, <1>2, Induction
  <2> QED BY <2>1
<1>4. PICK t \in Tables : Filled(t, n)
  BY <1>3
<1>5. n - n + 1 = 1
  OBVIOUS
<1> QED BY <1>4, <1>5 DEF Filled, Fillable

\* What holds at the end, and of each place when of those behind it, holds
\* of the first.
LEMMA BackToFirst ==
  ASSUME NEW n \in Nat, NEW G, n + 1 \in G,
         \A i \in 1 .. n : (\A j \in i + 1 .. n + 1 : j \in G) => i \in G
  PROVE  \A i \in 1 .. n + 1 : i \in G
<1> DEFINE T == {k \in Nat : k <= n => \A j \in n - k + 1 .. n + 1 : j \in G}
<1>1. 0 \in T
  OBVIOUS
<1>2. ASSUME NEW k \in Nat, k \in T PROVE k + 1 \in T
  <2> SUFFICES ASSUME k + 1 <= n, NEW j \in n - (k + 1) + 1 .. n + 1 PROVE j \in G
    OBVIOUS
  <2>1. \A i \in n - k + 1 .. n + 1 : i \in G
    BY <1>2
  <2>2. n - k \in 1 .. n /\ n - (k + 1) + 1 = n - k
    OBVIOUS
  <2>3. n - k \in G
    BY <2>1, <2>2
  <2> QED BY <2>1, <2>2, <2>3
<1>3. n \in T
  <2>1. Nat \subseteq T
    <3> HIDE DEF T
    <3> QED BY <1>1, <1>2, Induction
  <2> QED BY <2>1
<1>4. \A j \in n - n + 1 .. n + 1 : j \in G
  BY <1>3
<1>5. n - n + 1 = 1
  OBVIOUS
<1> QED BY <1>4, <1>5

(***************************************************************************)
(* Finite sets and their elements in a row                                 *)
(***************************************************************************)

\* Finite sets, as the counts of the models need them.
LEMMA PlacesFinite ==
  ASSUME NEW n \in Nat, NEW m \in Int
  PROVE  IsFiniteSet(m .. n)
BY FS_Interval

LEMMA FiniteUpto == ASSUME NEW n \in Nat PROVE IsFiniteSet(1 .. n)
<1> DEFINE one == 1
<1>1. one \in Int
  OBVIOUS
<1> HIDE DEF one
<1>2. IsFiniteSet(one .. n)
  BY <1>1, PlacesFinite
<1> QED BY <1>2 DEF one

LEMMA CountType ==
  ASSUME NEW S, IsFiniteSet(S), NEW T, T \subseteq S
  PROVE  IsFiniteSet(T) /\ Cardinality(T) \in Nat
BY FS_Subset, FS_CardinalityType

LEMMA Mapped ==
  ASSUME NEW S, IsFiniteSet(S), NEW f, DOMAIN f = S
  PROVE  IsFiniteSet({f[x] : x \in S})
<1> DEFINE T == {f[x] : x \in S}
           g == [x \in S |-> f[x]]
<1>1. g \in [S -> T] /\ \A t \in T : \E x \in S : g[x] = t
  OBVIOUS
<1>2. g \in Surjection(S, T)
  <2> HIDE DEF g, T
  <2> QED BY <1>1 DEF Surjection
<1>3. IsFiniteSet(T)
  <2> HIDE DEF g, T
  <2> QED BY <1>2, FS_Surjection
<1> QED BY <1>3

\* A function of the first n numbers is a sequence.
LEMMA MakeSeq ==
  ASSUME NEW S, NEW n \in Nat, NEW s, s = [k \in 1 .. n |-> s[k]], \A k \in 1 .. n : s[k] \in S
  PROVE  s \in Seq(S) /\ Len(s) = n
<1>1. s \in [1 .. n -> S]
  OBVIOUS
<1> QED BY <1>1

\* s has every element of S, once.
Enumerates(s, S) ==
  /\ s \in [1 .. Cardinality(S) -> S]
  /\ \A i, j \in 1 .. Cardinality(S) : s[i] = s[j] => i = j
  /\ \A x \in S : \E i \in 1 .. Cardinality(S) : s[i] = x

\* Such a list is a sequence without repetitions.
LEMMA EnumeratesSeq ==
  ASSUME NEW S, IsFiniteSet(S), NEW s, Enumerates(s, S)
  PROVE  /\ s \in Seq(S) /\ Len(s) = Cardinality(S) /\ DOMAIN s = 1 .. Len(s) /\ Len(s) \in Nat
         /\ \A i, j \in 1 .. Len(s) : s[i] = s[j] => i = j
         /\ \A x \in S : \E i \in 1 .. Len(s) : s[i] = x
<1>1. Cardinality(S) \in Nat
  BY FS_CardinalityType
<1>2. s \in [1 .. Cardinality(S) -> S]
  BY DEF Enumerates
<1>3. s \in Seq(S) /\ Len(s) = Cardinality(S) /\ DOMAIN s = 1 .. Cardinality(S)
  <2> DEFINE n == Cardinality(S)
  <2> HIDE DEF n
  <2>1. n \in Nat /\ s \in [1 .. n -> S]
    BY <1>1, <1>2 DEF n
  <2>2. s \in Seq(S) /\ Len(s) = n /\ DOMAIN s = 1 .. n
    BY <2>1
  <2> QED BY <2>2 DEF n
<1> QED BY <1>1, <1>3 DEF Enumerates

(***************************************************************************)
(* Folds.  What a fold does in one step is a parameter of this module: a   *)
(* module instantiates it with a step of its own, which may depend on a    *)
(* context c that stays the same.                                          *)
(***************************************************************************)
CONSTANT Step(_, _, _)

Fold(c, a, list) == FoldLeft(LAMBDA q, x : Step(c, q, x), a, list)

\* f[i] is what the fold has come to after i elements.
Unrolls(c, a, list, f) ==
  f[0] = a /\ \A i \in 1 .. Len(list) : f[i] = Step(c, f[i - 1], list[i])

\* Every fold comes to its result step by step.
LEMMA Unrolled ==
  ASSUME NEW c, NEW a, NEW list, Len(list) \in Nat, DOMAIN list = 1 .. Len(list)
  PROVE  \E f : Unrolls(c, a, list, f) /\ Fold(c, a, list) = f[Len(list)]
<1> DEFINE n == Len(list)
           Rule(D, g) == [s \in SUBSET D |->
                            IF s = {} THEN a ELSE Step(c, g[s \ {Max(s)}], list[Max(s)])]
           Has(D) == \E g : g = Rule(D, g)
           T == {k \in Nat : Has(1 .. k)}
<1>1. 0 \in T
  <2> DEFINE g == [s \in SUBSET (1 .. 0) |-> a]
  <2>1. g = Rule(1 .. 0, g)
    OBVIOUS
  <2> HIDE DEF g, Rule
  <2> QED BY <2>1
<1>2. ASSUME NEW k \in Nat, k \in T PROVE k + 1 \in T
  <2> DEFINE D == 1 .. k
             E == 1 .. k + 1
             m == k + 1
  <2>1. PICK g : g = Rule(D, g)
    BY <1>2
  <2> DEFINE h == [s \in SUBSET E |-> IF m \in s THEN Step(c, g[s \ {m}], list[m]) ELSE g[s]]
  <2>2. D \subseteq E /\ \A s \in SUBSET E : m \notin s => s \in SUBSET D
    OBVIOUS
  <2>3. \A s \in SUBSET E : s \ {m} \in SUBSET D /\ m \notin s \ {m} /\ s \ {m} \in SUBSET E
    OBVIOUS
  <2>4. ASSUME NEW s \in SUBSET E, m \in s PROVE Max(s) = m
    <3>1. \A y \in s : m >= y /\ y \in Nat
      OBVIOUS
    <3>2. \A x \in s : (\A y \in s : x >= y) => x = m
      BY <3>1, <2>4
    <3> QED BY <3>1, <3>2, <2>4 DEF Max
  <2>5. ASSUME NEW s \in SUBSET D, s # {}
        PROVE  s \ {Max(s)} \in SUBSET D /\ g[s] = Step(c, g[s \ {Max(s)}], list[Max(s)])
    BY <2>1, <2>5
  <2>6. {} \in SUBSET D /\ g[{}] = a
    BY <2>1
  <2> HIDE DEF D, E
  <2>7. ASSUME NEW s \in SUBSET E
        PROVE  h[s] = IF s = {} THEN a ELSE Step(c, h[s \ {Max(s)}], list[Max(s)])
    <3>1. CASE m \in s
      <4>1. h[s] = Step(c, g[s \ {m}], list[m]) /\ h[s \ {m}] = g[s \ {m}]
        BY <2>3, <3>1
      <4>2. Max(s) = m
        BY <2>4, <3>1
      <4> HIDE DEF h
      <4> QED BY <3>1, <4>1, <4>2
    <3>2. CASE m \notin s
      <4>1. s \in SUBSET D /\ h[s] = g[s]
        BY <2>2, <3>2
      <4>2. CASE s = {}
        BY <4>1, <4>2, <2>6
      <4>3. CASE s # {}
        <5>1. s \ {Max(s)} \in SUBSET E /\ m \notin s \ {Max(s)}
          BY <3>2
        <5>2. h[s \ {Max(s)}] = g[s \ {Max(s)}]
          BY <5>1
        <5> HIDE DEF h
        <5> QED BY <4>1, <4>3, <5>2, <2>5
      <4> QED BY <4>2, <4>3
    <3> QED BY <3>1, <3>2
  <2>8. h = Rule(E, h)
    <3>1. h = [s \in SUBSET E |-> h[s]]
      OBVIOUS
    <3> HIDE DEF h
    <3> QED BY <2>7, <3>1
  <2> HIDE DEF h, Rule
  <2>9. Has(E)
    BY <2>8
  <2> QED BY <2>9 DEF E
<1> HIDE DEF Has
<1>3. Has(1 .. n)
  <2>1. Nat \subseteq T
    <3> HIDE DEF T
    <3> QED BY <1>1, <1>2, Induction
  <2> QED BY <2>1
<1> DEFINE iter == CHOOSE g : g = Rule(1 .. n, g)
<1>4. iter = Rule(1 .. n, iter)
  BY <1>3 DEF Has
<1>5. Fold(c, a, list) = iter[1 .. n]
  BY DEF Fold, FoldLeft, MapThenFoldSet
<1> HIDE DEF iter
<1> DEFINE f == [i \in 0 .. n |-> iter[1 .. i]]
<1>6. f[0] = a
  <2>1. 1 .. 0 = {} /\ {} \in SUBSET (1 .. n)
    OBVIOUS
  <2>2. iter[{}] = a
    BY <1>4, <2>1
  <2> QED BY <2>1, <2>2
<1>7. ASSUME NEW i \in 1 .. n PROVE f[i] = Step(c, f[i - 1], list[i])
  <2>1. Max(1 .. i) = i
    <3>1. i \in 1 .. i /\ \A y \in 1 .. i : i >= y
      OBVIOUS
    <3>2. \A x \in 1 .. i : (\A y \in 1 .. i : x >= y) => x = i
      OBVIOUS
    <3> QED BY <3>1, <3>2 DEF Max
  <2>2. (1 .. i) \ {i} = 1 .. i - 1 /\ 1 .. i # {} /\ 1 .. i \in SUBSET (1 .. n)
    <3>1. i \in 1 .. i /\ \A x \in 1 .. i : x \in 1 .. n
      OBVIOUS
    <3>2. \A x : x \in (1 .. i) \ {i} <=> x \in 1 .. i - 1
      OBVIOUS
    <3> QED BY <3>1, <3>2
  <2>3. iter[1 .. i] = Step(c, iter[(1 .. i) \ {Max(1 .. i)}], list[Max(1 .. i)])
    BY <1>4, <2>2
  <2>4. f[i] = iter[1 .. i] /\ f[i - 1] = iter[1 .. i - 1]
    OBVIOUS
  <2> HIDE DEF f
  <2> QED BY <2>1, <2>2, <2>3, <2>4
<1>8. Fold(c, a, list) = f[n]
  BY <1>5
<1> HIDE DEF f
<1> QED BY <1>6, <1>7, <1>8 DEF Unrolls

\* A fold over nothing, and over one element more.
LEMMA FoldEmpty == ASSUME NEW c, NEW a PROVE Fold(c, a, <<>>) = a
<1> DEFINE e == <<>>
<1>1. Len(e) = 0 /\ DOMAIN e = 1 .. Len(e) /\ Len(e) \in Nat
  OBVIOUS
<1> HIDE DEF e
<1>2. PICK f : Unrolls(c, a, e, f) /\ Fold(c, a, e) = f[Len(e)]
  BY <1>1, Unrolled
<1>3. Fold(c, a, e) = a
  BY <1>1, <1>2 DEF Unrolls
<1> QED BY <1>3 DEF e

\* And over one element more.
LEMMA FoldAppend ==
  ASSUME NEW S, NEW c, NEW a, NEW s \in Seq(S), NEW x \in S
  PROVE  Fold(c, a, Append(s, x)) = Step(c, Fold(c, a, s), x)
<1> DEFINE t == Append(s, x)
           n == Len(s)
<1>1. /\ n \in Nat /\ DOMAIN s = 1 .. n
      /\ Len(t) = n + 1 /\ DOMAIN t = 1 .. n + 1 /\ t[n + 1] = x
      /\ \A i \in 1 .. n : t[i] = s[i]
  OBVIOUS
<1> HIDE DEF t
<1>2. PICK f : Unrolls(c, a, s, f) /\ Fold(c, a, s) = f[n]
  BY <1>1, Unrolled
<1>3. PICK g : Unrolls(c, a, t, g) /\ Fold(c, a, t) = g[n + 1]
  <2>1. Len(t) \in Nat /\ DOMAIN t = 1 .. Len(t)
    BY <1>1
  <2>2. \E g : Unrolls(c, a, t, g) /\ Fold(c, a, t) = g[Len(t)]
    BY <2>1, Unrolled
  <2> QED BY <1>1, <2>2
<1> HIDE DEF n
<1> DEFINE T == {i \in Nat : i <= n => f[i] = g[i]}
<1>4. 0 \in T
  BY <1>2, <1>3 DEF Unrolls
<1>5. ASSUME NEW i \in Nat, i \in T PROVE i + 1 \in T
  <2> SUFFICES ASSUME i + 1 <= n PROVE f[i + 1] = g[i + 1]
    OBVIOUS
  <2> DEFINE j == i + 1
  <2>1. j \in 1 .. n /\ j \in 1 .. n + 1 /\ j - 1 = i /\ i <= n
    BY <1>1
  <2> HIDE DEF j
  <2>2. f[j] = Step(c, f[i], s[j])
    BY <1>2, <2>1 DEF Unrolls, n
  <2>3. g[j] = Step(c, g[i], t[j])
    BY <1>1, <1>3, <2>1 DEF Unrolls
  <2>4. f[i] = g[i] /\ s[j] = t[j]
    BY <1>1, <1>5, <2>1
  <2> QED BY <2>2, <2>3, <2>4 DEF j
<1>6. f[n] = g[n]
  <2>1. Nat \subseteq T
    <3> HIDE DEF T
    <3> QED BY <1>4, <1>5, Induction
  <2> QED BY <1>1, <2>1
<1>7. g[n + 1] = Step(c, g[n], x)
  <2>1. n + 1 \in 1 .. n + 1 /\ (n + 1) - 1 = n
    BY <1>1
  <2> DEFINE m == n + 1
  <2>2. m \in 1 .. Len(t) /\ m - 1 = n /\ t[m] = x
    BY <1>1, <2>1
  <2> HIDE DEF m
  <2>3. g[m] = Step(c, g[n], x)
    BY <1>3, <2>2 DEF Unrolls
  <2> QED BY <2>3 DEF m
<1> QED BY <1>2, <1>3, <1>6, <1>7 DEF t

(***************************************************************************)
(* Sorting.  The step is now an order: what comes before what.             *)
(***************************************************************************)

\* The elements of S, each behind as many as come before it.
Ordered(c, S) ==
  [k \in 1 .. Cardinality(S) |->
     CHOOSE x \in S : Cardinality({y \in S : Step(c, y, x)}) = k - 1]

\* A strict total order of S.
Orders(c, S) ==
  /\ \A x \in S : ~ Step(c, x, x)
  /\ \A x, y, z \in S : Step(c, x, y) /\ Step(c, y, z) => Step(c, x, z)
  /\ \A x, y \in S : x # y => Step(c, x, y) \/ Step(c, y, x)

\* Sorting a finite set leaves nothing out and repeats nothing.
LEMMA Enumerated ==
  ASSUME NEW c, NEW S, IsFiniteSet(S), Orders(c, S)
  PROVE  Enumerates(Ordered(c, S), S)
<1> DEFINE n == Cardinality(S)
           Under(x) == {y \in S : Step(c, y, x)}
           rank == [x \in S |-> Cardinality(Under(x))]
           s == Ordered(c, S)
<1>1. n \in Nat
  BY FS_CardinalityType
<1>2. ASSUME NEW x \in S
      PROVE  IsFiniteSet(Under(x)) /\ Cardinality(Under(x)) \in 0 .. n - 1
  <2>1. IsFiniteSet(S \ {x}) /\ Cardinality(S \ {x}) = n - 1
    BY FS_RemoveElement
  <2>2. Under(x) \in SUBSET (S \ {x})
    BY DEF Orders
  <2> HIDE DEF Under, n
  <2>3. IsFiniteSet(Under(x)) /\ Cardinality(Under(x)) <= n - 1
    BY <2>1, <2>2, FS_Subset
  <2>4. Cardinality(Under(x)) \in Nat
    BY <2>3, FS_CardinalityType
  <2> QED BY <1>1, <2>3, <2>4
<1>3. ASSUME NEW x \in S, NEW y \in S, Step(c, x, y)
      PROVE  Cardinality(Under(x)) < Cardinality(Under(y))
  <2>1. x \in Under(y)
    BY <1>3
  <2>2. Under(x) \in SUBSET (Under(y) \ {x})
    BY <1>3 DEF Orders
  <2>3. IsFiniteSet(Under(y))
    BY <1>2
  <2> HIDE DEF Under, n
  <2>4. IsFiniteSet(Under(y) \ {x}) /\ Cardinality(Under(y) \ {x}) = Cardinality(Under(y)) - 1
    BY <2>1, <2>3, FS_RemoveElement
  <2>5. Cardinality(Under(x)) <= Cardinality(Under(y) \ {x})
    BY <2>2, <2>4, FS_Subset
  <2>6. Cardinality(Under(x)) \in Int /\ Cardinality(Under(y)) \in Int
    BY <1>2
  <2> QED BY <2>4, <2>5, <2>6
<1>4. \A x \in S : rank[x] = Cardinality(Under(x)) /\ rank[x] \in 0 .. n - 1
  BY <1>2
<1>5. rank \in [S -> 0 .. n - 1]
  BY <1>2
<1> HIDE DEF rank, Under, n
<1>6. ASSUME NEW x \in S, NEW y \in S, x # y PROVE rank[x] # rank[y]
  <2>1. CASE Step(c, x, y)
    BY <1>3, <1>4, <2>1
  <2>2. CASE Step(c, y, x)
    BY <1>3, <1>4, <2>2
  <2> QED BY <1>6, <2>1, <2>2 DEF Orders
<1>7. ASSUME NEW k \in 1 .. n PROVE \E x \in S : rank[x] = k - 1
  <2> SUFFICES ASSUME \A x \in S : rank[x] # k - 1 PROVE FALSE
    OBVIOUS
  <2> DEFINE T == (0 .. n - 1) \ {k - 1}
  <2>1. rank \in [S -> T]
    BY <1>5
  <2>2. IsFiniteSet(0 .. n - 1) /\ Cardinality(0 .. n - 1) = n /\ k - 1 \in 0 .. n - 1
    <3>1. 0 \in Int /\ n - 1 \in Int /\ (0 > n - 1 => n = 0) /\ (n - 1) - 0 + 1 = n
      BY <1>1
    <3> QED BY <1>1, <3>1, FS_Interval
  <2>3. IsFiniteSet(T) /\ Cardinality(T) = n - 1
    BY <2>2, FS_RemoveElement
  <2> HIDE DEF T
  <2>4. Cardinality(T) < Cardinality(S)
    BY <1>1, <2>3 DEF n
  <2>5. \E x, y \in S : x # y /\ rank[x] = rank[y]
    BY <2>1, <2>3, <2>4, FS_PigeonHole
  <2> QED BY <1>6, <2>5
<1>8. ASSUME NEW k \in 1 .. n PROVE s[k] \in S /\ rank[s[k]] = k - 1
  <2>1. \E x \in S : Cardinality({y \in S : Step(c, y, x)}) = k - 1
    BY <1>4, <1>7 DEF Under
  <2>2. s[k] \in S /\ Cardinality({y \in S : Step(c, y, s[k])}) = k - 1
    BY <2>1 DEF Ordered, n
  <2> HIDE DEF s
  <2> QED BY <1>4, <2>2 DEF Under
<1>9. s = [k \in 1 .. n |-> s[k]]
  <2> DEFINE pick(k) == CHOOSE x \in S : Cardinality({y \in S : Step(c, y, x)}) = k - 1
  <2>1. s = [k \in 1 .. n |-> pick(k)]
    BY DEF Ordered, n
  <2> HIDE DEF pick, s
  <2> QED BY <2>1
<1> HIDE DEF s
<1>10. s \in [1 .. n -> S]
  BY <1>8, <1>9
<1>11. ASSUME NEW i \in 1 .. n, NEW j \in 1 .. n, s[i] = s[j] PROVE i = j
  BY <1>1, <1>8, <1>11
<1>12. ASSUME NEW x \in S PROVE \E i \in 1 .. n : s[i] = x
  <2>1. rank[x] + 1 \in 1 .. n /\ (rank[x] + 1) - 1 = rank[x]
    BY <1>1, <1>4
  <2>2. s[rank[x] + 1] \in S /\ rank[s[rank[x] + 1]] = rank[x]
    BY <1>8, <2>1
  <2>3. s[rank[x] + 1] = x
    BY <1>6, <2>2
  <2> QED BY <2>1, <2>3
<1> QED BY <1>10, <1>11, <1>12 DEF Enumerates, n, s

==============================================================================
