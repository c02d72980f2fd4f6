-------------------------- MODULE StructuralSearch --------------------------
(***************************************************************************)
(* The structural search of the AFC engine (afc2.py, the Python reference) *)
(* in front of the coder of HuffmanCode: candidates from n-grams and words, *)
(* a greedy parse, growth of blocks from adjacent pairs, the audit of the  *)
(* dictionary, and the rounds of optimal parses and code lengths, each on  *)
(* the result of the other.  What the search finds is then coded, packed   *)
(* and decoded by the steps of HuffmanCode.                                *)
(*                                                                         *)
(* The coder may also start with arbitrary weights, as HuffmanCode does.   *)
(* Which of the two trials of a small file is kept is left open, as is the *)
(* container: either must decode.  ByteCost and EntryBytes are 8 and 3 in  *)
(* the code; smaller ones let short texts have a dictionary that pays.     *)
(***************************************************************************)
EXTENDS HuffmanCode

CONSTANTS
  Texts,         \* the data
  WordLiterals,  \* [0-9A-Z_a-z]
  WordMin, WordMax, NgramMin, NgramMax, ScanWindow,
  Floors,        \* min_candidate_freq and, for small files, one less
  ByteCost, EntryBytes,
  MaxInitialDict, MaxDict, MaxBlock, MergesPerRound, MergeRounds, DpRounds,
  NoCode         \* NOCODE_COST

\* What EngineOptions.__post_init__ lets through, and the constants of the
\* scan.  A cap on blocks below the length of a candidate is let through too.
ASSUME SearchBounds ==
  /\ FirstPattern \in Nat /\ Texts \subseteq Seq(Literals)
  /\ {WordMin, NgramMin} \subseteq Nat \ {0}
  /\ {WordMax, NgramMax, MaxBlock, ScanWindow} \subseteq Nat
  /\ {MaxInitialDict, MaxDict, MergesPerRound} \subseteq Nat
  /\ MaxInitialDict <= MaxDict
  /\ {NoCode, ByteCost, EntryBytes} \subseteq Nat

VARIABLES
  data,    \* <<>> when the coder is entered directly
  floor,   \* the admission floor of this trial
  refund,  \* options.refund
  ids,     \* the text in symbols
  entries, \* the dictionary so far
  turn,    \* rounds left of the loop that runs
  pass     \* "search", "tune" between parses and lengths, "final", or "none"

search == <<data, floor, refund, ids, entries, turn, pass>>
all    == <<machine, search>>

Sum(f, s) == FoldLeft(LAMBDA sum, x : sum + f[x], 0, s)
Tally(s, x) == Cardinality({i \in DOMAIN s : s[i] = x})
At(d, i, p) == i + Len(p) - 1 <= Len(d) /\ SubSeq(d, i, i + Len(p) - 1) = p
Id(k) == FirstPattern + k - 1
Expand(s, ps) == FlattenSeq([i \in DOMAIN s |-> Bytes(s[i], ps)])

\* bytes objects in order.
LexLess(p, q) ==
  \/ Len(p) < Len(q) /\ \A i \in DOMAIN p : p[i] = q[i]
  \/ \E k \in DOMAIN p \cap DOMAIN q :
       p[k] < q[k] /\ \A i \in 1 .. k - 1 : p[i] = q[i]

(***************************************************************************)
(* What a pattern is worth                                                 *)
(***************************************************************************)

\* est_code_len: the bits of a symbol that occurs f times in total, 24 at most.
EstLen(f, total) ==
  IF f = 0 THEN NoCode
  ELSE LET q == IF total < f THEN 1 ELSE total \div f
       IN Cardinality({n \in 0 .. 23 : 2^n <= q})

LitBits(s) == [b \in Literals |-> EstLen(Tally(s, b), Len(s))]

EntryCost(p) == ByteCost * (Len(p) + EntryBytes)

\* _bit_cost_gain.
Gain(p, f, bits, total) == f * (Sum(bits, p) - EstLen(f, total)) - EntryCost(p)

(***************************************************************************)
(* Candidates                                                              *)
(***************************************************************************)

\* _tier2_ngrams: how often p occurs in the window, overlaps included.
NgramCount(d, p) ==
  LET win == Slice(d, ScanWindow)
  IN Cardinality({i \in DOMAIN win : At(win, i, p)})

Spans(d) == (DOMAIN d) \X (DOMAIN d)

Ngrams(d) == {SubSeq(d, r[1], r[2]) :
                r \in {r \in Spans(d) : r[2] - r[1] + 1 \in NgramMin .. NgramMax}}

\* _tier3_words: the runs of word characters, from one that is not to the next.
WordsAt(d) ==
  {r \in Spans(d) :
     /\ r[2] - r[1] + 1 \in WordMin .. WordMax
     /\ \A k \in r[1] .. r[2] : d[k] \in WordLiterals
     /\ r[1] > 1 => d[r[1] - 1] \notin WordLiterals
     /\ r[2] < Len(d) => d[r[2] + 1] \notin WordLiterals}
WordCount(d, p) == Cardinality({w \in WordsAt(d) : SubSeq(d, w[1], w[2]) = p})

\* _select_candidates: those that pay, the most profitable first.
Candidates(d) ==
  LET freq(p) == IF NgramCount(d, p) >= floor /\ Len(p) <= NgramMax
                   THEN NgramCount(d, p) ELSE WordCount(d, p)
      gain == [p \in Ngrams(d) \cup {SubSeq(d, w[1], w[2]) : w \in WordsAt(d)} |->
                 Gain(p, freq(p), LitBits(d), Len(d))]
      good == {p \in DOMAIN gain : freq(p) >= floor /\ gain[p] > 0}
      Before(p, q) == gain[p] > gain[q] \/ (gain[p] = gain[q] /\ LexLess(p, q))
      order == Sorted(good, Before)
  IN Slice(order, MaxInitialDict)

\* _segment_greedy: at each place the longest pattern that fits.
Greedy(d, ps) ==
  LET from[i \in 1 .. Len(d) + 1] ==
        LET fit == {k \in DOMAIN ps : At(d, i, ps[k])} IN
        IF i > Len(d) THEN <<>>
        ELSE IF fit = {} THEN <<d[i]>> \o from[i + 1]
        ELSE LET k == CHOOSE k \in fit : \A j \in fit : Len(ps[j]) <= Len(ps[k])
             IN <<Id(k)>> \o from[i + Len(ps[k])]
  IN from[1]

(***************************************************************************)
(* Blocks from adjacent pairs                                              *)
(***************************************************************************)
PairCount(s, a, b) == Cardinality({i \in 1 .. Len(s) - 1 : s[i] = a /\ s[i + 1] = b})

\* The pairs of one round that pay, the dictionary cost of a child that no
\* other place uses given back, as [a, b, bytes, gain], best first.
Accepted(s, ps) ==
  LET pairs == {<<s[i], s[i + 1]>> : i \in 1 .. Len(s) - 1}
      offer(a, b) ==
        LET f == PairCount(s, a, b)
            bytes == Bytes(a, ps) \o Bytes(b, ps)
            back(c) == IF refund /\ c >= FirstPattern /\ Tally(s, c) = f /\ a # b
                         THEN EntryCost(Bytes(c, ps)) ELSE 0
        IN [a |-> a, b |-> b, bytes |-> bytes,
            gain |-> Gain(bytes, f, LitBits(s), Len(s)) + back(a) + back(b)]
      good == {o \in {offer(p[1], p[2]) : p \in pairs} :
                 /\ PairCount(s, o.a, o.b) >= floor
                 /\ Len(o.bytes) <= MaxBlock /\ o.gain > 0}
      Before(x, y) ==
        \/ x.gain > y.gain
        \/ x.gain = y.gain /\ LexLess(x.bytes, y.bytes)
        \/ x.gain = y.gain /\ x.bytes = y.bytes /\ LexLess(<<x.a, x.b>>, <<y.a, y.b>>)
  IN Sorted(good, Before)

\* The dictionary with the blocks of the best pairs, as far as there is room.
Extended(ps, offers) ==
  FoldLeft(LAMBDA dict, o :
              IF (\E k \in DOMAIN dict : dict[k] = o.bytes) \/ Len(dict) >= MaxDict
                THEN dict ELSE Append(dict, o.bytes),
           ps, Slice(offers, MergesPerRound))

\* The pairs that were given a symbol, and which.
Chosen(ps, offers) ==
  LET dict == Extended(ps, offers)
      best == Slice(offers, MergesPerRound)
      taken == {i \in DOMAIN best : \E k \in DOMAIN dict : dict[k] = best[i].bytes}
  IN [p \in {<<best[i].a, best[i].b>> : i \in taken} |->
        LET i == CHOOSE i \in taken : <<best[i].a, best[i].b>> = p
        IN Id(CHOOSE k \in DOMAIN dict : dict[k] = best[i].bytes)]

\* From left to right, without overlap.
Replaced(s, chosen) ==
  LET from[i \in 1 .. Len(s) + 1] ==
        IF i > Len(s) THEN <<>>
        ELSE IF i < Len(s) /\ <<s[i], s[i + 1]>> \in DOMAIN chosen
          THEN <<chosen[<<s[i], s[i + 1]>>]>> \o from[i + 2]
        ELSE <<s[i]>> \o from[i + 1]
  IN from[1]

(***************************************************************************)
(* Audit and optimal parse                                                 *)
(***************************************************************************)

\* Patterns that are used and, by their actual counts, pay.
Paying(s, ps) ==
  {k \in DOMAIN ps : /\ Tally(s, Id(k)) > 0
                     /\ Gain(ps[k], Tally(s, Id(k)), LitBits(data), Len(s)) > 0}

\* Mutation: the symbols keep the numbers they had before patterns were dropped.
Audited_NotRenumbered(s, ps) ==
  LET kept == Paying(s, ps)
      order == Sorted(kept, LAMBDA a, b : a < b)
  IN [ids |-> FlattenSeq([i \in DOMAIN s |->
                IF s[i] \in Literals \/ s[i] \in {Id(k) : k \in kept}
                  THEN <<s[i]>> ELSE Bytes(s[i], ps)]),
      entries |-> [k \in DOMAIN order |-> ps[order[k]]]]

\* _final_audit: the others are dropped, spelled out, and the rest renumbered.
Audited(s, ps) ==
  LET kept == Paying(s, ps)
      order == Sorted(kept, LAMBDA a, b : a < b)
      new(x) == Id(CHOOSE k \in DOMAIN order : Id(order[k]) = x)
  IN [ids |-> FlattenSeq([i \in DOMAIN s |->
                IF s[i] \in Literals THEN <<s[i]>>
                ELSE IF s[i] \in {Id(k) : k \in kept} THEN <<new(s[i])>>
                ELSE Bytes(s[i], ps)]),
      entries |-> [k \in DOMAIN order |-> ps[order[k]]]]

Bits(x) == IF x \in DOMAIN length THEN length[x] ELSE NoCode
Price(s) == FoldLeft(LAMBDA sum, x : sum + Bits(x), 0, s)

\* Symbols that end at place j, and where they start.
Ending(d, ps, j) ==
  {[x |-> d[j], from |-> j]} \cup
  {[x |-> Id(k), from |-> j - Len(ps[k]) + 1] :
     k \in {k \in DOMAIN ps : Len(ps[k]) <= j /\ At(d, j - Len(ps[k]) + 1, ps[k])}}

\* Place by place, Best of the ends of each, from what leads up to them.
PlaceByPlace(d, ps, Best(_, _), start) ==
  FoldLeft(LAMBDA upto, j : Append(upto, Best(upto, Ending(d, ps, j))),
           <<start>>, [j \in DOMAIN d |-> j])[Len(d) + 1]

\* Mutation: the cheapest last step is taken, whatever leads up to it.
Parse_LastStep(d, ps) ==
  LET Best(upto, ends) ==
        LET e == CHOOSE e \in ends : \A o \in ends : Bits(e.x) <= Bits(o.x)
        IN Append(upto[e.from], e.x)
  IN PlaceByPlace(d, ps, Best, <<>>)

\* _segment_optimal: the cheapest way to each place; among equals the one that
\* was found first, which is the symbol that starts first.
Parse(d, ps) ==
  LET Best(upto, ends) ==
        LET cost == [e \in ends |-> upto[e.from].cost + Bits(e.x)]
            cheap == {e \in ends : \A o \in ends : cost[e] <= cost[o]}
            first == CHOOSE e \in cheap : \A o \in cheap : e.from <= o.from
        IN [ids |-> Append(upto[first.from].ids, first.x), cost |-> cost[first]]
  IN PlaceByPlace(d, ps, Best, [ids |-> <<>>, cost |-> 0]).ids

(***************************************************************************)
(* _compress_core                                                          *)
(***************************************************************************)
Coder == UNCHANGED <<limit, weight, level, rounds, length, input, writer, filed, codec>>

SearchInit ==
  \/ /\ CoderInit
     /\ data = <<>> /\ floor = 0 /\ refund = FALSE
     /\ ids = <<>> /\ entries = <<>> /\ turn = 0 /\ pass = "none"
  \/ /\ Entered("select", Limits \ {2})
     /\ data \in Texts /\ floor \in Floors /\ refund \in BOOLEAN
     /\ ids = <<>> /\ entries = <<>> /\ turn = 0 /\ pass = "search"

\* Candidates and the greedy parse over them.
Select ==
  /\ loop = "select"
  /\ entries' = Candidates(data)
  /\ ids' = Greedy(data, entries')
  /\ turn' = MergeRounds
  /\ loop' = "grow"
  /\ UNCHANGED <<data, floor, refund, pass>> /\ Coder

\* _grow_blocks, one round.
Grow ==
  LET chosen == Chosen(entries, Accepted(ids, entries)) IN
  /\ loop = "grow"
  /\ turn > 0 /\ Len(entries) < MaxDict /\ Len(ids) > 1 /\ DOMAIN chosen # {}
  /\ entries' = Extended(entries, Accepted(ids, entries))
  /\ ids' = Replaced(ids, chosen)
  /\ turn' = turn - 1
  /\ UNCHANGED <<loop, data, floor, refund, pass>> /\ Coder

Grown ==
  /\ loop = "grow"
  /\ \/ turn = 0 \/ Len(entries) >= MaxDict \/ Len(ids) < 2
     \/ DOMAIN Chosen(entries, Accepted(ids, entries)) = {}
  /\ LET a == Audited(ids, entries) IN ids' = a.ids /\ entries' = a.entries
  /\ loop' = "count"
  /\ \/ pass' = "tune" /\ turn' = DpRounds    \* options.dp
     \/ pass' = "final" /\ turn' = 0
  /\ UNCHANGED <<data, floor, refund>> /\ Coder

\* _build_lengths of the symbols as they are counted now.
CountIds ==
  /\ loop = "count"
  /\ weight' = [x \in {ids[i] : i \in DOMAIN ids} |-> Tally(ids, x)]
  /\ length' = [x \in DOMAIN weight' |-> 0]
  /\ rounds' = 0
  /\ level' = IF limit = 0 THEN Leaves' ELSE <<>>
  /\ loop' = "lengths"
  /\ UNCHANGED <<limit, input, writer, filed, codec, search>>

\* One round of the optimal parse.
ParseRound ==
  /\ loop = "codes" /\ pass = "tune" /\ turn > 0
  /\ ids' = Parse(data, entries)
  /\ turn' = turn - 1
  /\ loop' = "count"
  /\ UNCHANGED <<data, floor, refund, entries, pass>> /\ Coder

FinalAudit ==
  /\ loop = "codes" /\ pass = "tune" /\ turn = 0
  /\ LET a == Audited(ids, entries) IN ids' = a.ids /\ entries' = a.entries
  /\ pass' = "final"
  /\ loop' = "count"
  /\ UNCHANGED <<data, floor, refund, turn>> /\ Coder

\* The container takes what the search has found, and nothing else.
EmitFound(coded) == pass = "final" /\ Emit(entries, coded) /\ UNCHANGED search

PackNext ==
  /\ pass = "final" /\ Len(text) < Len(ids)
  /\ PackSymbol(ids[Len(text) + 1])
  /\ UNCHANGED search

PackFound(lost) ==
  /\ pass = "final" /\ Len(text) = Len(ids)
  /\ PackEnd(lost)
  /\ UNCHANGED search

Searching ==
  \/ Select \/ Grow \/ Grown \/ CountIds \/ ParseRound \/ FinalAudit
  \/ \E coded \in BOOLEAN : EmitFound(coded)
  \/ PackNext
  \/ \E lost \in 0 .. MaxCut : PackFound(lost)

SearchNext ==
  \/ Searching
  \/ (Lengths \/ Decode) /\ UNCHANGED search
  \/ pass = "none" /\ Free /\ UNCHANGED search

SearchSpec == SearchInit /\ [][SearchNext]_all

(***************************************************************************)
(* Properties                                                              *)
(***************************************************************************)

\* All ways to write d with literals and patterns.
Parses(d, ps) ==
  LET AllOf(upto, ends) == UNION {{Append(s, e.x) : s \in upto[e.from]} : e \in ends}
  IN PlaceByPlace(d, ps, AllOf, {<<>>})

\* A parse round is a shortest path over the lengths of the round before: no
\* other way to write the file takes fewer bits ("shortest-path segmentation
\* over actual code lengths").
BestParse ==
  [][ParseRound => \A s \in Parses(data, entries) : Price(ids') <= Price(s)]_all

\* The longest a candidate or a block may be: MAX_BLOCK, as shipped.
LongestEntry == Max({MaxBlock, NgramMax, WordMax})

\* What is coded stands for the file, and the dictionary in the container has
\* no entry that is unused, twice there, or above the caps: growing, dropping,
\* renumbering and parsing again keep symbols and patterns in step.
DictionaryTight ==
  /\ loop # "select" /\ pass # "none" =>
       /\ \A i \in DOMAIN ids : ids[i] \notin Literals => ids[i] <= Id(Len(entries))
       /\ Expand(ids, entries) = data
  /\ pass = "final" =>
       /\ Len(entries) <= MaxDict
       /\ \A k \in DOMAIN entries :
            /\ Len(entries[k]) <= LongestEntry /\ Tally(ids, Id(k)) > 0
            /\ \A j \in DOMAIN entries : entries[j] = entries[k] => j = k

\* The whole engine: what was packed is what is decoded (RoundTrip), and it is
\* the file that was searched; a file cut short is not decoded at all.
Lossless ==
  /\ RoundTrip /\ TruncationDetected
  /\ loop = "done" /\ pass = "final" /\ cut = 0 => out = data

\* The code is the best one within the limit (OptimalLengths), and its table
\* leaves no entry out (TableComplete), for the counts of every round too.
CodesSound == OptimalLengths /\ TableComplete
=============================================================================
