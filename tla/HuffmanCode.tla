---------------------------- MODULE HuffmanCode ----------------------------
(***************************************************************************)
(* The entropy coder of the AFC1 and AFC2 containers (afc.py): code lengths *)
(* (package-merge under a limit, or the two-queue method without one),     *)
(* canonical codes, the bit writer, and the two decoders of               *)
(* _decode_bitstream.  A container holds up to two bit streams under one   *)
(* table: the dictionary's bytes and the symbols of the text, each padded  *)
(* to a whole number of bytes.  A step is one turn of a loop of the code.  *)
(*                                                                         *)
(* Abstractions.  The weights are arbitrary, not the counts of the text    *)
(* that follows.  The header carries its fields without loss: varints and  *)
(* nibbles are left out.  Whether packing the dictionary pays is left open. *)
(* StructuralSearch composes the steps, with and without a search in front. *)
(***************************************************************************)
EXTENDS Integers, Sequences, FiniteSets, SequencesExt

CONSTANTS
  Literals,     \* byte values
  FirstPattern, \* 256: the id of the first dictionary pattern
  MaxPatterns,  \* most patterns (bound)
  PatternLen,   \* their length (bound)
  Weights,      \* frequencies a symbol may have
  Limits,       \* MAX_CODE_LEN; 0 asks for huffman_lengths, without a limit
  ByteBits,     \* 8
  LutLimit,     \* longest code of the table decoder, 16
  MaxIds,       \* most symbols in a text (bound)
  MaxCut        \* most bytes a file loses (bound)

ASSUME LiteralsBelow == Literals \subseteq 0 .. FirstPattern - 1

VARIABLES
  loop,     \* which loop runs
  limit,    \* of package_merge_lengths, 0 for huffman_lengths
  weight,   \* [symbol -> frequency]
  level,    \* the packages: prev_w and prev_l, or the merge queue
  rounds,   \* levels built so far
  length,   \* [symbol -> code length]
  patterns, \* the dictionary
  packed,   \* it is stored as a bit stream
  text,     \* symbols written to the text's stream
  writer,   \* BitWriter: buf, acc, nb
  head,     \* bytes of the dictionary's stream
  known,    \* the decoder's patterns
  cut,      \* bytes lost from the end of the file
  reader,   \* _decode_bitstream: acc, nb, pos, or code and L of the walk
  out       \* bytes decoded

coder   == <<limit, weight, level, rounds>>
input   == <<patterns, packed, text>>
codec   == <<reader, known, out>>
filed   == <<head, cut>>
machine == <<loop, coder, length, input, writer, filed, codec>>

Symbols == Literals \cup (FirstPattern .. FirstPattern + MaxPatterns - 1)

\* The elements of S in the strict total order Before.
Sorted(S, Before(_, _)) ==
  [k \in 1 .. Cardinality(S) |->
     CHOOSE x \in S : Cardinality({y \in S : Before(y, x)}) = k - 1]

\* The first n elements of s, or as many as there are.
Slice(s, n) == SubSeq(s, 1, IF n <= Len(s) THEN n ELSE Len(s))

NoWriter == [buf |-> <<>>, acc |-> 0, nb |-> 0]
ReaderAt(pos) == [acc |-> 0, nb |-> 0, pos |-> pos, code |-> 0, len |-> 0]

(***************************************************************************)
(* Code lengths                                                            *)
(***************************************************************************)

\* Symbols by (frequency, id), each a package [w, of] with itself inside.
Leaves ==
  LET ByWeight(a, b) == \/ weight[a] < weight[b]
                        \/ weight[a] = weight[b] /\ a < b
      order == Sorted(DOMAIN weight, ByWeight)
  IN [k \in DOMAIN order |-> [w |-> weight[order[k]], of |-> <<order[k]>>]]

Join(a, b) == [w |-> a.w + b.w, of |-> a.of \o b.of]

Pairs(s) == [i \in 1 .. Len(s) \div 2 |-> Join(s[2 * i - 1], s[2 * i])]

\* Two ascending lists in one, the leaf first when the weights are equal.
Merge(leaves, packages) ==
  LET all == leaves \o packages
      Before(i, j) == all[i].w < all[j].w \/ (all[i].w = all[j].w /\ i < j)
      order == Sorted(DOMAIN all, Before)
  IN [k \in DOMAIN order |-> all[order[k]]]

\* How often each symbol occurs in the packages of s.
Counts(s) ==
  [x \in DOMAIN weight |->
     Cardinality(UNION {{k} \X {i \in DOMAIN s[k].of : s[k].of[i] = x} :
                        k \in DOMAIN s})]

AtLeastOne(f) == [x \in DOMAIN f |-> IF f[x] = 0 THEN 1 ELSE f[x]]

\* Nothing is coded yet.
Entered(first, limits) ==
  /\ loop = first
  /\ limit \in limits
  /\ rounds = 0 /\ weight = <<>> /\ length = <<>> /\ level = <<>>
  /\ patterns = <<>> /\ packed = FALSE /\ text = <<>>
  /\ writer = NoWriter /\ head = <<>> /\ cut = 0
  /\ reader = ReaderAt(0) /\ known = <<>> /\ out = <<>>

CoderInit ==
  /\ loop = "lengths"
  /\ limit \in Limits
  /\ \E S \in SUBSET Symbols \ {{}} : weight \in [S -> Weights]
  /\ rounds = 0
  /\ level = IF limit = 0 THEN Leaves ELSE <<>>
  /\ length = [x \in DOMAIN weight |-> 0]
  /\ patterns = <<>> /\ packed = FALSE /\ text = <<>>
  /\ writer = NoWriter /\ head = <<>> /\ cut = 0
  /\ reader = ReaderAt(0) /\ known = <<>> /\ out = <<>>

Alphabet == Cardinality(DOMAIN weight)

\* One symbol gets a code of one bit from either function.
SingleSymbol ==
  /\ loop = "lengths" /\ Alphabet = 1
  /\ length' = AtLeastOne(length)
  /\ loop' = "codes"
  /\ UNCHANGED <<coder, input, writer, filed, codec>>

\* package_merge_lengths raises.
TooManySymbols ==
  /\ loop = "lengths" /\ Alphabet > 1 /\ rounds = 0
  /\ limit > 0 /\ Alphabet > 2^limit
  /\ loop' = "refused"
  /\ UNCHANGED <<coder, length, input, writer, filed, codec>>

\* One level of package-merge.
PackageLevel ==
  /\ loop = "lengths" /\ Alphabet > 1
  /\ limit > 0 /\ Alphabet <= 2^limit
  /\ rounds < limit
  /\ level' = Merge(Leaves, Pairs(level))
  /\ rounds' = rounds + 1
  /\ UNCHANGED <<loop, limit, weight, length, input, writer, filed, codec>>

\* Mutation: one element of the last level is left out.
CountPackages_OneShort ==
  /\ loop = "lengths" /\ Alphabet > 1
  /\ limit > 0 /\ rounds = limit
  /\ length' = AtLeastOne(Counts(Slice(level, 2 * Alphabet - 3)))
  /\ loop' = "codes"
  /\ UNCHANGED <<coder, input, writer, filed, codec>>

\* Each symbol's length: its occurrences in the first 2n - 2 elements.
CountPackages ==
  /\ loop = "lengths" /\ Alphabet > 1
  /\ limit > 0 /\ rounds = limit
  /\ length' = AtLeastOne(Counts(Slice(level, 2 * Alphabet - 2)))
  /\ loop' = "codes"
  /\ UNCHANGED <<coder, input, writer, filed, codec>>

\* huffman_lengths: take the two lightest nodes, a leaf before a merge, and
\* put them under a new one.  Merges come out in ascending order, so the two
\* queues are one ascending list in which a new merge goes after its equals.
TakeTwo ==
  LET node == Join(level[1], level[2])
      rest == SubSeq(level, 3, Len(level))
      lighter == {k \in DOMAIN rest : rest[k].w <= node.w}
  IN
  /\ loop = "lengths" /\ limit = 0 /\ Alphabet > 1 /\ Len(level) > 1
  /\ level' = SubSeq(rest, 1, Cardinality(lighter)) \o <<node>> \o
              SubSeq(rest, Cardinality(lighter) + 1, Len(rest))
  /\ length' = [x \in DOMAIN length |->
                  length[x] + Counts(<<node>>)[x]]
  /\ UNCHANGED <<loop, limit, weight, rounds, input, writer, filed, codec>>

RootReached ==
  /\ loop = "lengths" /\ limit = 0 /\ Alphabet > 1 /\ Len(level) = 1
  /\ length' = AtLeastOne(length)
  /\ loop' = "codes"
  /\ UNCHANGED <<coder, input, writer, filed, codec>>

(***************************************************************************)
(* Canonical codes                                                         *)
(***************************************************************************)
MaxLength == CHOOSE n \in {length[x] : x \in DOMAIN length} :
               \A x \in DOMAIN length : length[x] <= n

\* canonical_codes: consecutive codes by (length, id), shifted left whenever
\* the length grows.
Codes(l) ==
  LET ByLength(a, b) == l[a] < l[b] \/ (l[a] = l[b] /\ a < b)
      order == Sorted(DOMAIN l, ByLength)
      code[k \in DOMAIN order] ==
        IF k = 1 THEN 0
        ELSE (code[k - 1] + 1) * 2^(l[order[k]] - l[order[k - 1]])
  IN [x \in DOMAIN l |-> code[CHOOSE k \in DOMAIN order : order[k] = x]]

CodedLiterals == DOMAIN length \cap Literals
CodedPatterns == DOMAIN length \ Literals

Dictionaries == UNION {[1 .. n -> [1 .. PatternLen -> Literals]] :
                       n \in 0 .. MaxPatterns}

\* The parse is over and the container is put together.  Only AFC2 packs its
\* dictionary, and it takes no code longer than 16.  The lengths are all that
\* is left of the weights.
Emit(ps, coded) ==
  /\ loop = "codes"
  /\ \A x \in CodedPatterns : x - FirstPattern < Len(ps)
  /\ coded => /\ MaxLength <= LutLimit
              /\ \A k \in DOMAIN ps : \A i \in DOMAIN ps[k] :
                   ps[k][i] \in CodedLiterals
  /\ patterns' = ps /\ packed' = (coded /\ ps # <<>>)
  /\ loop' = IF packed' THEN "pack_dictionary" ELSE "pack_text"
  /\ weight' = <<>> /\ level' = <<>> /\ rounds' = 0 /\ limit' = 0
  /\ UNCHANGED <<length, text, writer, filed, codec>>

(***************************************************************************)
(* The bit writer                                                          *)
(***************************************************************************)

\* BitWriter.put: shift the code in, move every whole byte out.
Put(b, code, len) ==
  LET acc == b.acc * 2^len + code
      nb  == b.nb + len
  IN [buf |-> b.buf \o [i \in 1 .. nb \div ByteBits |->
                          (acc \div 2^(nb - i * ByteBits)) % 2^ByteBits],
      acc |-> acc % 2^(nb % ByteBits),
      nb  |-> nb % ByteBits]

\* BitWriter.finish: pad the last byte with zeros.
Finish(b) == IF b.nb = 0 THEN b.buf
             ELSE Append(b.buf, b.acc * 2^(ByteBits - b.nb))

PackAll(ids) ==
  LET pack[k \in 0 .. Len(ids)] ==
        IF k = 0 THEN NoWriter
        ELSE Put(pack[k - 1], Codes(length)[ids[k]], length[ids[k]])
  IN Finish(pack[Len(ids)])

\* emit_afc2: the bytes of all patterns, in the codes of the text.
PackDictionary ==
  /\ loop = "pack_dictionary"
  /\ head' = PackAll(FlattenSeq(patterns))
  /\ loop' = "pack_text"
  /\ UNCHANGED <<coder, length, input, writer, cut, codec>>

\* pack_ids, one symbol.
PackSymbol(x) ==
  /\ loop = "pack_text"
  /\ writer' = Put(writer, Codes(length)[x], length[x])
  /\ text' = Append(text, x)
  /\ UNCHANGED <<loop, coder, length, patterns, packed, filed, codec>>

\* The blob is complete; the file may lose its end before it is read.
PackEnd(lost) ==
  LET body == Finish(writer) IN
  /\ loop = "pack_text"
  /\ lost <= Len(body)
  /\ writer' = [NoWriter EXCEPT
                  !.buf = SubSeq(head \o body, 1, Len(head \o body) - lost)]
  /\ cut' = lost
  /\ loop' = IF text = <<>> THEN "done"
              ELSE IF packed THEN "read_dictionary" ELSE "read_text"
  /\ known' = IF packed THEN <<>> ELSE patterns
  /\ UNCHANGED <<coder, length, input, head, reader, out>>

(***************************************************************************)
(* The decoder                                                             *)
(***************************************************************************)
Stream == writer.buf

Bytes(x, ps) == IF x \in Literals THEN <<x>> ELSE ps[x - FirstPattern + 1]

Data == FlattenSeq([k \in DOMAIN text |-> Bytes(text[k], patterns)])

\* The original size, or the total length of the patterns.
Orig == IF loop = "read_dictionary" THEN Len(FlattenSeq(patterns)) ELSE Len(Data)

Fitting(p) == IF Len(p) <= Orig - Len(out) THEN p
           ELSE SubSeq(p, 1, Orig - Len(out))

\* A dictionary is read with no patterns yet.
Known(x) == x \in Literals \/ x - FirstPattern < Len(known)

Decoded(x) == out \o Fitting(Bytes(x, known))

Reading == loop \in {"read_dictionary", "read_text"} /\ Len(out) < Orig
ByTable == MaxLength <= LutLimit

Corrupt == loop' = "corrupt" /\ UNCHANGED codec

\* One more byte for the table decoder.
Refill ==
  /\ Reading /\ ByTable
  /\ reader.nb < MaxLength /\ reader.pos < Len(Stream)
  /\ reader' = [reader EXCEPT !.acc = @ * 2^ByteBits + Stream[reader.pos + 1],
                              !.nb = @ + ByteBits, !.pos = @ + 1]
  /\ UNCHANGED <<loop, coder, length, input, writer, filed, known, out>>

\* The next MaxLength bits, with zeros after the end of the stream.
Index == IF reader.nb >= MaxLength
           THEN (reader.acc \div 2^(reader.nb - MaxLength)) % 2^MaxLength
           ELSE (reader.acc * 2^(MaxLength - reader.nb)) % 2^MaxLength

\* _build_decode_lut: the symbols whose entries include index i.
Table(i) == {x \in DOMAIN length :
               LET span == 2^(MaxLength - length[x])
               IN i \div span = Codes(length)[x]}

\* Mutation: the padding is decoded like bits of the stream.
LookUp_Unchecked ==
  /\ Reading /\ ByTable
  /\ reader.nb >= MaxLength \/ reader.pos = Len(Stream)
  /\ IF \E x \in Table(Index) : Known(x)
       THEN LET x == CHOOSE y \in Table(Index) : TRUE IN
            /\ reader' = [reader EXCEPT !.nb = IF @ > length[x] THEN @ - length[x] ELSE 0,
                                        !.acc = IF reader.nb > length[x]
                                    THEN @ % 2^(reader.nb - length[x]) ELSE 0]
            /\ out' = Decoded(x)
            /\ UNCHANGED <<loop, known>>
       ELSE Corrupt
  /\ UNCHANGED <<coder, length, input, writer, filed>>

\* One table look-up.
LookUp ==
  /\ Reading /\ ByTable
  /\ reader.nb >= MaxLength \/ reader.pos = Len(Stream)
  /\ IF \E x \in Table(Index) : length[x] <= reader.nb /\ Known(x)
       THEN LET x == CHOOSE y \in Table(Index) : TRUE IN
            /\ reader' = [reader EXCEPT !.nb = @ - length[x],
                                        !.acc = @ % 2^(reader.nb - length[x])]
            /\ out' = Decoded(x)
            /\ UNCHANGED <<loop, known>>
       ELSE Corrupt
  /\ UNCHANGED <<coder, length, input, writer, filed>>

\* One bit of the walk for long codes: nb counts the bits used of a byte.
\* Codes of one length are consecutive, so first code and count name them.
WalkBit ==
  LET bit  == (Stream[reader.pos + 1] \div 2^(ByteBits - 1 - reader.nb)) % 2
      code == 2 * reader.code + bit
      len  == reader.len + 1
      hit  == {x \in DOMAIN length : length[x] = len /\ Codes(length)[x] = code}
      next == [reader EXCEPT !.nb = (@ + 1) % ByteBits,
                 !.pos = IF reader.nb = ByteBits - 1 THEN @ + 1 ELSE @]
  IN
  /\ Reading /\ ~ByTable
  /\ reader.pos < Len(Stream)
  /\ \/ /\ hit = {}
        /\ reader' = [next EXCEPT !.code = code, !.len = len]
        /\ UNCHANGED <<loop, known, out>>
     \/ \E x \in hit :
          IF Known(x)
            THEN /\ reader' = [next EXCEPT !.code = 0, !.len = 0]
                 /\ out' = Decoded(x)
                 /\ UNCHANGED <<loop, known>>
            ELSE Corrupt
  /\ UNCHANGED <<coder, length, input, writer, filed>>

\* The bits end before the data does: a ValueError.
WalkTruncated ==
  /\ Reading /\ ~ByTable /\ reader.pos = Len(Stream)
  /\ Corrupt
  /\ UNCHANGED <<coder, length, input, writer, filed>>

BitsOf(ids) == LET bits[k \in 0 .. Len(ids)] ==
                     IF k = 0 THEN 0 ELSE bits[k - 1] + length[ids[k]]
               IN bits[Len(ids)]

\* The bytes of the dictionary, cut up by the lengths of its entries.
Slices ==
  LET ends[k \in 0 .. Len(patterns)] ==
        IF k = 0 THEN 0 ELSE ends[k - 1] + Len(patterns[k])
  IN [k \in DOMAIN patterns |-> SubSeq(out, ends[k - 1] + 1, ends[k])]

\* Mutation: the text is read from where the dictionary's decoder stopped.
DictionaryRead_FromReader ==
  /\ loop = "read_dictionary" /\ Len(out) >= Orig
  /\ reader' = ReaderAt(reader.pos)
  /\ known' = Slices
  /\ out' = <<>>
  /\ loop' = "read_text"
  /\ UNCHANGED <<coder, length, input, writer, filed>>

\* The text starts after the bytes the dictionary's codes take, wherever the
\* decoder of the dictionary stopped reading.  From here on the decoder has
\* the patterns it has read.
DictionaryRead ==
  /\ loop = "read_dictionary" /\ Len(out) >= Orig
  /\ reader' = ReaderAt((BitsOf(out) + ByteBits - 1) \div ByteBits)
  /\ known' = Slices
  /\ out' = <<>>
  /\ loop' = "read_text"
  /\ UNCHANGED <<coder, length, input, writer, filed>>

TextRead ==
  /\ loop = "read_text" /\ Len(out) >= Orig
  /\ loop' = "done"
  /\ UNCHANGED <<coder, length, input, writer, filed, codec>>

Lengths == SingleSymbol \/ TooManySymbols \/ PackageLevel \/ CountPackages
           \/ TakeTwo \/ RootReached

\* Any dictionary, any text.
Free == \/ \E ps \in Dictionaries, coded \in BOOLEAN : Emit(ps, coded)
        \/ Len(text) < MaxIds /\ \E x \in DOMAIN length : PackSymbol(x)
        \/ \E lost \in 0 .. MaxCut : PackEnd(lost)

Decode == \/ PackDictionary \/ Refill \/ LookUp \/ WalkBit \/ WalkTruncated
          \/ DictionaryRead \/ TextRead
          \/ loop \in {"done", "refused", "corrupt"} /\ UNCHANGED machine

(***************************************************************************)
(* Properties                                                              *)
(***************************************************************************)

\* A tree over n symbols is at most n - 1 deep.
Longest == IF limit > 0 THEN limit ELSE IF Alphabet = 1 THEN 1 ELSE Alphabet - 1

TotalBits(l) == Cardinality(UNION {{x} \X (1 .. weight[x] * l[x]) : x \in DOMAIN l})

\* The sum of 2^-length, in units of 2^-m.
Kraft(l, m) == Cardinality(UNION {{x} \X (1 .. 2^(m - l[x])) : x \in DOMAIN l})

\* No prefix code within the limit encodes the counted text in fewer bits, and
\* the lengths are those of such a code: the greedy loops of huffman_lengths
\* and package_merge_lengths, against all assignments.
OptimalLengths ==
  loop = "codes" =>
    /\ \A x \in DOMAIN length : length[x] \in 1 .. Longest
    /\ Kraft(length, Longest) <= 2^Longest
    /\ \A l \in [DOMAIN length -> 1 .. Longest] :
         Kraft(l, Longest) <= 2^Longest => TotalBits(length) <= TotalBits(l)

\* For two symbols or more every bit string leads to exactly one of them, so
\* that no entry of _build_decode_lut is left at its initial zeros (symbol 0,
\* advance 0) and none is overwritten.
TableComplete ==
  loop = "pack_text" /\ Cardinality(DOMAIN length) > 1 =>
    \A i \in 0 .. 2^MaxLength - 1 : Cardinality(Table(i)) = 1

\* What was packed is what is decoded, by the table and by the walk, with the
\* dictionary in the same blob or stored as it is; no stream the writer made
\* is called corrupt or truncated.
RoundTrip == cut = 0 => /\ loop # "corrupt"
                        /\ loop = "done" => out = Data

\* A file that lost its end is never decoded to some text: the padding zeros
\* and the bits of the dictionary do not stand in for what is missing.
TruncationDetected == cut > 0 => loop # "done"
=============================================================================
