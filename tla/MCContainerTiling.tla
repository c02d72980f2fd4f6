------------------------- MODULE MCContainerTiling -------------------------
(* ContainerTiling on files of up to three pieces, at most two coded.     *)
EXTENDS ContainerTiling

a == Byte("a")
x == Byte("x")

Text  == <<a>>
Small == <<x>>
Dense == <<x, x>>

\* Streams: a literal and a match that overlaps itself; a stored block before
\* a coded one; a coded block that ends in the middle of a byte before a stored
\* one, as a flush leaves it; one that expands; a match that reaches too far
\* back; more than padding at the end.
Simple    == <<Coded(TRUE), Literal("a"), Match(2, 1), End>>
TwoBlocks == <<Plain(FALSE, 1, FirstSkip), a, Coded(TRUE), Literal("a"), Literal("b"), End, Pad>>
Flushed   == <<Coded(FALSE), Literal("a"), Literal("b"), End, Plain(TRUE, 1, 3), x>>
Growing   == <<Coded(TRUE), Literal("a"), Literal("b"), Match(6, 2), End>>
TooFar    == <<Coded(TRUE), Match(2, 1), End>>
Trailed   == <<Coded(TRUE), Literal("a"), End, x>>

Zlib(raw, sum) == <<ZlibHeader>> \o raw \o <<Adler(sum)>>
Zlibbed(raw) == Zlib(raw, Read(raw, 11).plain)

ZipPieces == {Text, Small, Dense, Simple, TwoBlocks, Flushed, Growing, TooFar,
              Trailed}
PdfPieces == {Text, Small, Dense, Zlibbed(Simple), Zlibbed(TwoBlocks), Zlibbed(Flushed),
              Zlibbed(Growing), Zlib(Simple, <<a>>)}

\* A component at a piece, one that covers the first two, and an empty one.
IsCoded(payload) == payload # <<>> /\ payload[1].t \in {"block", "zlib"}
Size(payload) == IF IsCoded(payload) THEN Len(Read(payload, 11).plain) ELSE 1

Ends(pieces) == [i \in 0 .. Len(pieces) |-> Len(FlattenSeq(SubSeq(pieces, 1, i)))]

Spans(pieces) ==
  LET e == Ends(pieces) IN
  {<<e[i - 1], e[i]>> : i \in DOMAIN pieces} \cup
    (IF Len(pieces) > 1 THEN {<<0, e[2]>>, <<e[1], e[1]>>} ELSE {})

Components(pieces) ==
  LET data == FlattenSeq(pieces)
      At(p) == SubSeq(data, p[1] + 1, p[2])
      all == {[s |-> p[1], e |-> p[2], text |-> t, coded |-> IsCoded(At(p)),
               size |-> Size(At(p))] : p \in Spans(pieces), t \in BOOLEAN}
  IN {c \in all : c.text \/ c.e - c.s > 1}

FilesOf(format, pieces) ==
  {[format |-> format, data |-> FlattenSeq(p), components |-> Components(p)] :
     p \in {q \in SeqOf(pieces, 3) \ {<<>>} :
             Cardinality({i \in DOMAIN q : IsCoded(q[i])}) <= 2}}

MCFiles == FilesOf("zip", ZipPieces) \cup FilesOf("pdf", PdfPieces)
=============================================================================
