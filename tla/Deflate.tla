------------------------------ MODULE Deflate ------------------------------
(***************************************************************************)
(* What a compressed file means, and how RFC 1951 and 1952 write it down:  *)
(* the reference that Inflate is checked against.  A stream is a sequence  *)
(* of blocks; a block has a type, and bytes (stored) or symbols.  A symbol *)
(* is a literal, a byte n as <<n>>, or a copy <<length, distance>>.  A     *)
(* dynamic block also has its two codes, as sequences of code lengths, and *)
(* the run-length tokens <<symbol, extra bits>> that write them.           *)
(***************************************************************************)
EXTENDS Integers, Sequences, FiniteSets, SequencesExt

\* The bytes of a stream.  A copy repeats the last `distance` bytes as often
\* as it needs them.
Expanded(data, sym) ==
  IF Len(sym) = 1 THEN data \o sym
  ELSE data \o [i \in 1 .. sym[1] |-> data[Len(data) - sym[2] + 1 + ((i - 1) % sym[2])]]
BlockMeaning(before, block) ==
  LET syms == block.syms
      upto[i \in 0 .. Len(syms)] == IF i = 0 THEN before ELSE Expanded(upto[i - 1], syms[i])
  IN  IF block.type = "stored" THEN before \o block.data ELSE upto[Len(syms)]
Meaning(stream) ==
  LET upto[i \in 0 .. Len(stream)] ==
        IF i = 0 THEN <<>> ELSE BlockMeaning(upto[i - 1], stream[i])
  IN  upto[Len(stream)]

-----------------------------------------------------------------------------
(* Numbers as bits, the lowest first; codes, the highest first.            *)

ToBits(v, n) == [i \in 1 .. n |-> (v \div 2^(i - 1)) % 2]
CodeBits(v, n) == [i \in 1 .. n |-> (v \div 2^(n - i)) % 2]

\* The canonical code of a symbol: the codes before it, in the order of their
\* length and then of their symbol, cut the unit interval from 0 on.
Shorter(code, s, l) == Cardinality({t \in DOMAIN code : code[t] = l}) * 2^(code[s] - l)
Canonical(code, s) ==
  LET cut[l \in 0 .. 15] == IF l = 0 THEN 0 ELSE cut[l - 1] + Shorter(code, s, l)
  IN  cut[code[s] - 1] + Cardinality({t \in 1 .. s - 1 : code[t] = code[s]})
Coded(code, s) == CodeBits(Canonical(code, s + 1), code[s + 1])

\* RFC 1951, 3.2.6: the fixed code of a literal or length.
FixedCoded(s) ==
  CASE s \in 0 .. 143 -> CodeBits(48 + s, 8)
    [] s \in 144 .. 255 -> CodeBits(400 + s - 144, 9)
    [] s \in 256 .. 279 -> CodeBits(s - 256, 7)
    [] OTHER -> CodeBits(192 + s - 280, 8)

\* RFC 1951, 3.2.5: the symbols of lengths and distances cover ranges that
\* double in size with every four, or two, symbols.
LengthRange(s) ==
  CASE s \in 257 .. 264 -> [base |-> s - 254, extra |-> 0]
    [] s \in 265 .. 284 ->
         LET e == (s - 261) \div 4
         IN  [base |-> 2^(e + 2) + 3 + ((s - 265) % 4) * 2^e, extra |-> e]
    [] s = 285 -> [base |-> 258, extra |-> 0]
DistRange(s) ==
  IF s < 4 THEN [base |-> s + 1, extra |-> 0]
  ELSE LET e == s \div 2 - 1
       IN  [base |-> 2^(e + 1) + 1 + (s % 2) * 2^e, extra |-> e]
SymbolFor(Covers(_), symbols, v) ==
  CHOOSE s \in symbols :
    /\ Covers(s).base <= v
    /\ \A t \in symbols : Covers(t).base <= v => t <= s

-----------------------------------------------------------------------------
(* Blocks and files.                                                       *)

SymbolBits(sym, Lit(_), Dist(_)) ==
  IF Len(sym) = 1 THEN Lit(sym[1])
  ELSE LET l == SymbolFor(LengthRange, 257 .. 285, sym[1])
           d == SymbolFor(DistRange, 0 .. 29, sym[2])
       IN  Lit(l) \o ToBits(sym[1] - LengthRange(l).base, LengthRange(l).extra)
             \o Dist(d) \o ToBits(sym[2] - DistRange(d).base, DistRange(d).extra)
SymbolsBits(syms, Lit(_), Dist(_)) ==
  FlattenSeq([i \in DOMAIN syms |-> SymbolBits(syms[i], Lit, Dist)]) \o Lit(256)

ClOrder == <<16, 17, 18, 0, 8, 7, 9, 6, 10, 5, 11, 4, 12, 3, 13, 2, 14, 1, 15>>
TokenExtra(s) == CASE s < 16 -> 0 [] s = 16 -> 2 [] s = 17 -> 3 [] s = 18 -> 7

\* The tables of a dynamic block; b.cl has the 19 lengths of the code for the
\* lengths, b.tokens write b.lit followed by b.dist.
TableBits(b) ==
  ToBits(Len(b.lit) - 257, 5) \o ToBits(Len(b.dist) - 1, 5) \o ToBits(15, 4)
    \o FlattenSeq([i \in 1 .. 19 |-> ToBits(b.cl[ClOrder[i] + 1], 3)])
    \o FlattenSeq([i \in DOMAIN b.tokens |->
         Coded(b.cl, b.tokens[i][1]) \o ToBits(b.tokens[i][2], TokenExtra(b.tokens[i][1]))])

\* The bits of a stream up to and with block b, whose head ends in `bits`.
Body(b, bits) == bits \o
  CASE b.type = "stored" ->
         ToBits(0, (8 - (Len(bits) % 8)) % 8) \o ToBits(Len(b.data), 16)
           \o ToBits(65535 - Len(b.data), 16)
           \o FlattenSeq([i \in DOMAIN b.data |-> ToBits(b.data[i], 8)])
    [] b.type = "fixed" ->
         SymbolsBits(b.syms, FixedCoded, LAMBDA d : CodeBits(d, 5))
    [] b.type = "dynamic" ->
         TableBits(b) \o SymbolsBits(b.syms, LAMBDA s : Coded(b.lit, s), LAMBDA d : Coded(b.dist, d))
    [] OTHER -> <<>>

TypeBits(b) == ToBits(CASE b.type = "stored" -> 0 [] b.type = "fixed" -> 1
                        [] b.type = "dynamic" -> 2 [] OTHER -> 3, 2)

BlockHead(b, final) == <<IF final THEN 1 ELSE 0>> \o TypeBits(b)
StreamBits(stream) ==
  LET upto[i \in 0 .. Len(stream)] ==
        IF i = 0 THEN <<>>
        ELSE Body(stream[i], upto[i - 1] \o BlockHead(stream[i], i = Len(stream)))
  IN  upto[Len(stream)]

ToBytes(bits) ==
  [k \in 1 .. (Len(bits) + 7) \div 8 |->
     LET low[i \in 0 .. 8] ==
           IF i = 0 THEN 0
           ELSE low[i - 1] + (IF 8 * (k - 1) + i <= Len(bits) THEN bits[8 * (k - 1) + i] * 2^(i - 1) ELSE 0)
     IN  low[8]]

Compressed(header, stream, Crc(_)) ==
  header \o ToBytes(StreamBits(stream)) \o Crc(Meaning(stream))
    \o ToBytes(ToBits(Len(Meaning(stream)), 24)) \o <<0>>
=============================================================================
