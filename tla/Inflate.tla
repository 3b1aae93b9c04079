------------------------------ MODULE Inflate ------------------------------
(***************************************************************************)
(* decompress_gzip: the header, the deflate blocks and the trailer of a    *)
(* compressed kernel module.  A file is a sequence of bytes (0 .. 255);    *)
(* the bit reader is a position in bits behind the header.  What a read    *)
(* returns is a record of its value and the position after it; a value of  *)
(* -1 is the failure that every caller passes on.                          *)
(***************************************************************************)
EXTENDS Integers, Sequences, FiniteSets, SequencesExt

CONSTANTS
  Input,       \* the files, a function from their names
  Crc32(_)     \* the checksum of a sequence of bytes, four bytes

VARIABLES
  in,       \* the name of the file
  bytes,    \* the file as read into memory
  phase,    \* the next step
  off,      \* where the compressed data begin
  pos,      \* the bits consumed behind off
  last,     \* the block is the last one
  lens,     \* the code lengths read so far
  sizes,    \* how many lengths are wanted for literals and for distances
  hl, hd,   \* the tables for literals and distances
  out       \* the bytes decoded

inflatevars == <<in, bytes, phase, off, pos, last, lens, sizes, hl, hd, out>>

LenBase == <<3, 4, 5, 6, 7, 8, 9, 10, 11, 13, 15, 17, 19, 23, 27, 31, 35, 43, 51, 59,
             67, 83, 99, 115, 131, 163, 195, 227, 258>>
LenExtra == <<0, 0, 0, 0, 0, 0, 0, 0, 1, 1, 1, 1, 2, 2, 2, 2, 3, 3, 3, 3, 4, 4, 4, 4, 5, 5, 5, 5, 0>>
DistBase == <<1, 2, 3, 4, 5, 7, 9, 13, 17, 25, 33, 49, 65, 97, 129, 193, 257, 385, 513, 769,
              1025, 1537, 2049, 3073, 4097, 6145, 8193, 12289, 16385, 24577>>
DistExtra == <<0, 0, 0, 0, 1, 1, 2, 2, 3, 3, 4, 4, 5, 5, 6, 6, 7, 7, 8, 8, 9, 9, 10, 10,
               11, 11, 12, 12, 13, 13>>
ClOrd == <<16, 17, 18, 0, 8, 7, 9, 6, 10, 5, 11, 4, 12, 3, 13, 2, 14, 1, 15>>

-----------------------------------------------------------------------------
(* The bit reader.                                                         *)

\* The last eight bytes of the file are not given to the reader.
Limit == 8 * (Len(bytes) - off - 8)
Bit(p) == (bytes[off + (p \div 8) + 1] \div 2^(p % 8)) % 2

Got(v, p) == [v |-> v, p |-> p]
None == Got(-1, 0)

\* br_bits: n bits, the first one the lowest; nothing is consumed on failure.
BrBits(p, n) ==
  LET low[i \in 0 .. n] == IF i = 0 THEN 0 ELSE low[i - 1] + Bit(p + i - 1) * 2^(i - 1)
  IN  IF p + n > Limit THEN None ELSE Got(low[n], p + n)

\* br_align: the reader never holds more than the rest of a byte.
BrAlign(p) == IF p % 8 = 0 THEN p ELSE 8 * (p \div 8 + 1)

-----------------------------------------------------------------------------
(* Huffman tables, by code length.                                         *)

OfLength(code, b) == SelectSeq([i \in DOMAIN code |-> i - 1], LAMBDA s : code[s + 1] = b)
CountOf(code) == [b \in 1 .. 15 |-> Cardinality({i \in DOMAIN code : code[i] = b})]

\* Mutant: the codes of a length start where those of the shorter one ended.
FirstCodeUnshifted(count) ==
  LET first[b \in 1 .. 15] == IF b = 1 THEN 0 ELSE first[b - 1] + count[b - 1]
  IN  first

\* huff_codes: the first code of each length.
FirstCode(count) ==
  LET first[b \in 1 .. 15] == IF b = 1 THEN 0 ELSE 2 * (first[b - 1] + count[b - 1])
  IN  first

\* huff_place: where the symbols of each length begin.
FirstIdx(count) ==
  LET idx[b \in 1 .. 15] == IF b = 1 THEN 0 ELSE idx[b - 1] + count[b - 1]
  IN  idx

HuffBuild(code) ==
  [first |-> FirstCode(CountOf(code)), count |-> CountOf(code), idx |-> FirstIdx(CountOf(code)),
   symbols |-> FlattenSeq([b \in 1 .. 15 |-> OfLength(code, b)])]

NoTable == HuffBuild(<<>>)

\* The b bits at p as a code, the first one the highest.
Code(p, b) ==
  LET high[i \in 0 .. b] == IF i = 0 THEN 0 ELSE 2 * high[i - 1] + Bit(p + i - 1)
  IN  high[b]

Matches(h, p, b) ==
  /\ p + b <= Limit
  /\ Code(p, b) \in h.first[b] .. h.first[b] + h.count[b] - 1

HuffDecode(p, h) ==
  IF \A b \in 1 .. 15 : ~Matches(h, p, b) THEN None
  ELSE LET b == CHOOSE n \in 1 .. 15 : Matches(h, p, n) /\ \A k \in 1 .. n - 1 : ~Matches(h, p, k)
       IN  Got(h.symbols[h.idx[b] + Code(p, b) - h.first[b] + 1], p + b)

-----------------------------------------------------------------------------
(* The header.                                                             *)

ByteAt(o) == bytes[o + 1]
Fail == -1

\* advance, skip_fextra and skip_string: the offset behind a field, or -1.
Advance(o, n) == IF o = Fail \/ o + n > Len(bytes) THEN Fail ELSE o + n
SkipFextra(o) ==
  IF o + 2 > Len(bytes) THEN Fail ELSE Advance(o, 2 + ByteAt(o) + 256 * ByteAt(o + 1))
SkipString(o) ==
  IF o = Fail \/ \A k \in o .. Len(bytes) - 1 : ByteAt(k) # 0 THEN Fail
  ELSE 1 + CHOOSE k \in o .. Len(bytes) - 1 : ByteAt(k) = 0 /\ \A l \in o .. k - 1 : ByteAt(l) # 0

HasFlag(bit) == (ByteAt(3) \div bit) % 2 = 1

\* skip_gzip_header: extra field, name, comment and checksum in this order.
HeaderEnd ==
  LET extra == IF HasFlag(4) THEN SkipFextra(10) ELSE 10
      name == IF HasFlag(8) THEN SkipString(extra) ELSE extra
      comment == IF HasFlag(16) THEN SkipString(name) ELSE name
  IN  IF HasFlag(2) THEN Advance(comment, 2) ELSE comment

SkipHeader ==
  /\ phase = "header"
  /\ IF /\ Len(bytes) >= 18
        /\ ByteAt(0) = 31 /\ ByteAt(1) = 139 /\ ByteAt(2) = 8
        /\ HeaderEnd # Fail /\ HeaderEnd + 8 <= Len(bytes)
       THEN /\ off' = HeaderEnd
            /\ phase' = "block"
       ELSE /\ phase' = "failed"
            /\ UNCHANGED off
  /\ UNCHANGED <<in, bytes, pos, last, lens, sizes, hl, hd, out>>

-----------------------------------------------------------------------------
(* Blocks.                                                                 *)

FailNow ==
  /\ phase' = "failed"
  /\ UNCHANGED <<in, bytes, off, pos, last, lens, sizes, hl, hd, out>>

EndBlock == IF last = 1 THEN "trailer" ELSE "block"

FixedLit == [i \in 1 .. 288 |-> IF i <= 144 THEN 8 ELSE IF i <= 256 THEN 9 ELSE IF i <= 280 THEN 7 ELSE 8]
FixedDist == [i \in 1 .. 32 |-> 5]

\* inflate_block: the type decides; type 3 is refused.
StartBlock ==
  /\ phase = "block"
  /\ LET flag == BrBits(pos, 1)
         type == IF flag = None THEN None ELSE BrBits(flag.p, 2)
     IN  IF type.v \notin 0 .. 2 THEN FailNow
         ELSE /\ last' = flag.v
              /\ pos' = type.p
              /\ phase' = <<"stored", "symbols", "codes">>[type.v + 1]
              /\ hl' = IF type.v = 1 THEN HuffBuild(FixedLit) ELSE hl
              /\ hd' = IF type.v = 1 THEN HuffBuild(FixedDist) ELSE hd
              /\ UNCHANGED <<in, bytes, off, lens, sizes, out>>

\* decode_stored: the complement of the length is read and not looked at.
CopyStored ==
  /\ phase = "stored"
  /\ LET len == BrBits(BrAlign(pos), 16)
         nlen == BrBits(len.p, 16)
         start == IF nlen = None THEN len.p ELSE nlen.p
     IN  IF len = None \/ start + 8 * len.v > Limit THEN FailNow
         ELSE /\ out' = out \o [i \in 1 .. len.v |-> BrBits(start + 8 * (i - 1), 8).v]
              /\ pos' = start + 8 * len.v
              /\ phase' = EndBlock
              /\ UNCHANGED <<in, bytes, off, last, lens, sizes, hl, hd>>

\* read_dynamic and read_code_lengths: how many codes of each kind there are
\* and the table for their lengths.  A failed br_bits only makes nc smaller;
\* then the reads of the lengths fail in turn.
ReadCodes ==
  /\ phase = "codes"
  /\ LET nl == BrBits(pos, 5)
         nd == BrBits(nl.p, 5)
         nc == BrBits(nd.p, 4)
         At(i) == nc.p + 3 * (i - 1)
         Cl(s) == LET i == CHOOSE k \in 1 .. 19 : ClOrd[k] = s
                  IN  IF i <= nc.v + 4 THEN BrBits(At(i), 3).v ELSE 0
     IN  IF nl = None \/ nd = None \/ nc = None \/ At(nc.v + 5) > Limit THEN FailNow
         ELSE /\ sizes' = <<nl.v + 257, nd.v + 1>>
              /\ hl' = HuffBuild([s \in 1 .. 19 |-> Cl(s - 1)])
              /\ pos' = At(nc.v + 5)
              /\ lens' = <<>>
              /\ phase' = "lengths"
              /\ UNCHANGED <<in, bytes, off, last, hd, out>>

\* fill_rep: as many copies as there is room for.
Fill(val, n) == [i \in 1 .. IF n < sizes[1] + sizes[2] - Len(lens)
                            THEN n ELSE sizes[1] + sizes[2] - Len(lens) |-> val]

\* rep_len: symbol 16 repeats the last length, 17 and 18 zeros.
RepBits == [s \in 16 .. 18 |-> <<2, 3, 7>>[s - 15]]
RepBase == [s \in 16 .. 18 |-> <<3, 3, 11>>[s - 15]]

ReadLength ==
  /\ phase = "lengths"
  /\ LET sym == HuffDecode(pos, hl)
         rep == IF sym.v >= 16 THEN BrBits(sym.p, RepBits[sym.v]) ELSE sym
     IN  IF rep = None \/ (sym.v = 16 /\ lens = <<>>) THEN FailNow
         ELSE /\ lens' = lens \o CASE sym.v < 16 -> <<sym.v>>
                                   [] sym.v = 16 -> Fill(Last(lens), rep.v + RepBase[sym.v])
                                   [] OTHER -> Fill(0, rep.v + RepBase[sym.v])
              /\ pos' = rep.p
              /\ phase' = IF Len(lens') = sizes[1] + sizes[2] THEN "tables" ELSE "lengths"
              /\ UNCHANGED <<in, bytes, off, last, sizes, hl, hd, out>>

BuildTables ==
  /\ phase = "tables"
  /\ hl' = HuffBuild(SubSeq(lens, 1, sizes[1]))
  /\ hd' = HuffBuild(SubSeq(lens, sizes[1] + 1, sizes[1] + sizes[2]))
  /\ phase' = "symbols"
  /\ UNCHANGED <<in, bytes, off, pos, last, lens, sizes, out>>

-----------------------------------------------------------------------------
(* Symbols.                                                                *)

\* get_len and get_dist: a base and some extra bits.
Extended(p, base, extra) ==
  IF BrBits(p, extra) = None THEN None ELSE Got(base + BrBits(p, extra).v, p + extra)
GetLen(p, sym) ==
  IF sym - 257 >= 29 THEN None ELSE Extended(p, LenBase[sym - 256], LenExtra[sym - 256])
GetDist(p) ==
  LET sym == HuffDecode(p, hd)
  IN  IF sym = None \/ sym.v >= 30 THEN None
      ELSE Extended(sym.p, DistBase[sym.v + 1], DistExtra[sym.v + 1])

\* copy_dist: byte by byte, so a copy may read what it has just written.
CopyDist(length, distance) ==
  LET Again(data) == Append(data, data[Len(data) - distance + 1])
      grown[i \in 0 .. length] == IF i = 0 THEN out ELSE Again(grown[i - 1])
  IN  grown[length]

Symbol ==
  /\ phase = "symbols"
  /\ LET sym == HuffDecode(pos, hl)
         len == IF sym.v > 256 THEN GetLen(sym.p, sym.v) ELSE None
         dist == IF len # None THEN GetDist(len.p) ELSE None
     IN  CASE sym = None -> FailNow
           [] sym.v \in 0 .. 255 ->
                /\ out' = Append(out, sym.v)
                /\ pos' = sym.p
                /\ UNCHANGED <<in, bytes, phase, off, last, lens, sizes, hl, hd>>
           [] sym.v = 256 ->
                /\ phase' = EndBlock
                /\ pos' = sym.p
                /\ UNCHANGED <<in, bytes, off, last, lens, sizes, hl, hd, out>>
           [] sym.v > 256 /\ dist.v \in 1 .. Len(out) ->
                /\ out' = CopyDist(len.v, dist.v)
                /\ pos' = dist.p
                /\ UNCHANGED <<in, bytes, phase, off, last, lens, sizes, hl, hd>>
           [] OTHER -> FailNow

\* check_gzip_trailer: the last eight bytes, wherever the data ended.
LittleEndian(b) == b[1] + 256 * b[2] + 65536 * b[3]
CheckTrailer ==
  /\ phase = "trailer"
  /\ LET trailer == SubSeq(bytes, Len(bytes) - 7, Len(bytes))
     IN  phase' = IF /\ SubSeq(trailer, 1, 4) = Crc32(out)
                     /\ trailer[8] = 0
                     /\ LittleEndian(SubSeq(trailer, 5, 8)) = Len(out)
                    THEN "done" ELSE "failed"
  /\ UNCHANGED <<in, bytes, off, pos, last, lens, sizes, hl, hd, out>>

-----------------------------------------------------------------------------
InflateInit ==
  /\ in \in DOMAIN Input
  /\ bytes = Input[in]
  /\ phase = "header"
  /\ off = 0 /\ pos = 0 /\ last = 0
  /\ lens = <<>> /\ sizes = <<0, 0>>
  /\ hl = NoTable /\ hd = NoTable
  /\ out = <<>>

InflateNext ==
  \/ SkipHeader \/ StartBlock \/ CopyStored \/ ReadCodes \/ ReadLength \/ BuildTables
  \/ Symbol \/ CheckTrailer
=============================================================================
