---------------------------- MODULE MCFormats ----------------------------
(***************************************************************************)
(* The two data formats that cage handles by itself: the ext4 image it     *)
(* writes and the compressed modules it reads.  They share nothing, so a   *)
(* behaviour runs one or the other.                                        *)
(***************************************************************************)
EXTENDS Ext4Image, Inflate, Deflate

\* A stand-in for the CRC of crc32.c.
MCCrc32(data) ==
  LET At(i) == IF i <= Len(data) THEN data[i] ELSE 0
      row[k \in 0 .. Len(data) \div 40, i \in 0 .. 40] ==
        IF i = 0 THEN k + 1 ELSE (row[k, i - 1] * 31 + At(40 * k + i) + 7) % 65521
      sum[k \in 0 .. Len(data) \div 40] ==
        ((IF k = 0 THEN 1 ELSE sum[k - 1]) * 17 + row[k, 40]) % 65521
      v == sum[Len(data) \div 40]
  IN  << v % 256, v \div 256, (v * 7 + 3) % 251, Len(data) % 256 >>

-----------------------------------------------------------------------------
Stored(data) == [type |-> "stored", data |-> data]
Fixed(syms) == [type |-> "fixed", syms |-> syms]
Reserved == [type |-> "reserved", syms |-> <<>>]

\* 97 to 100, 104, 256 and 265 have codes of three bits, 257 and 258 of four;
\* the repetition that ends the lengths of the literals runs on into the distances.
LitCode == [i \in 1 .. 266 |-> IF i - 1 \in (97 .. 100) \cup {104, 256, 265} THEN 3
                           ELSE IF i - 1 \in {257, 258} THEN 4 ELSE 0]
Tokens == << <<18, 86>>, <<3, 0>>, <<16, 0>>, <<17, 0>>, <<3, 0>>, <<18, 127>>, <<18, 2>>,
             <<3, 0>>, <<4, 0>>, <<4, 0>>, <<17, 3>>, <<3, 0>>, <<16, 0>>, <<1, 0>>, <<3, 0>> >>
Cl == [i \in 1 .. 19 |-> IF i - 1 \in {1, 3} THEN 2 ELSE IF i - 1 \in {4, 16, 17, 18} THEN 3 ELSE 0]
Dynamic(syms) ==
  [type |-> "dynamic", syms |-> syms, lit |-> LitCode, dist |-> <<3, 3, 3, 1, 3>>, cl |-> Cl, tokens |-> Tokens]

Mixed == << Stored(<<9, 97>>), Fixed(<< <<143>>, <<144>>, <<255>>, <<0>>, <<5, 4>> >>),
            Dynamic(<< <<97>>, <<104>>, <<3, 1>>, <<11, 3>>, <<12, 4>>, <<4, 5>>, <<100>> >>),
            Stored(<<>>), Dynamic(<< <<98>> >>) >>
Far == << Fixed(<< <<1>>, <<2>> >> \o [i \in 1 .. 4 |-> <<258, 1>>]
                 \o [d \in 1 .. 30 |-> <<3, 34 * d>>] \o << <<3, 5>>, <<4, 7>>, <<258, 1000>> >>) >>

Streams ==
  [mixed |-> Mixed, far |-> Far, empty |-> <<Stored(<<>>)>>,
   reserved |-> <<Stored(<<7>>), Reserved>>,
   before |-> <<Fixed(<< <<1>>, <<2>> >>), Stored(<<3>>)>>]

Plain == <<31, 139, 8, 0, 0, 0, 0, 0, 0, 3>>
Fields == <<31, 139, 8, 30, 0, 0, 0, 0, 0, 3, 3, 0, 1, 0, 2, 5, 6, 0, 0, 4, 4>>

\* The files: whole, cut after k bytes, or with the lowest bit of byte k turned.
Lengths == [l \in 3 .. 258 |-> <<Fixed(<< <<65>>, <<66>>, <<l, 1 + (l % 2)>> >>)>>]
Name(s, kind, k) == [stream |-> s, kind |-> kind, k |-> k]
Turned(content, k) == [content EXCEPT ![k] = IF @ % 2 = 0 THEN @ + 1 ELSE @ - 1]

Whole == [s \in DOMAIN Streams |-> Compressed(IF s = "far" THEN Plain ELSE Fields, Streams[s], MCCrc32)]
WholeLength == [l \in 3 .. 258 |-> Compressed(Plain, Lengths[l], MCCrc32)]
Damaged == {"mixed", "empty", "before"}
MCNames ==
  { Name(s, "whole", 0) : s \in DOMAIN Streams } \cup { Name("length", "whole", l) : l \in 3 .. 258 }
    \cup UNION { { Name(s, kind, k) : kind \in {"cut", "turned"}, k \in 1 .. Len(Whole[s]) } : s \in Damaged }
MCInput ==
  [n \in MCNames |->
     CASE n.stream = "length" -> WholeLength[n.k]
       [] n.kind = "cut" -> SubSeq(Whole[n.stream], 1, n.k - 1)
       [] n.kind = "turned" -> Turned(Whole[n.stream], n.k)
       [] OTHER -> Whole[n.stream]]

Original(n) == IF n.stream = "length" THEN Lengths[n.k] ELSE Streams[n.stream]
Contents == [n \in MCNames |-> Meaning(Original(n))]
Valid(n) == n.kind = "whole" /\ n.stream # "reserved"

-----------------------------------------------------------------------------
InflateIdle ==
  /\ bytes = <<>>
  /\ in = Name("empty", "whole", 0) /\ phase = "idle" /\ off = 0 /\ pos = 0 /\ last = 0
  /\ lens = <<>> /\ sizes = <<0, 0>> /\ hl = NoTable /\ hd = NoTable /\ out = <<>>

Init == ImageInit /\ (InflateInit \/ InflateIdle)
Next ==
  \/ phase = "idle" /\ ImageNext /\ UNCHANGED inflatevars
  \/ phase # "idle" /\ InflateNext /\ UNCHANGED imagevars
Spec == Init /\ [][Next]_<<imagevars, inflatevars>>

\* The tables of get_len and get_dist are those of RFC 1951.
TablesAgree ==
  /\ \A s \in 257 .. 285 : LengthRange(s) = [base |-> LenBase[s - 256], extra |-> LenExtra[s - 256]]
  /\ \A s \in 0 .. 29 : DistRange(s) = [base |-> DistBase[s + 1], extra |-> DistExtra[s + 1]]

Agrees(contents) ==
  /\ phase = "done" => out = contents
  /\ Valid(in) => IsPrefix(out, contents)

\* Every well-formed file is accepted; whatever is accepted has the bytes that
\* were compressed; and while a well-formed file is decoded, what has been
\* decoded is the beginning of them.
DecodesReference ==
  /\ phase = "failed" => ~Valid(in)
  /\ phase = "done" => TablesAgree
  /\ Agrees(Contents[in])
=============================================================================
