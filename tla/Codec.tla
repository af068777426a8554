------------------------------- MODULE Codec --------------------------------
(***************************************************************************)
(* The numbers of the index files: variable-length integers, gaps of       *)
(* ascending numbers, and fixed-width packing.  A byte has ByteBits bits,  *)
(* eight in the code, so that small numbers take more than one.            *)
(***************************************************************************)
EXTENDS Integers, Sequences, FiniteSets, FiniteSetsExt, SequencesExt

CONSTANT ByteBits

ASSUME ByteBitsType == ByteBits \in Nat /\ ByteBits >= 2

Byte == 2 ^ ByteBits
Group == 2 ^ (ByteBits - 1)

\* The low group first, each but the last with the top bit set.
WriteVarint(value) ==
  LET bytes[n \in Nat] ==
        IF n >= Group THEN <<(n % Group) + Group>> \o bytes[n \div Group] ELSE <<n>>
  IN  bytes[value]

WriteVarints(values) == FlattenSeq([i \in DOMAIN values |-> WriteVarint(values[i])])

\* Reading beyond the end of a buffer raises, and so does what reads on.  (A
\* value of more than ten groups raises too; none is ever written.)
Raised == [value |-> 0, next |-> 0]

ReadVarint(buf, pos) ==
  LET ends == {j \in pos .. Len(buf) : buf[j] < Group}
  IN  IF pos = 0 \/ ends = {} THEN Raised
      ELSE [value |-> MapThenSumSet(LAMBDA j : (buf[j] % Group) * Group ^ (j - pos),
                                    pos .. Min(ends)),
            next |-> Min(ends) + 1]

ReadVarints(buf, pos, count) ==
  LET add(s, r) == [values |-> Append(s.values, r.value), next |-> r.next]
  IN  FoldLeft(LAMBDA s, n : add(s, ReadVarint(buf, s.next)),
               [values |-> <<>>, next |-> pos], [n \in 1 .. count |-> n])

DeltaEncode(values, base) ==
  [i \in DOMAIN values |-> values[i] - (IF i = 1 THEN base ELSE values[i - 1])]

DeltaDecode(gaps, base) ==
  FoldLeft(LAMBDA values, gap :
             Append(values, gap + (IF values = <<>> THEN base ELSE Last(values))),
           <<>>, gaps)

\* The bit length of the largest.
BitsNeeded(values) ==
  LET bits[n \in Nat] == IF n = 0 THEN 0 ELSE 1 + bits[n \div 2]
  IN  bits[Max(ToSet(values) \cup {0})]

\* Each value is put above the bits that wait, whole bytes are taken off below.
Pack(values, width) ==
  LET put(s, v) ==
        LET acc == s.acc + v * 2 ^ s.bits
            whole == (s.bits + width) \div ByteBits
        IN  [out |-> s.out \o [j \in 1 .. whole |-> (acc \div Byte ^ (j - 1)) % Byte],
             acc |-> acc \div Byte ^ whole,
             bits |-> (s.bits + width) % ByteBits]
      end == FoldLeft(put, [out |-> <<>>, acc |-> 0, bits |-> 0], values)
  IN  IF end.bits > 0 THEN Append(end.out, end.acc) ELSE end.out

PackedSize(count, width) == (count * width + ByteBits - 1) \div ByteBits

Unpack(buf, pos, count, width) ==
  LET nbytes == PackedSize(count, width)
      acc == MapThenSumSet(LAMBDA j : buf[pos + j] * Byte ^ j, 0 .. nbytes - 1)
  IN  [values |-> [i \in 1 .. count |-> (acc \div 2 ^ ((i - 1) * width)) % 2 ^ width],
       next |-> pos + nbytes]
=============================================================================
