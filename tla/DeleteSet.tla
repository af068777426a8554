----------------------------- MODULE DeleteSet ------------------------------
(***************************************************************************)
(* deletes.bin: the tombstones of a segment, as gaps while they are few    *)
(* and as a bitmap from then on.                                           *)
(***************************************************************************)
EXTENDS Codec

CONSTANT SparsePercent   \* _SPARSE_THRESHOLD, five in the code

ASSUME SparsePercentType == SparsePercent \in Nat

Sparse == 0
Dense == 1

IsSparse(docCount, deleted) ==
  docCount = 0 \/ 100 * Cardinality(deleted) < SparsePercent * docCount

\* Faulty variant: the last, partial byte has no room.
BitmapSizeWhole(docCount) == docCount \div ByteBits

BitmapSize(docCount) == (docCount + ByteBits - 1) \div ByteBits

Bitmap(docCount, deleted) ==
  [byte \in 1 .. BitmapSize(docCount) |->
     MapThenSumSet(LAMBDA d : 2 ^ (d % ByteBits),
                   {d \in deleted : d \div ByteBits = byte - 1})]

ToBytes(docCount, deleted) ==
  LET ids == SetToSortSeq(deleted, <)
      bitmap == Bitmap(docCount, deleted)
  IN  WriteVarint(docCount) \o
      IF IsSparse(docCount, deleted)
      THEN <<Sparse>> \o WriteVarint(Len(ids)) \o WriteVarints(DeltaEncode(ids, 0))
      ELSE <<Dense>> \o WriteVarint(Len(bitmap)) \o bitmap

Bits(bitmap) ==
  {d \in 0 .. Len(bitmap) * ByteBits - 1 :
     (bitmap[d \div ByteBits + 1] \div 2 ^ (d % ByteBits)) % 2 = 1}

Short(bitmap, size) == Len(bitmap) < size

\* An empty file has no tombstones; a short one raises where it ends.
FromBytes(buf) ==
  LET docCount == ReadVarint(buf, 1)
      at == docCount.next
      size == ReadVarint(buf, at + 1)
      gaps == ReadVarints(buf, size.next, size.value)
      bitmap == SubSeq(buf, size.next, Min({size.next + size.value - 1, Len(buf)}))
      tombstones(deleted) == [raised |-> FALSE, docCount |-> docCount.value,
                              deleted |-> deleted]
      failed == [raised |-> TRUE, docCount |-> 0, deleted |-> {}]
  IN  IF buf = <<>> THEN [raised |-> FALSE, docCount |-> 0, deleted |-> {}]
      ELSE IF at = 0 \/ at > Len(buf) \/ size = Raised THEN failed
      ELSE IF buf[at] = Sparse
           THEN IF gaps.next = 0 THEN failed
                ELSE tombstones(ToSet(DeltaDecode(gaps.values, 0)))
           ELSE IF Short(bitmap, size.value) THEN failed ELSE tombstones(Bits(bitmap))
=============================================================================
