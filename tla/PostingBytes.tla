---------------------------- MODULE PostingBytes ----------------------------
(***************************************************************************)
(* One term's postings as bytes, and the cursor that reads them.  A        *)
(* posting has a document, a frequency and the positions in order.  The    *)
(* block maxima of the skip table are left out (module Search has them).   *)
(***************************************************************************)
EXTENDS Codec

CONSTANT BlockSize   \* BLOCK_SIZE

ASSUME BlockSizeType == BlockSize \in Nat \ {0}

Chunks(list, size) ==
  [b \in 1 .. (Len(list) + size - 1) \div size |->
     SubSeq(list, (b - 1) * size + 1, Min({b * size, Len(list)}))]

WritePositions(posting) ==
  WriteVarint(Len(posting.positions)) \o WriteVarints(DeltaEncode(posting.positions, 0))

WithWidth(values) == <<BitsNeeded(values)>> \o Pack(values, BitsNeeded(values))

\* One block of finish(): gaps go on from the block before, offsets are relative
\* to it.
WriteBlock(s, block) ==
  LET docs == [i \in DOMAIN block |-> block[i].doc]
      biased == [i \in DOMAIN block |-> block[i].freq - 1]
      blockOff == Len(s.blocks)
      posOff == Len(s.positions)
  IN  [lastDoc |-> Last(docs), blockOff |-> blockOff, posOff |-> posOff,
       blocks |-> s.blocks \o WithWidth(DeltaEncode(docs, s.lastDoc)) \o WithWidth(biased),
       positions |-> s.positions \o
                     FlattenSeq([i \in DOMAIN block |-> WritePositions(block[i])]),
       skips |-> s.skips \o WriteVarints(<<Last(docs) - s.lastDoc, blockOff - s.blockOff,
                                           Len(block), posOff - s.posOff>>)]

TotalTf(postings) == MapThenSumSet(LAMBDA i : postings[i].freq, DOMAIN postings)

Finish(postings) ==
  LET blocks == Chunks(postings, BlockSize)
      start == [lastDoc |-> 0, blockOff |-> 0, posOff |-> 0,
                blocks |-> <<>>, positions |-> <<>>, skips |-> <<>>]
      serialised(end) ==
        [postings |-> WriteVarints(<<Len(postings), TotalTf(postings), Len(blocks),
                                     Len(end.skips)>>) \o end.skips \o end.blocks,
         positions |-> end.positions]
  IN  serialised(FoldLeft(WriteBlock, start, blocks))

-----------------------------------------------------------------------------
\* The skip table, four numbers for each block, offsets as gaps.
Skips(table, count) ==
  LET column(n) == [b \in 1 .. count |-> table[4 * (b - 1) + n]]
      lastDocs == DeltaDecode(column(1), 0)
      blockOffsets == DeltaDecode(column(2), 0)
      posOffsets == DeltaDecode(column(4), 0)
  IN  [b \in 1 .. count |-> [lastDoc |-> lastDocs[b], blockOffset |-> blockOffsets[b],
                              docCount |-> column(3)[b], posOffset |-> posOffsets[b]]]

\* PostingCursor.__init__, at the term's offset.
OpenCursor(buf, offset) ==
  LET cursor(head) ==
        [skips |-> Skips(ReadVarints(buf, head.next, 4 * head.values[3]).values, head.values[3]),
         docFreq |-> head.values[1], totalTf |-> head.values[2],
         base |-> head.next + head.values[4]]
  IN  cursor(ReadVarints(buf, offset + 1, 4))

\* A block's documents and frequencies; the gaps start at the block before's last.
LoadBlock(buf, cursor, b) ==
  LET skip == cursor.skips[b]
      at == cursor.base + skip.blockOffset
      lastBefore == IF b = 1 THEN 0 ELSE cursor.skips[b - 1].lastDoc
      freqs(pos) == Unpack(buf, pos + 1, skip.docCount, buf[pos]).values
      block(gaps) == [docs |-> DeltaDecode(gaps.values, lastBefore), biased |-> freqs(gaps.next)]
  IN  block(Unpack(buf, at + 1, skip.docCount, buf[at]))

\* Faulty variant: the term's place in the segment-wide stream is forgotten.
PositionsStartUnbased(base, skip) == skip.posOffset + 1

PositionsStart(base, skip) == base + skip.posOffset + 1

\* positions(): those of the documents before it in the block are read past.
Positions(stream, base, skip, i) ==
  LET counted(count) == ReadVarints(stream, count.next, count.value)
      start[j \in 1 .. i] ==
        IF j = 1 THEN PositionsStart(base, skip)
        ELSE counted(ReadVarint(stream, start[j - 1])).next
  IN  DeltaDecode(counted(ReadVarint(stream, start[i])).values, 0)

\* What a cursor yields from its first document to its last.
ReadAll(buf, offset, stream, positionsBase) ==
  LET postings(skip, block) ==
        [i \in DOMAIN block.docs |->
           [doc |-> block.docs[i], freq |-> block.biased[i] + 1,
            positions |-> Positions(stream, positionsBase, skip, i)]]
      all(cursor) ==
        FlattenSeq([b \in DOMAIN cursor.skips |->
                      postings(cursor.skips[b], LoadBlock(buf, cursor, b))])
  IN  all(OpenCursor(buf, offset))
=============================================================================
