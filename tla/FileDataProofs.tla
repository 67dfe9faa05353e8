--------------------------- MODULE FileDataProofs ---------------------------
(***************************************************************************)
(* Proofs about module FileData, for every geometry, every set of requests *)
(* within uint32_t and wherever the process dies: its state has the right  *)
(* type, no file holds a block past its end, the files are those of module *)
(* ByteFile, and a read returns what the file has.                         *)
(***************************************************************************)
EXTENDS FileData, TLAPS, WellFoundedInduction, SequenceTheorems

-----------------------------------------------------------------------------
(* Places, blocks and offsets in blocks *)

\* A product grows with its factor.
LEMMA ProductGrows ==
    ASSUME NEW b \in Nat, NEW q \in Nat, NEW d \in Nat, d <= q
    PROVE  b * d <= b * q
<1>1. PICK e \in Nat : q = d + e
  BY q - d \in Nat
<1>2. b * q = b * d + b * e
  BY <1>1
<1>3. b * e \in Nat /\ b * d \in Nat
  OBVIOUS
<1>4. QED
  BY <1>2, <1>3

\* A place is a block index and an offset in the block.
LEMMA Division ==
    ASSUME NEW p \in Nat
    PROVE  /\ p \div BlockSize \in Nat
           /\ p % BlockSize \in Cells
           /\ p = BlockSize * (p \div BlockSize) + (p % BlockSize)
  BY FileAssumption DEF Cells

\* Only one block index starts at most BlockSize - 1 before a place.
LEMMA DivisionUnique ==
    ASSUME NEW p \in Nat, NEW q \in Nat, BlockSize * q <= p, p < BlockSize * q + BlockSize
    PROVE  p \div BlockSize = q
<1> DEFINE d == p \div BlockSize
<1>1. d \in Nat /\ BlockSize * d <= p /\ p < BlockSize * d + BlockSize
  BY Division, FileAssumption DEF Cells
<1>2. BlockSize \in Nat /\ BlockSize > 0
  BY FileAssumption
<1> HIDE DEF d
<1>3. ASSUME d < q PROVE FALSE
  <2>1. BlockSize * (d + 1) <= BlockSize * q
    BY <1>1, <1>2, <1>3, ProductGrows
  <2>2. BlockSize * (d + 1) = BlockSize * d + BlockSize
    BY <1>1, <1>2
  <2>3. QED
    BY <1>1, <1>2, <2>1, <2>2
<1>4. ASSUME q < d PROVE FALSE
  <2>1. BlockSize * (q + 1) <= BlockSize * d
    BY <1>1, <1>2, <1>4, ProductGrows
  <2>2. BlockSize * (q + 1) = BlockSize * q + BlockSize
    BY <1>1, <1>2
  <2>3. QED
    BY <1>1, <1>2, <2>1, <2>2
<1>5. d = q
  BY <1>1, <1>3, <1>4
<1>6. QED
  BY <1>5 DEF d

\* The places of a file lie in its blocks.
LEMMA PlaceType ==
    ASSUME NEW p \in Places
    PROVE  p \in Nat /\ p \div BlockSize \in Idx /\ p % BlockSize \in Cells
<1>1. p \in Nat /\ p < DirectBlocks * BlockSize
  BY FileAssumption DEF Places
<1>2. BlockSize \in Nat /\ DirectBlocks \in Nat /\ p \div BlockSize \in Nat
  BY <1>1, FileAssumption, Division
<1>3. BlockSize * (p \div BlockSize) <= p
  BY <1>1, Division, <1>2 DEF Cells
<1>4. p \div BlockSize < DirectBlocks
  <2>1. SUFFICES ASSUME DirectBlocks <= p \div BlockSize PROVE FALSE
    BY <1>2
  <2>2. BlockSize * DirectBlocks <= BlockSize * (p \div BlockSize)
    BY <1>2, <2>1, ProductGrows
  <2>3. BlockSize * DirectBlocks = DirectBlocks * BlockSize
    BY <1>2
  <2>4. QED
    BY <1>1, <1>2, <1>3, <2>2, <2>3
<1>5. QED
  BY <1>1, <1>2, <1>4, Division, FileAssumption DEF Idx

-----------------------------------------------------------------------------
(* The inductive invariant *)

\* What an inode points to is marked, and by nobody else pointed to.
DiskOwned ==
    /\ \A f \in Files : \A k \in Idx :
          inode[f].direct[k] # NoBlock => inode[f].direct[k] \in bitmap
    /\ \A f, g \in Files : \A k, l \in Idx :
          inode[f].direct[k] # NoBlock /\ inode[f].direct[k] = inode[g].direct[l]
          => f = g /\ k = l

\* The write was asked for within uint32_t.
Asked(w) == w.offset + w.size < Word

\* The copy of the inode that a write works on has the pointers of its inode on
\* disk and new ones, marked and its own, none past what the write will cover.
CopyOwned(w) ==
    /\ w.inode.size = inode[w.file].size
    /\ \A k \in Idx : inode[w.file].direct[k] # NoBlock
                      => w.inode.direct[k] = inode[w.file].direct[k]
    /\ \A k \in Idx : w.inode.direct[k] # NoBlock => w.inode.direct[k] \in bitmap
    /\ \A k, l \in Idx : w.inode.direct[k] # NoBlock /\ w.inode.direct[k] = w.inode.direct[l]
                         => k = l
    /\ \A g \in Files : \A k, l \in Idx :
          w.inode.direct[k] # NoBlock /\ w.inode.direct[k] = inode[g].direct[l]
          => g = w.file /\ k = l
    /\ \A k \in Idx : w.inode.direct[k] # NoBlock
                      => k * BlockSize < w.inode.size \/ k * BlockSize < w.offset + w.done

\* Through the copy's pointers one finds what was written so far, and around it
\* what the file had.
CopyWritten(w) ==
    \A p \in Places :
        /\ w.offset <= p /\ p < w.offset + w.done
           => ByteAt(w.inode.direct, p) = w.value
        /\ ~(w.offset <= p /\ p < w.offset + w.done)
           => ByteAt(w.inode.direct, p) = ByteAt(inode[w.file].direct, p)

WriteInv == \A w \in writing : Asked(w) /\ CopyOwned(w) /\ CopyWritten(w)

Inv == TypeOK /\ DiskOwned /\ NoBlockPastEnd /\ WriteInv

-----------------------------------------------------------------------------
(* Lemmas about the operators *)

\* First-fit yields members of the set it searches.
LEMMA FirstFitMember ==
    ASSUME NEW S, NEW x \in FirstFit(S)
    PROVE  x \in S
  BY DEF FirstFit

\* Pointers and bytes have their types.
LEMMA ByteAtType ==
    ASSUME TypeOK, NEW direct \in [Idx -> DataBlocks \cup {NoBlock}], NEW p \in Places
    PROVE  ByteAt(direct, p) \in Values \cup {Zero}
  BY PlaceType DEF ByteAt, TypeOK

\* The loop is at a place of the file, and the bytes it is about to put in the
\* block are those of the rest of its range that are in the block.
LEMMA Target ==
    ASSUME NEW w \in WriteLoop, Asked(w), InLoop(w)
    PROVE  /\ FileOffset(w) = w.offset + w.done
           /\ BlockIndex(w) \in Idx
           /\ BlockOffset(w) \in Cells
           /\ FileOffset(w) = BlockSize * BlockIndex(w) + BlockOffset(w)
           /\ ToWrite(w) \in Nat
           /\ BlockOffset(w) + ToWrite(w) <= BlockSize
           /\ w.done + ToWrite(w) <= w.size
           /\ ToWrite(w) > 0
<1>1. w.offset \in Nat /\ w.size \in Nat /\ w.done \in Nat /\ w.done < w.size
  BY DEF WriteLoop, InLoop
<1>2. w.offset + w.done \in Nat /\ w.offset + w.done < Word /\ Word \in Nat
  BY <1>1, FileAssumption DEF Asked
<1>3. FileOffset(w) = w.offset + w.done
  BY <1>2, FileAssumption DEF FileOffset
<1>4. BlockIndex(w) \in Idx
  BY DEF InLoop
<1>5. BlockOffset(w) \in Cells /\ FileOffset(w) = BlockSize * BlockIndex(w) + BlockOffset(w)
  BY <1>2, <1>3, Division DEF BlockIndex, BlockOffset
<1>6. BlockSize \in Nat /\ BlockOffset(w) \in Nat /\ BlockOffset(w) < BlockSize
  BY <1>5, FileAssumption DEF Cells
<1>7. /\ ToWrite(w) \in Nat
      /\ BlockOffset(w) + ToWrite(w) <= BlockSize
      /\ w.done + ToWrite(w) <= w.size
      /\ ToWrite(w) > 0
  BY <1>1, <1>6 DEF ToWrite
<1>8. QED
  BY <1>3, <1>4, <1>5, <1>7

\* A place is in the bytes about to be written just when its block and its
\* offset in the block are.
LEMMA TargetPlaces ==
    ASSUME NEW w \in WriteLoop, Asked(w), InLoop(w), NEW p \in Places
    PROVE  /\ p \div BlockSize = BlockIndex(w)
           /\ BlockOffset(w) <= p % BlockSize
           /\ p % BlockSize < BlockOffset(w) + ToWrite(w)
           <=> w.offset + w.done <= p /\ p < w.offset + w.done + ToWrite(w)
<1> DEFINE q == BlockIndex(w)
           o == BlockOffset(w)
           n == ToWrite(w)
           at == w.offset + w.done
<1>1. /\ at = BlockSize * q + o /\ q \in Nat /\ o \in Nat /\ n \in Nat
      /\ o + n <= BlockSize /\ BlockSize \in Nat
  BY Target, FileAssumption DEF Idx, Cells
<1>2. p \in Nat
  BY PlaceType
<1>3. /\ p \div BlockSize \in Nat /\ p % BlockSize \in Nat
      /\ p = BlockSize * (p \div BlockSize) + (p % BlockSize)
  BY <1>2, Division DEF Cells
<1>4. BlockSize * q \in Nat
  BY <1>1
<1> HIDE DEF q, o, n, at
<1>5. ASSUME at <= p, p < at + n PROVE p \div BlockSize = q
  BY <1>1, <1>2, <1>4, <1>5, DivisionUnique
<1>6. ASSUME p \div BlockSize = q
      PROVE  o <= p % BlockSize /\ p % BlockSize < o + n <=> at <= p /\ p < at + n
  BY <1>1, <1>2, <1>3, <1>4, <1>6
<1>7. QED
  BY <1>5, <1>6 DEF q, o, n, at

\* A pointer list that does not have block b shows the same bytes after b
\* alone was written.
LEMMA OtherBlocks ==
    ASSUME TypeOK, NEW b \in DataBlocks, NEW content,
           block' = [block EXCEPT ![b] = content],
           NEW direct \in [Idx -> DataBlocks \cup {NoBlock}],
           \A k \in Idx : direct[k] # b,
           NEW p \in Places
    PROVE  ByteAt(direct, p)' = ByteAt(direct, p)
  BY PlaceType DEF ByteAt, TypeOK

\* What a pointer list shows after a write filled the block its index has.
LEMMA FilledBlock ==
    ASSUME TypeOK, NEW w \in WriteLoop, Asked(w), InLoop(w),
           NEW b \in DataBlocks, NEW content \in [Cells -> Values \cup {Zero}],
           block'[b] = Filled(content, w),
           \A c \in DataBlocks : c # b => block'[c] = block[c],
           NEW direct \in [Idx -> DataBlocks \cup {NoBlock}],
           direct[BlockIndex(w)] = b,
           \A k \in Idx : direct[k] = b => k = BlockIndex(w),
           NEW p \in Places
    PROVE  /\ w.offset + w.done <= p /\ p < w.offset + w.done + ToWrite(w)
              => ByteAt(direct, p)' = w.value
           /\ ~(w.offset + w.done <= p /\ p < w.offset + w.done + ToWrite(w))
              => ByteAt(direct, p)' = IF p \div BlockSize = BlockIndex(w)
                                      THEN content[p % BlockSize] ELSE ByteAt(direct, p)
<1>1. p \div BlockSize \in Idx /\ p % BlockSize \in Cells
  BY PlaceType
<1>2. b # NoBlock
  BY FileAssumption DEF NoBlock
<1>3. block'[b] = Filled(content, w)
  OBVIOUS
<1>4. CASE p \div BlockSize = BlockIndex(w)
  <2>1. ByteAt(direct, p)' = Filled(content, w)[p % BlockSize]
    BY <1>2, <1>3, <1>4 DEF ByteAt
  <2>2. ByteAt(direct, p)' = IF /\ BlockOffset(w) <= p % BlockSize
                                /\ p % BlockSize < BlockOffset(w) + ToWrite(w)
                             THEN w.value ELSE content[p % BlockSize]
    BY <2>1, <1>1 DEF Filled
  <2>3. QED
    BY <2>2, <1>4, TargetPlaces
<1>5. CASE p \div BlockSize # BlockIndex(w)
  <2>1. ByteAt(direct, p)' = ByteAt(direct, p)
    BY <1>1, <1>5 DEF ByteAt, TypeOK
  <2>2. QED
    BY <2>1, <1>5, TargetPlaces
<1>6. QED
  BY <1>4, <1>5

\* A filled block is a block.
LEMMA FilledType ==
    ASSUME TypeOK, NEW w \in WriteLoop, NEW content \in [Cells -> Values \cup {Zero}]
    PROVE  Filled(content, w) \in [Cells -> Values \cup {Zero}]
<1>1. w.value \in Values
  BY DEF WriteLoop
<1>2. QED
  BY <1>1 DEF Filled

\* A loop that moves on stays within its request.
LEMMA AdvancedType ==
    ASSUME NEW w \in WriteLoop, Asked(w), InLoop(w)
    PROVE  /\ Advanced(w) \in WriteLoop
           /\ Advanced(w) = [w EXCEPT !.done = w.done + ToWrite(w)]
           /\ Advanced(w).done <= w.size
<1>1. w.done \in Nat /\ ToWrite(w) \in Nat /\ w.done + ToWrite(w) <= w.size
  BY Target DEF WriteLoop
<1>2. QED
  BY <1>1 DEF Advanced, WriteLoop

\* A zeroed block is a block.
LEMMA ZeroBlockType == ZeroBlock \in [Cells -> Values \cup {Zero}]
  BY DEF ZeroBlock

-----------------------------------------------------------------------------
(* The invariant holds initially and every action keeps it *)

\* Empty files hold nothing, and nothing is written.
LEMMA InitInv == Init => Inv
<1> SUFFICES ASSUME Init PROVE Inv
  OBVIOUS
<1>1. TypeOK
  BY FileAssumption, ZeroBlockType DEF Init, TypeOK, Inode, WriteLoop
<1>2. DiskOwned /\ NoBlockPastEnd /\ WriteInv
  BY DEF Init, DiskOwned, NoBlockPastEnd, WriteInv
<1>3. QED
  BY <1>1, <1>2 DEF Inv

\* A write that begins copies an inode whose blocks are its own.
LEMMA WriteBeginInv ==
    ASSUME Inv, NEW f \in Files, NEW r \in Writes, NEW v \in Values, WriteBegin(f, r, v)
    PROVE  Inv'
<1> DEFINE w == [file |-> f, value |-> v, offset |-> r.offset, size |-> r.size,
                 done |-> 0, inode |-> inode[f]]
<1>1. writing' = {w} /\ UNCHANGED <<bitmap, inode, block>>
  BY DEF WriteBegin
<1>2. r.offset \in Nat /\ r.size \in Nat /\ r.offset + r.size < Word
  BY FileAssumption, NoWrap
<1>3. inode[f] \in Inode
  BY DEF Inv, TypeOK
<1>4. w \in WriteLoop
  BY <1>2, <1>3 DEF WriteLoop
<1>5. TypeOK'
  BY <1>1, <1>2, <1>4 DEF Inv, TypeOK
<1>6. DiskOwned' /\ NoBlockPastEnd'
  BY <1>1 DEF Inv, DiskOwned, NoBlockPastEnd
<1>7. Asked(w)
  BY <1>2 DEF Asked
<1>8. CopyOwned(w)'
  BY <1>1 DEF Inv, DiskOwned, NoBlockPastEnd, CopyOwned
<1>9. CopyWritten(w)'
  <2>1. \A p \in Places : ~(w.offset <= p /\ p < w.offset + w.done)
    BY <1>2, PlaceType
  <2>2. QED
    BY <2>1, <1>1 DEF CopyWritten, ByteAt
<1>10. WriteInv'
  BY <1>1, <1>7, <1>8, <1>9 DEF WriteInv, Asked
<1>11. QED
  BY <1>5, <1>6, <1>10 DEF Inv

\* The write under way has the invariant's properties.
LEMMA WritingInv ==
    ASSUME Inv, NEW w \in writing
    PROVE  /\ w \in WriteLoop /\ writing = {w}
           /\ w.done <= w.size
           /\ w.file \in Files /\ w.value \in Values
           /\ w.offset \in Nat /\ w.size \in Nat /\ w.done \in Nat
           /\ w.inode \in Inode
           /\ w.inode.direct \in [Idx -> DataBlocks \cup {NoBlock}]
           /\ Asked(w) /\ CopyOwned(w) /\ CopyWritten(w)
  BY DEF Inv, TypeOK, WriteInv, WriteLoop, Inode

\* A step in place fills a block that is the copy's and its file's, within the
\* range that was asked for.
LEMMA WriteInPlaceInv ==
    ASSUME Inv, NEW w \in writing, WriteInPlace(w)
    PROVE  Inv'
<1> DEFINE b == w.inode.direct[BlockIndex(w)]
           w1 == [w EXCEPT !.done = w.done + ToWrite(w)]
<1>0. /\ TypeOK /\ w \in WriteLoop /\ Asked(w)
      /\ w.inode.direct \in [Idx -> DataBlocks \cup {NoBlock}]
  BY WritingInv DEF Inv
<1>1. InLoop(w) /\ b # NoBlock /\ block' = [block EXCEPT ![b] = Filled(block[b], w)]
  BY DEF WriteInPlace
<1>2. UNCHANGED <<bitmap, inode>>
  BY DEF WriteInPlace
<1>3. writing' = {w1} /\ w1 \in WriteLoop /\ w1.done <= w1.size
  BY <1>1, WritingInv, AdvancedType DEF WriteInPlace, WriteLoop
<1>4. /\ w1.file = w.file /\ w1.value = w.value /\ w1.offset = w.offset
      /\ w1.size = w.size /\ w1.inode = w.inode /\ w1.done = w.done + ToWrite(w)
  BY WritingInv DEF WriteLoop
<1> HIDE DEF w1
<1>5. BlockIndex(w) \in Idx /\ b \in DataBlocks /\ ToWrite(w) \in Nat
  BY <1>1, WritingInv, Target
<1>6. /\ block[b] \in [Cells -> Values \cup {Zero}]
      /\ block'[b] = Filled(block[b], w)
      /\ \A c \in DataBlocks : c # b => block'[c] = block[c]
  BY <1>1, <1>5 DEF Inv, TypeOK
<1>7. TypeOK'
  <2>1. block' \in [DataBlocks -> [Cells -> Values \cup {Zero}]]
    BY <1>1, <1>5, <1>6, WritingInv, FilledType DEF Inv, TypeOK
  <2>2. QED
    BY <2>1, <1>2, <1>3 DEF Inv, TypeOK
<1>8. DiskOwned' /\ NoBlockPastEnd'
  BY <1>2 DEF Inv, DiskOwned, NoBlockPastEnd
<1>9. Asked(w1)
  BY <1>4, WritingInv DEF Asked
<1>10. CopyOwned(w1)'
  <2>1. \A k \in Idx : k * BlockSize < w.offset + w.done
                       => k * BlockSize < w.offset + (w.done + ToWrite(w))
    BY <1>5, WritingInv, FileAssumption DEF Idx
  <2>2. QED
    BY <2>1, <1>2, <1>4, WritingInv DEF CopyOwned
<1>11. CopyWritten(w1)'
  <2>1. SUFFICES ASSUME NEW p \in Places
                 PROVE  /\ w.offset <= p /\ p < w.offset + w.done + ToWrite(w)
                           => ByteAt(w.inode.direct, p)' = w.value
                        /\ ~(w.offset <= p /\ p < w.offset + w.done + ToWrite(w))
                           => ByteAt(w.inode.direct, p)' = ByteAt(inode[w.file].direct, p)'
    BY <1>4, WritingInv, <1>5 DEF CopyWritten
  <2> DEFINE here == w.offset + w.done <= p /\ p < w.offset + w.done + ToWrite(w)
  <2>2. p \in Nat /\ p \div BlockSize \in Idx
    BY PlaceType
  <2>3. \A k \in Idx : w.inode.direct[k] = b => k = BlockIndex(w)
    BY <1>1, <1>5, WritingInv DEF CopyOwned
  <2>4. /\ here => ByteAt(w.inode.direct, p)' = w.value
        /\ ~here => ByteAt(w.inode.direct, p)' =
                       IF p \div BlockSize = BlockIndex(w)
                       THEN block[b][p % BlockSize] ELSE ByteAt(w.inode.direct, p)
    BY <1>0, <1>1, <1>5, <1>6, <2>3, FilledBlock
  <2>5. ~here => ByteAt(w.inode.direct, p)' = ByteAt(w.inode.direct, p)
    BY <2>4, <1>1 DEF ByteAt
  <2>6. ~here => ByteAt(inode[w.file].direct, p)' = ByteAt(inode[w.file].direct, p)
    <3>1. SUFFICES ASSUME NEW d \in [Idx -> DataBlocks \cup {NoBlock}],
                          d = inode[w.file].direct
                   PROVE  ~here => ByteAt(d, p)' = ByteAt(d, p)
      <4>1. inode[w.file].direct \in [Idx -> DataBlocks \cup {NoBlock}]
        BY WritingInv DEF Inv, TypeOK, Inode
      <4>2. QED
        BY <4>1, <1>2
    <3>2. CASE d[BlockIndex(w)] = b
      <4>1. \A k \in Idx : d[k] = b => k = BlockIndex(w)
        BY <1>1, <1>5, <3>1, WritingInv DEF CopyOwned
      <4>2. ~here => ByteAt(d, p)' = IF p \div BlockSize = BlockIndex(w)
                       THEN block[b][p % BlockSize] ELSE ByteAt(d, p)
        BY <1>0, <1>1, <1>5, <1>6, <3>2, <4>1, FilledBlock
      <4>3. QED
        BY <4>2, <3>2, <1>1 DEF ByteAt
    <3>3. CASE d[BlockIndex(w)] # b
      <4>1. \A k \in Idx : d[k] # b
        BY <1>1, <1>5, <3>1, <3>3, WritingInv DEF CopyOwned
      <4>2. QED
        BY <4>1, <1>1, <1>5, OtherBlocks DEF Inv
    <3>4. QED
      BY <3>2, <3>3
  <2>7. QED
    BY <2>2, <2>4, <2>5, <2>6, <1>5, WritingInv DEF CopyWritten
<1>12. WriteInv'
  BY <1>3, <1>9, <1>10, <1>11 DEF WriteInv, Asked
<1>13. QED
  BY <1>7, <1>8, <1>12 DEF Inv

\* A step that allocates takes a block that was free, so nobody else's.
LEMMA WriteAllocInv ==
    ASSUME Inv, NEW w \in writing, WriteAlloc(w)
    PROVE  Inv'
<1> DEFINE q == BlockIndex(w)
           d == w.inode.direct
<1>0. TypeOK /\ w \in WriteLoop /\ Asked(w) /\ d \in [Idx -> DataBlocks \cup {NoBlock}]
  BY WritingInv DEF Inv
<1>1. InLoop(w) /\ d[q] = NoBlock /\ inode' = inode
  BY DEF WriteAlloc
<1>2. PICK b \in FirstFit(DataBlocks \ bitmap) :
         /\ bitmap' = bitmap \cup {b}
         /\ block' = [block EXCEPT ![b] = Filled(ZeroBlock, w)]
         /\ writing' = {[Advanced(w) EXCEPT !.inode.direct[BlockIndex(w)] = b]}
  BY DEF WriteAlloc
<1>3. b \in DataBlocks /\ b \notin bitmap /\ b # NoBlock
  BY <1>2, FirstFitMember, FileAssumption DEF NoBlock
<1>4. q \in Idx /\ ToWrite(w) \in Nat /\ q * BlockSize < w.offset + (w.done + ToWrite(w))
  <2>1. /\ w.offset + w.done = BlockSize * q + BlockOffset(w)
        /\ q \in Idx /\ BlockOffset(w) \in Nat /\ ToWrite(w) \in Nat /\ ToWrite(w) > 0
    BY <1>0, <1>1, Target DEF Cells
  <2>2. q \in Nat /\ BlockSize \in Nat /\ w.offset \in Nat /\ w.done \in Nat
    BY <2>1, WritingInv, FileAssumption DEF Idx
  <2> HIDE DEF q
  <2>3. BlockSize * q = q * BlockSize /\ BlockSize * q \in Nat
    BY <2>2
  <2>4. QED
    BY <2>1, <2>2, <2>3
<1> DEFINE d1 == [d EXCEPT ![q] = b]
           ino1 == [w.inode EXCEPT !.direct = d1]
           w1 == [w EXCEPT !.done = w.done + ToWrite(w), !.inode = ino1]
<1>5. d1 \in [Idx -> DataBlocks \cup {NoBlock}]
  BY <1>0, <1>3, <1>4
<1>6. ino1 \in Inode /\ ino1.size = w.inode.size /\ ino1.direct = d1
  BY <1>5, WritingInv DEF Inode
<1>7. /\ w1 \in WriteLoop /\ w1.done <= w1.size
      /\ w1.file = w.file /\ w1.value = w.value /\ w1.offset = w.offset
      /\ w1.size = w.size /\ w1.inode = ino1 /\ w1.done = w.done + ToWrite(w)
  <2>1. w.done + ToWrite(w) \in Nat /\ w.done + ToWrite(w) <= w.size
    BY <1>0, <1>1, Target, WritingInv
  <2> HIDE DEF ino1
  <2>2. QED
    BY <2>1, <1>0, <1>6 DEF WriteLoop
<1>8. writing' = {w1}
  <2>1. Advanced(w) = [w EXCEPT !.done = w.done + ToWrite(w)]
    BY <1>0, <1>1, AdvancedType
  <2>2. [Advanced(w) EXCEPT !.inode.direct[q] = b] = w1
    BY <2>1, <1>0, WritingInv DEF WriteLoop, Inode
  <2>3. QED
    BY <2>2, <1>2
<1> HIDE DEF w1, ino1
<1>9. /\ Filled(ZeroBlock, w) \in [Cells -> Values \cup {Zero}]
      /\ block'[b] = Filled(ZeroBlock, w)
      /\ \A c \in DataBlocks : c # b => block'[c] = block[c]
      /\ block' \in [DataBlocks -> [Cells -> Values \cup {Zero}]]
  BY <1>0, <1>2, <1>3, ZeroBlockType, FilledType DEF TypeOK
<1>10. TypeOK'
  BY <1>0, <1>1, <1>2, <1>3, <1>7, <1>8, <1>9 DEF TypeOK
<1>11. DiskOwned' /\ NoBlockPastEnd'
  BY <1>1, <1>2 DEF Inv, DiskOwned, NoBlockPastEnd
<1>12. Asked(w1)
  BY <1>0, <1>7 DEF Asked
<1>13. /\ \A k \in Idx : d1[k] = IF k = q THEN b ELSE d[k]
       /\ \A k \in Idx : d[k] # b
       /\ \A g \in Files : \A k \in Idx : inode[g].direct[k] # b
  <2>1. \A k \in Idx : d[k] # b
    BY <1>3, WritingInv DEF CopyOwned
  <2>2. \A g \in Files : \A k \in Idx : inode[g].direct[k] # b
    BY <1>3 DEF Inv, DiskOwned
  <2>3. QED
    BY <2>1, <2>2, <1>0, <1>4
<1>14. CopyOwned(w1)'
  <2>1. /\ w1.inode.size = inode'[w1.file].size
        /\ \A k \in Idx : inode'[w1.file].direct[k] # NoBlock
                          => w1.inode.direct[k] = inode'[w1.file].direct[k]
    BY <1>1, <1>6, <1>7, <1>13, WritingInv DEF CopyOwned
  <2>2. \A k \in Idx : w1.inode.direct[k] # NoBlock => w1.inode.direct[k] \in bitmap'
    BY <1>2, <1>6, <1>7, <1>13, WritingInv DEF CopyOwned
  <2>3. \A k, l \in Idx : w1.inode.direct[k] # NoBlock
                          /\ w1.inode.direct[k] = w1.inode.direct[l] => k = l
    BY <1>6, <1>7, <1>13, WritingInv DEF CopyOwned
  <2>4. \A g \in Files : \A k, l \in Idx :
           w1.inode.direct[k] # NoBlock /\ w1.inode.direct[k] = inode'[g].direct[l]
           => g = w1.file /\ k = l
    BY <1>1, <1>6, <1>7, <1>13, WritingInv DEF CopyOwned
  <2>5. \A k \in Idx : w1.inode.direct[k] # NoBlock
           => k * BlockSize < w1.inode.size \/ k * BlockSize < w1.offset + w1.done
    <3>1. SUFFICES ASSUME NEW k \in Idx, d1[k] # NoBlock
                   PROVE  \/ k * BlockSize < w.inode.size
                          \/ k * BlockSize < w.offset + (w.done + ToWrite(w))
      BY <1>6, <1>7
    <3>2. CASE k = q
      BY <1>4, <3>2
    <3>3. CASE k # q
      <4>1. k * BlockSize < w.inode.size \/ k * BlockSize < w.offset + w.done
        BY <1>13, <3>1, <3>3, WritingInv DEF CopyOwned
      <4>2. k * BlockSize \in Nat
        BY FileAssumption DEF Idx
      <4>3. QED
        BY <4>1, <4>2, <1>4, WritingInv
    <3>4. QED
      BY <3>2, <3>3
  <2>6. QED
    BY <2>1, <2>2, <2>3, <2>4, <2>5 DEF CopyOwned
<1>15. CopyWritten(w1)'
  <2>1. SUFFICES ASSUME NEW p \in Places
                 PROVE  /\ w.offset <= p /\ p < w.offset + w.done + ToWrite(w)
                           => ByteAt(d1, p)' = w.value
                        /\ ~(w.offset <= p /\ p < w.offset + w.done + ToWrite(w))
                           => ByteAt(d1, p)' = ByteAt(inode[w.file].direct, p)'
    BY <1>4, <1>6, <1>7, WritingInv DEF CopyWritten
  <2> DEFINE here == w.offset + w.done <= p /\ p < w.offset + w.done + ToWrite(w)
  <2>2. p \in Nat /\ p \div BlockSize \in Idx /\ p % BlockSize \in Cells
    BY PlaceType
  <2>3. \A k \in Idx : d1[k] = b => k = q
    BY <1>13
  <2>4. d1[q] = b
    BY <1>13, <1>4
  <2> HIDE DEF d1
  <2>5. /\ here => ByteAt(d1, p)' = w.value
        /\ ~here => ByteAt(d1, p)' = IF p \div BlockSize = q
                                     THEN ZeroBlock[p % BlockSize] ELSE ByteAt(d1, p)
    BY <1>0, <1>1, <1>3, <1>5, <1>9, <2>3, <2>4, ZeroBlockType, FilledBlock
  <2>6. ~here => ByteAt(d1, p)' = ByteAt(d, p)
    <3>1. p \div BlockSize = q => ByteAt(d, p) = Zero
      BY <1>1 DEF ByteAt
    <3>2. p \div BlockSize # q => ByteAt(d1, p) = ByteAt(d, p)
      BY <1>13, <2>2 DEF ByteAt
    <3>3. ZeroBlock[p % BlockSize] = Zero
      BY <2>2 DEF ZeroBlock
    <3>4. QED
      BY <2>5, <3>1, <3>2, <3>3
  <2>7. ByteAt(inode[w.file].direct, p)' = ByteAt(inode[w.file].direct, p)
    <3>1. SUFFICES ASSUME NEW e \in [Idx -> DataBlocks \cup {NoBlock}],
                          e = inode[w.file].direct
                   PROVE  ByteAt(e, p)' = ByteAt(e, p)
      <4>1. inode[w.file].direct \in [Idx -> DataBlocks \cup {NoBlock}]
        BY WritingInv DEF Inv, TypeOK, Inode
      <4>2. QED
        BY <4>1, <1>1
    <3>2. QED
      BY <3>1, <1>0, <1>2, <1>3, <1>13, WritingInv, OtherBlocks
  <2>8. QED
    BY <2>2, <2>5, <2>6, <2>7, <1>4, WritingInv DEF CopyWritten
<1>16. WriteInv'
  BY <1>8, <1>12, <1>14, <1>15 DEF WriteInv, Asked
<1>17. QED
  BY <1>10, <1>11, <1>16 DEF Inv

\* The ends of a write that leave the image as it is.
LEMMA DropInv ==
    ASSUME Inv, writing' = {}, UNCHANGED <<bitmap, inode, block>>
    PROVE  Inv'
  BY DEF Inv, TypeOK, DiskOwned, NoBlockPastEnd, WriteInv

\* The size a finished write leaves.
LEMMA NewSize ==
    ASSUME Inv, NEW w \in writing, WriteEnd(w)
    PROVE  /\ inode' = [inode EXCEPT ![w.file] = [w.inode EXCEPT !.size =
                          IF w.offset + w.done > w.inode.size
                          THEN w.offset + w.done ELSE w.inode.size]]
           /\ inode'[w.file].direct = w.inode.direct
           /\ inode'[w.file].size = IF w.offset + w.done > w.inode.size
                                    THEN w.offset + w.done ELSE w.inode.size
           /\ \A g \in Files : g # w.file => inode'[g] = inode[g]
           /\ inode' \in [Files -> Inode]
<1>1. w.offset + w.done \in Nat /\ w.offset + w.done < Word /\ Word \in Nat
  BY WritingInv, FileAssumption DEF Asked
<1>2. (w.offset + w.done) % Word = w.offset + w.done
  BY <1>1
<1>3. inode' = [inode EXCEPT ![w.file] = [w.inode EXCEPT !.size =
                   IF w.offset + w.done > w.inode.size
                   THEN w.offset + w.done ELSE w.inode.size]]
  BY <1>2 DEF WriteEnd
<1>4. inode \in [Files -> Inode]
  BY DEF Inv, TypeOK
<1>5. QED
  BY <1>1, <1>3, <1>4, WritingInv DEF Inode

\* The end puts the copy in the table: its blocks were the file's or new, and
\* its size covers them.
LEMMA WriteEndInv ==
    ASSUME Inv, NEW w \in writing, WriteEnd(w)
    PROVE  Inv'
<1>0. /\ inode'[w.file].direct = w.inode.direct
      /\ inode'[w.file].size = IF w.offset + w.done > w.inode.size
                               THEN w.offset + w.done ELSE w.inode.size
      /\ \A g \in Files : g # w.file => inode'[g] = inode[g]
      /\ inode' \in [Files -> Inode]
  BY NewSize
<1>1. UNCHANGED <<bitmap, block>> /\ writing' = {}
  BY DEF WriteEnd
<1>2. TypeOK'
  BY <1>0, <1>1 DEF Inv, TypeOK
<1>copy. /\ w.file \in Files
         /\ \A k \in Idx : w.inode.direct[k] # NoBlock => w.inode.direct[k] \in bitmap
         /\ \A k, l \in Idx : w.inode.direct[k] # NoBlock
                               /\ w.inode.direct[k] = w.inode.direct[l] => k = l
         /\ \A g \in Files : \A k, l \in Idx :
               w.inode.direct[k] # NoBlock /\ w.inode.direct[k] = inode[g].direct[l]
               => g = w.file /\ k = l
  BY WritingInv DEF CopyOwned
<1>3. DiskOwned'
  <2>1. \A f \in Files : \A k \in Idx :
           inode'[f].direct[k] # NoBlock => inode'[f].direct[k] \in bitmap'
    BY <1>0, <1>1, <1>copy DEF Inv, DiskOwned
  <2>2. \A f, g \in Files : \A k, l \in Idx :
           inode'[f].direct[k] # NoBlock /\ inode'[f].direct[k] = inode'[g].direct[l]
           => f = g /\ k = l
    <3>1. SUFFICES ASSUME NEW f \in Files, NEW g \in Files, NEW k \in Idx, NEW l \in Idx,
                          inode'[f].direct[k] # NoBlock,
                          inode'[f].direct[k] = inode'[g].direct[l]
                   PROVE  f = g /\ k = l
      OBVIOUS
    <3>2. CASE f = w.file /\ g = w.file
      BY <1>0, <1>copy, <3>1, <3>2
    <3>3. CASE f = w.file /\ g # w.file
      BY <1>0, <1>copy, <3>1, <3>3
    <3>4. CASE f # w.file /\ g = w.file
      BY <1>0, <1>copy, <3>1, <3>4
    <3>5. CASE f # w.file /\ g # w.file
      BY <1>0, <3>1, <3>5 DEF Inv, DiskOwned
    <3>6. QED
      BY <3>2, <3>3, <3>4, <3>5
  <2>3. QED
    BY <2>1, <2>2 DEF DiskOwned
<1>4. NoBlockPastEnd'
  <2>1. SUFFICES ASSUME NEW f \in Files, NEW k \in Idx, inode'[f].direct[k] # NoBlock
                 PROVE  k * BlockSize < inode'[f].size
    BY DEF NoBlockPastEnd
  <2>2. CASE f # w.file
    BY <2>1, <2>2, <1>0 DEF Inv, NoBlockPastEnd
  <2>3. CASE f = w.file
    <3>1. k * BlockSize < w.inode.size \/ k * BlockSize < w.offset + w.done
      BY <2>1, <2>3, <1>0, WritingInv DEF CopyOwned
    <3>2. /\ inode'[f].size = IF w.offset + w.done > w.inode.size
                              THEN w.offset + w.done ELSE w.inode.size
          /\ w.inode.size \in Nat /\ w.offset + w.done \in Nat
      BY <2>3, <1>0, WritingInv DEF Inode
    <3>nat. k * BlockSize \in Nat
      BY FileAssumption DEF Idx
    <3>3. QED
      BY <3>1, <3>2, <3>nat
  <2>4. QED
    BY <2>2, <2>3
<1>5. WriteInv'
  BY <1>1 DEF WriteInv
<1>6. QED
  BY <1>2, <1>3, <1>4, <1>5 DEF Inv

\* What a truncation makes of an inode.
LEMMA Shorter ==
    ASSUME Inv, NEW f \in Files, NEW s \in Sizes, Truncate(f, s)
    PROVE  /\ inode'[f].size = s /\ s \in Nat
           /\ \A k \in Idx : inode'[f].direct[k] =
                 IF inode[f].direct[k] # NoBlock /\ k * BlockSize >= s
                 THEN NoBlock ELSE inode[f].direct[k]
           /\ \A g \in Files : g # f => inode'[g] = inode[g]
           /\ inode' \in [Files -> Inode]
           /\ UNCHANGED <<block, writing>> /\ writing = {}
<1>1. s \in Nat /\ s % Word = s
  BY FileAssumption, NoWrap
<1>2. inode \in [Files -> Inode]
  BY DEF Inv, TypeOK
<1> DEFINE d == [k \in Idx |-> IF k \in Dropped(inode[f], s) THEN NoBlock ELSE inode[f].direct[k]]
<1>3. inode' = [inode EXCEPT ![f] = [size |-> s, direct |-> d]]
  BY <1>1 DEF Truncate
<1>4. d \in [Idx -> DataBlocks \cup {NoBlock}]
  BY <1>2 DEF Inode
<1>5. \A k \in Idx : d[k] = IF inode[f].direct[k] # NoBlock /\ k * BlockSize >= s
                            THEN NoBlock ELSE inode[f].direct[k]
  BY DEF Dropped
<1> HIDE DEF d
<1>6. QED
  BY <1>1, <1>2, <1>3, <1>4, <1>5 DEF Truncate, Inode

\* A truncation frees what lies past the new end, which nobody else has.
LEMMA TruncateInv ==
    ASSUME Inv, NEW f \in Files, NEW s \in Sizes, Truncate(f, s)
    PROVE  Inv'
<1>0. /\ inode'[f].size = s /\ s \in Nat
      /\ \A k \in Idx : inode'[f].direct[k] =
            IF inode[f].direct[k] # NoBlock /\ k * BlockSize >= s
            THEN NoBlock ELSE inode[f].direct[k]
      /\ \A g \in Files : g # f => inode'[g] = inode[g]
      /\ inode' \in [Files -> Inode]
      /\ UNCHANGED <<block, writing>> /\ writing = {}
  BY Shorter
<1>1. bitmap' = bitmap \ {inode[f].direct[k] : k \in Dropped(inode[f], s)}
  BY DEF Truncate
<1>2. TypeOK'
  BY <1>1, <1>0 DEF Inv, TypeOK
<1>3. \A g \in Files : \A k \in Idx : inode'[g].direct[k] # NoBlock
         => inode'[g].direct[k] = inode[g].direct[k]
  BY <1>0
<1>4. DiskOwned'
  <2>1. ASSUME NEW g \in Files, NEW k \in Idx, inode'[g].direct[k] # NoBlock
        PROVE  inode'[g].direct[k] \in bitmap'
    <3>1. inode'[g].direct[k] = inode[g].direct[k] /\ inode[g].direct[k] \in bitmap
      BY <1>3, <2>1 DEF Inv, DiskOwned
    <3>2. ASSUME NEW l \in Dropped(inode[f], s), inode[g].direct[k] = inode[f].direct[l]
          PROVE  FALSE
      <4>1. l \in Idx /\ inode[f].direct[l] # NoBlock /\ l * BlockSize >= s
        BY DEF Dropped
      <4>2. g = f /\ k = l
        BY <4>1, <3>2 DEF Inv, DiskOwned
      <4>3. QED
        BY <4>1, <4>2, <2>1, <1>0
    <3>3. QED
      BY <1>1, <3>1, <3>2
  <2>2. \A g, h \in Files : \A k, l \in Idx :
           inode'[g].direct[k] # NoBlock /\ inode'[g].direct[k] = inode'[h].direct[l]
           => g = h /\ k = l
    BY <1>3 DEF Inv, DiskOwned
  <2>3. QED
    BY <2>1, <2>2 DEF DiskOwned
<1>5. NoBlockPastEnd'
  <2>1. SUFFICES ASSUME NEW g \in Files, NEW k \in Idx, inode'[g].direct[k] # NoBlock
                 PROVE  k * BlockSize < inode'[g].size
    BY DEF NoBlockPastEnd
  <2>2. CASE g # f
    BY <2>1, <2>2, <1>0 DEF Inv, NoBlockPastEnd
  <2>3. CASE g = f
    <3>1. ~(k * BlockSize >= s)
      BY <2>1, <2>3, <1>0
    <3>2. k * BlockSize \in Nat
      BY FileAssumption DEF Idx
    <3>3. QED
      BY <2>3, <3>1, <3>2, <1>0
  <2>4. QED
    BY <2>2, <2>3
<1>6. WriteInv'
  BY <1>0 DEF WriteInv
<1>7. QED
  BY <1>2, <1>4, <1>5, <1>6 DEF Inv

\* Every step keeps the invariant.
LEMMA NextInv == Inv /\ [Next]_vars => Inv'
<1> SUFFICES ASSUME Inv, [Next]_vars PROVE Inv'
  OBVIOUS
<1>1. CASE \E f \in Files, r \in Writes, v \in Values : WriteBegin(f, r, v)
  BY <1>1, WriteBeginInv
<1>2. CASE \E f \in Files, s \in Sizes : Truncate(f, s)
  BY <1>2, TruncateInv
<1>3. CASE \E w \in writing : WriteStep(w)
  <2>1. PICK w \in writing : WriteStep(w)
    BY <1>3
  <2>2. CASE WriteInPlace(w)
    BY <2>2, WriteInPlaceInv
  <2>3. CASE WriteAlloc(w)
    BY <2>3, WriteAllocInv
  <2>4. CASE WriteNoSpace(w)
    BY <2>4, DropInv DEF WriteNoSpace
  <2>5. CASE WriteEnd(w)
    BY <2>5, WriteEndInv
  <2>6. QED
    BY <2>1, <2>2, <2>3, <2>4, <2>5 DEF WriteStep
<1>4. CASE Death
  BY <1>4, DropInv DEF Death
<1>5. CASE UNCHANGED vars
  <2>1. UNCHANGED <<bitmap, inode, block, writing>>
    BY <1>5 DEF vars
  <2>2. TypeOK' /\ DiskOwned' /\ NoBlockPastEnd'
    BY <2>1 DEF Inv, TypeOK, DiskOwned, NoBlockPastEnd
  <2>3. ASSUME NEW w \in writing PROVE (Asked(w) /\ CopyOwned(w) /\ CopyWritten(w))'
    <3>1. CopyOwned(w)'
      BY <2>1, WritingInv DEF CopyOwned
    <3>2. CopyWritten(w)'
      BY <2>1, WritingInv DEF CopyWritten, ByteAt
    <3>3. QED
      BY <3>1, <3>2, WritingInv DEF Asked
  <2>4. QED
    BY <2>1, <2>2, <2>3 DEF Inv, WriteInv
<1>6. QED
  BY <1>1, <1>2, <1>3, <1>4, <1>5 DEF Next

\* In every reachable state the types are right, pointers are marked and
\* unshared, and a write under way has changed its own range only.
THEOREM Invariance == Spec => []Inv
  BY InitInv, NextInv, PTL DEF Spec

\* Every reachable state is well typed: no write leaves the cells of a block,
\* no request is overrun, and one write is under way at most.
THEOREM TypeCorrect == Spec => []TypeOK
<1>1. Inv => TypeOK
  BY DEF Inv
<1>2. QED
  BY <1>1, Invariance, PTL

\* No file ever holds a block past its end.
THEOREM BlocksWithinSize == Spec => []NoBlockPastEnd
<1>1. Inv => NoBlockPastEnd
  BY DEF Inv
<1>2. QED
  BY <1>1, Invariance, PTL

-----------------------------------------------------------------------------
(* The simulation of ByteFile *)

\* The request behind a write, as ByteFile sees it.
Request(w) == [file |-> w.file, value |-> w.value, offset |-> w.offset, size |-> w.size]

\* How a change of the bytes shows in ByteFile.
LEMMA Changes ==
    ASSUME NEW f \in Files, NEW S, NEW v,
           \A g \in Files, p \in Places :
              ByteAt(inode[g].direct, p)' # ByteAt(inode[g].direct, p)
              => g = f /\ p \in S /\ ByteAt(inode[g].direct, p)' = v
    PROVE  Bytes!ChangeOnly(f, S, v)
  BY DEF Bytes!ChangeOnly

\* A write that leaves the image fails.
LEMMA DropMaps ==
    ASSUME NEW w \in writing, writing' = {}, UNCHANGED <<inode, block>>
    PROVE  Bytes!Fail
<1>1. UNCHANGED [f \in Files |-> inode[f].size]
  OBVIOUS
<1>2. UNCHANGED [f \in Files |-> [p \in Places |-> ByteAt(inode[f].direct, p)]]
  BY DEF ByteAt
<1>3. Request(w) \in {Request(x) : x \in writing} /\ {Request(x) : x \in writing'} = {}
  OBVIOUS
<1>4. QED
  BY <1>1, <1>2, <1>3 DEF Bytes!Fail, Request

\* A write that begins is a request that ByteFile starts to serve.
LEMMA WriteBeginMaps ==
    ASSUME NEW f \in Files, NEW r \in Writes, NEW v \in Values, WriteBegin(f, r, v)
    PROVE  Bytes!Serve
<1> DEFINE w == [file |-> f, value |-> v, offset |-> r.offset, size |-> r.size,
                 done |-> 0, inode |-> inode[f]]
<1>1. writing = {} /\ writing' = {w} /\ UNCHANGED <<inode, block>>
  BY DEF WriteBegin
<1>2. UNCHANGED [g \in Files |-> inode[g].size]
  BY <1>1
<1>3. UNCHANGED [g \in Files |-> [p \in Places |-> ByteAt(inode[g].direct, p)]]
  BY <1>1 DEF ByteAt
<1>4. {Request(x) : x \in writing'} = {Request(w)} /\ {Request(x) : x \in writing} = {}
  BY <1>1
<1>5. QED
  BY <1>2, <1>3, <1>4 DEF Bytes!Serve, Request

\* Writing into a block of the file puts the value in places of the range.
LEMMA WriteInPlaceMaps ==
    ASSUME Inv, NEW w \in writing, WriteInPlace(w)
    PROVE  Bytes!Put(Request(w))
<1> DEFINE b == w.inode.direct[BlockIndex(w)]
<1>0. TypeOK /\ w \in WriteLoop /\ Asked(w)
  BY WritingInv DEF Inv
<1>1. InLoop(w) /\ b # NoBlock /\ inode' = inode
      /\ block' = [block EXCEPT ![b] = Filled(block[b], w)]
  BY DEF WriteInPlace
<1>2. writing = {w} /\ writing' = {[w EXCEPT !.done = w.done + ToWrite(w)]}
  BY <1>0, <1>1, WritingInv, AdvancedType DEF WriteInPlace
<1>3. BlockIndex(w) \in Idx /\ b \in DataBlocks /\ ToWrite(w) \in Nat
      /\ w.done + ToWrite(w) <= w.size
  BY <1>0, <1>1, WritingInv, Target
<1>4. /\ block[b] \in [Cells -> Values \cup {Zero}]
      /\ block'[b] = Filled(block[b], w)
      /\ \A c \in DataBlocks : c # b => block'[c] = block[c]
  BY <1>0, <1>1, <1>3 DEF TypeOK
<1>5. ASSUME NEW g \in Files, NEW p \in Places,
             ByteAt(inode[g].direct, p)' # ByteAt(inode[g].direct, p)
      PROVE  /\ g = w.file /\ w.offset <= p /\ p < w.offset + w.size
             /\ ByteAt(inode[g].direct, p)' = w.value
  <2>1. SUFFICES ASSUME NEW d \in [Idx -> DataBlocks \cup {NoBlock}], d = inode[g].direct,
                        ByteAt(d, p)' # ByteAt(d, p)
                 PROVE  /\ g = w.file /\ w.offset <= p /\ p < w.offset + w.size
                        /\ ByteAt(d, p)' = w.value
    <3>1. inode[g].direct \in [Idx -> DataBlocks \cup {NoBlock}]
      BY <1>0 DEF TypeOK, Inode
    <3>2. QED
      BY <3>1, <1>1, <1>5
  <2>2. d[BlockIndex(w)] = b /\ g = w.file
    <3>1. PICK k \in Idx : d[k] = b
      BY <2>1, <1>0, <1>1, <1>3, OtherBlocks
    <3>2. QED
      BY <3>1, <2>1, <1>1, <1>3, WritingInv DEF CopyOwned
  <2>3. \A k \in Idx : d[k] = b => k = BlockIndex(w)
    BY <2>1, <2>2, <1>1, <1>3, WritingInv DEF CopyOwned
  <2> DEFINE here == w.offset + w.done <= p /\ p < w.offset + w.done + ToWrite(w)
  <2>4. /\ here => ByteAt(d, p)' = w.value
        /\ ~here => ByteAt(d, p)' = IF p \div BlockSize = BlockIndex(w)
                                    THEN block[b][p % BlockSize] ELSE ByteAt(d, p)
    BY <1>0, <1>1, <1>3, <1>4, <2>2, <2>3, FilledBlock
  <2>5. here
    BY <2>1, <2>2, <2>4, <1>1 DEF ByteAt
  <2>6. p \in Nat
    BY PlaceType
  <2>7. QED
    BY <2>2, <2>4, <2>5, <2>6, <1>3, WritingInv
<1>6. Bytes!ChangeOnly(w.file, Bytes!Range(Request(w)), w.value)
  <2>1. \A g \in Files, p \in Places :
           ByteAt(inode[g].direct, p)' # ByteAt(inode[g].direct, p)
           => /\ g = w.file /\ p \in Bytes!Range(Request(w))
              /\ ByteAt(inode[g].direct, p)' = w.value
    BY <1>5 DEF Bytes!Range, Request
  <2>2. QED
    BY <2>1, Changes, WritingInv
<1>7. UNCHANGED [f \in Files |-> inode[f].size]
  BY <1>1
<1>8. {Request(x) : x \in writing'} = {Request(x) : x \in writing}
  BY <1>2, WritingInv DEF Request, WriteLoop
<1>9. QED
  BY <1>6, <1>7, <1>8 DEF Bytes!Put, Request

\* Writing into a new block, which no inode on disk has yet, shows nowhere.
LEMMA WriteAllocMaps ==
    ASSUME Inv, NEW w \in writing, WriteAlloc(w)
    PROVE  /\ UNCHANGED [f \in Files |-> inode[f].size]
           /\ UNCHANGED [f \in Files |-> [p \in Places |-> ByteAt(inode[f].direct, p)]]
           /\ UNCHANGED {Request(x) : x \in writing}
<1>0. TypeOK /\ w \in WriteLoop /\ Asked(w)
  BY WritingInv DEF Inv
<1>1. PICK b \in FirstFit(DataBlocks \ bitmap) :
         /\ block' = [block EXCEPT ![b] = Filled(ZeroBlock, w)]
         /\ writing' = {[Advanced(w) EXCEPT !.inode.direct[BlockIndex(w)] = b]}
  BY DEF WriteAlloc
<1>2. InLoop(w) /\ inode' = inode
  BY DEF WriteAlloc
<1>3. b \in DataBlocks /\ b \notin bitmap /\ b # NoBlock
  BY <1>1, FirstFitMember, FileAssumption DEF NoBlock
<1>4. ASSUME NEW g \in Files, NEW p \in Places
      PROVE  ByteAt(inode[g].direct, p)' = ByteAt(inode[g].direct, p)
  <2>1. SUFFICES ASSUME NEW d \in [Idx -> DataBlocks \cup {NoBlock}], d = inode[g].direct
                 PROVE  ByteAt(d, p)' = ByteAt(d, p)
    <3>1. inode[g].direct \in [Idx -> DataBlocks \cup {NoBlock}]
      BY <1>0 DEF TypeOK, Inode
    <3>2. QED
      BY <3>1, <1>2
  <2>2. \A k \in Idx : d[k] # b
    BY <1>3, <2>1 DEF Inv, DiskOwned
  <2>3. QED
    BY <2>1, <2>2, <1>0, <1>1, <1>3, OtherBlocks
<1>5. UNCHANGED [f \in Files |-> [p \in Places |-> ByteAt(inode[f].direct, p)]]
  BY <1>4
<1>6. {Request(x) : x \in writing'} = {Request(w)}
  <2>1. Advanced(w) = [w EXCEPT !.done = w.done + ToWrite(w)]
    BY <1>0, <1>2, AdvancedType
  <2>2. Request([Advanced(w) EXCEPT !.inode.direct[BlockIndex(w)] = b]) = Request(w)
    BY <2>1, <1>0 DEF Request, WriteLoop
  <2>3. QED
    BY <2>2, <1>1
<1>7. {Request(x) : x \in writing} = {Request(w)}
  BY WritingInv
<1>8. QED
  BY <1>2, <1>5, <1>6, <1>7

\* The write of the inode makes everything that was written visible, and the
\* file reach to its end.
LEMMA WriteEndMaps ==
    ASSUME Inv, NEW w \in writing, WriteEnd(w)
    PROVE  Bytes!Return(Request(w), w.done) /\ w.done \in 0 .. Request(w).size
<1>1. /\ inode'[w.file].direct = w.inode.direct
      /\ inode'[w.file].size = IF w.offset + w.done > w.inode.size
                               THEN w.offset + w.done ELSE w.inode.size
      /\ \A g \in Files : g # w.file => inode'[g] = inode[g]
      /\ inode' \in [Files -> Inode]
  BY NewSize
<1>2. writing' = {} /\ block' = block
  BY DEF WriteEnd
<1>3. /\ w.file \in Files /\ w.offset \in Nat /\ w.done \in Nat /\ w.size \in Nat
      /\ w.done <= w.size
  BY WritingInv
<1>4. ASSUME NEW p \in Places
      PROVE  /\ w.offset <= p /\ p < w.offset + w.done
                => ByteAt(inode[w.file].direct, p)' = w.value
             /\ ~(w.offset <= p /\ p < w.offset + w.done)
                => ByteAt(inode[w.file].direct, p)' = ByteAt(inode[w.file].direct, p)
  <2>1. ByteAt(inode[w.file].direct, p)' = ByteAt(w.inode.direct, p)
    BY <1>1, <1>2 DEF ByteAt
  <2>2. QED
    BY <2>1, WritingInv DEF CopyWritten
<1>5. ASSUME NEW g \in Files, NEW p \in Places, g # w.file
      PROVE  ByteAt(inode[g].direct, p)' = ByteAt(inode[g].direct, p)
  BY <1>1, <1>2, <1>5 DEF ByteAt
<1>6. Bytes!ChangeOnly(w.file, Bytes!Range(Request(w)), w.value)
  <2>1. ASSUME NEW g \in Files, NEW p \in Places,
               ByteAt(inode[g].direct, p)' # ByteAt(inode[g].direct, p)
        PROVE  /\ g = w.file /\ p \in Bytes!Range(Request(w))
               /\ ByteAt(inode[g].direct, p)' = w.value
    <3>1. g = w.file
      BY <2>1, <1>5
    <3>2. /\ w.offset <= p /\ p < w.offset + w.done
          /\ ByteAt(inode[g].direct, p)' = w.value
      BY <2>1, <3>1, <1>4
    <3>3. p \in Nat
      BY PlaceType
    <3>4. QED
      BY <3>1, <3>2, <3>3, <1>3 DEF Bytes!Range, Request
  <2>2. QED
    BY <2>1, <1>3, Changes
<1>7. ASSUME NEW p \in Bytes!Range([Request(w) EXCEPT !.size = w.done])
      PROVE  [f \in Files |-> [q \in Places |-> ByteAt(inode[f].direct, q)]]'[w.file][p] = w.value
  <2>1. p \in Places /\ w.offset <= p /\ p < w.offset + w.done
    BY DEF Bytes!Range, Request
  <2>2. QED
    BY <2>1, <1>3, <1>4
<1>8. [f \in Files |-> inode'[f].size] =
         [[f \in Files |-> inode[f].size] EXCEPT
             ![w.file] = IF w.offset + w.done > @ THEN w.offset + w.done ELSE @]
  <2>1. w.inode.size = inode[w.file].size
    BY WritingInv DEF CopyOwned
  <2>2. QED
    BY <2>1, <1>1, <1>3
<1>9. {Request(x) : x \in writing'} = {}
  BY <1>2
<1>10. QED
  BY <1>3, <1>6, <1>7, <1>8, <1>9 DEF Bytes!Return, Request

\* A truncation clears the places of the blocks it frees, all past the new end.
LEMMA TruncateMaps ==
    ASSUME Inv, NEW f \in Files, NEW s \in Sizes, Truncate(f, s)
    PROVE  Bytes!Truncate(f)
<1>1. /\ inode'[f].size = s /\ s \in Nat
      /\ \A k \in Idx : inode'[f].direct[k] =
            IF inode[f].direct[k] # NoBlock /\ k * BlockSize >= s
            THEN NoBlock ELSE inode[f].direct[k]
      /\ \A g \in Files : g # f => inode'[g] = inode[g]
      /\ UNCHANGED <<block, writing>> /\ writing = {}
  BY Shorter
<1>2. [g \in Files |-> inode'[g].size] =
         [[g \in Files |-> inode[g].size] EXCEPT ![f] = [g \in Files |-> inode'[g].size][f]]
  BY <1>1
<1>3. ASSUME NEW g \in Files, NEW p \in Places,
             ByteAt(inode[g].direct, p)' # ByteAt(inode[g].direct, p)
      PROVE  g = f /\ p >= s /\ ByteAt(inode[g].direct, p)' = Zero
  <2>1. p \in Nat /\ p \div BlockSize \in Idx
    BY PlaceType
  <2>2. g = f
    BY <1>1, <1>3 DEF ByteAt
  <2>3. /\ inode'[f].direct[p \div BlockSize] # inode[f].direct[p \div BlockSize]
    BY <1>1, <1>3, <2>2 DEF ByteAt
  <2>4. inode'[f].direct[p \div BlockSize] = NoBlock /\ (p \div BlockSize) * BlockSize >= s
    BY <1>1, <2>1, <2>3
  <2>5. ByteAt(inode[g].direct, p)' = Zero
    BY <2>2, <2>4 DEF ByteAt
  <2>6. p >= s
    <3>1. /\ p \div BlockSize \in Nat /\ p % BlockSize \in Nat /\ BlockSize \in Nat
          /\ p = BlockSize * (p \div BlockSize) + (p % BlockSize)
      BY <2>1, Division, FileAssumption DEF Cells
    <3>2. ASSUME NEW q \in Nat, NEW o \in Nat, p = BlockSize * q + o, q * BlockSize >= s
          PROVE  p >= s
      <4>1. q * BlockSize = BlockSize * q /\ q * BlockSize \in Nat
        BY <3>1
      <4>2. QED
        BY <4>1, <3>2, <1>1
    <3>3. QED
      BY <3>1, <3>2, <2>4
  <2>7. QED
    BY <2>2, <2>5, <2>6
<1>4. Bytes!ChangeOnly(f, {p \in Places : p >= s}, Zero)
  BY <1>3, Changes
<1>5. UNCHANGED {Request(x) : x \in writing} /\ {Request(x) : x \in writing} = {}
  BY <1>1
<1>6. QED
  BY <1>1, <1>2, <1>4, <1>5 DEF Bytes!Truncate, Request

\* Empty files are empty files.
LEMMA InitMaps == Init => Bytes!Bytes_Init
<1> SUFFICES ASSUME Init PROVE Bytes!Bytes_Init
  OBVIOUS
<1>1. [f \in Files |-> inode[f].size] = [f \in Files |-> 0]
  BY DEF Init
<1>2. \A f \in Files, p \in Places : ByteAt(inode[f].direct, p) = Zero
  BY PlaceType DEF Init, ByteAt
<1>3. [f \in Files |-> [p \in Places |-> ByteAt(inode[f].direct, p)]]
         = [f \in Files |-> [p \in Places |-> Zero]]
  BY <1>2
<1>4. {[file |-> w.file, value |-> w.value, offset |-> w.offset, size |-> w.size] : w \in writing} = {}
  BY DEF Init
<1>5. QED
  BY <1>1, <1>3, <1>4 DEF Bytes!Bytes_Init

\* Every step of FileData is a step of ByteFile or changes nothing it sees.
LEMMA NextMaps == Inv /\ [Next]_vars => [Bytes!Bytes_Next]_(Bytes!shown)
<1> SUFFICES ASSUME Inv, [Next]_vars PROVE [Bytes!Bytes_Next]_(Bytes!shown)
  OBVIOUS
<1>1. CASE \E f \in Files, r \in Writes, v \in Values : WriteBegin(f, r, v)
  BY <1>1, WriteBeginMaps DEF Bytes!Bytes_Next
<1>2. CASE \E f \in Files, s \in Sizes : Truncate(f, s)
  BY <1>2, TruncateMaps DEF Bytes!Bytes_Next
<1>3. CASE \E w \in writing : WriteStep(w)
  <2>1. PICK w \in writing : WriteStep(w)
    BY <1>3
  <2>2. Request(w) \in {Request(x) : x \in writing}
    OBVIOUS
  <2>3. CASE WriteInPlace(w)
    BY <2>2, <2>3, WriteInPlaceMaps DEF Bytes!Bytes_Next, Request
  <2>4. CASE WriteAlloc(w)
    BY <2>4, WriteAllocMaps DEF Bytes!shown, Request
  <2>5. CASE WriteNoSpace(w)
    BY <2>5, DropMaps DEF WriteNoSpace, Bytes!Bytes_Next
  <2>6. CASE WriteEnd(w)
    BY <2>2, <2>6, WriteEndMaps DEF Bytes!Bytes_Next, Request
  <2>7. QED
    BY <2>1, <2>3, <2>4, <2>5, <2>6 DEF WriteStep
<1>4. CASE Death
  BY <1>4, DropMaps DEF Death, Bytes!Bytes_Next
<1>5. CASE UNCHANGED vars
  <2>1. UNCHANGED <<inode, block, writing>>
    BY <1>5 DEF vars
  <2>2. UNCHANGED [f \in Files |-> inode[f].size]
    BY <2>1
  <2>3. UNCHANGED [f \in Files |-> [p \in Places |-> ByteAt(inode[f].direct, p)]]
    BY <2>1 DEF ByteAt
  <2>4. QED
    BY <2>1, <2>2, <2>3 DEF Bytes!shown
<1>6. QED
  BY <1>1, <1>2, <1>3, <1>4, <1>5 DEF Next

\* The driver's files are those of ByteFile: a write reaches its own file and
\* range and is there when its loop ends by itself, a truncation takes nothing
\* before the new end, and no byte of a file ever shows in another, through
\* full disks, deaths and the reuse of blocks.
THEOREM Refinement == Spec => ImplementsByteFile
  BY InitMaps, NextMaps, Invariance, PTL DEF Spec, ImplementsByteFile, Bytes!Bytes_Spec

-----------------------------------------------------------------------------
(* What mfs_read returns.  Its loop is a recursive function of the number   *)
(* of bytes it has; the proof goes from the last byte back, by the largest  *)
(* number at which a claim would fail.                                      *)

ReadBlock(start, done) == (start + done) \div BlockSize
ReadCell(start, done)  == (start + done) % BlockSize

\* The bytes the next step of the loop copies.
ReadSize(start, asked, done) ==
    IF asked - done > BlockSize - ReadCell(start, done)
    THEN BlockSize - ReadCell(start, done) ELSE asked - done

\* What they are.
ReadBytes(ino, start, asked, done) ==
    [i \in 1 .. ReadSize(start, asked, done) |->
        block[ino.direct[ReadBlock(start, done)]][ReadCell(start, done) + i - 1]]

ReadStops(ino, start, asked, done) ==
    \/ done = asked \/ ReadBlock(start, done) >= DirectBlocks
    \/ ino.direct[ReadBlock(start, done)] = NoBlock

\* The loop from done on, where g is the loop from there on.
ReadOn(ino, start, asked, g, done) ==
    IF ReadStops(ino, start, asked, done) THEN <<>>
    ELSE ReadBytes(ino, start, asked, done) \o g[done + ReadSize(start, asked, done)]

ReadLoop(ino, start, asked) ==
    LET rest[done \in 0 .. asked] ==
          LET k == (start + done) \div BlockSize
              o == (start + done) % BlockSize
              n == IF asked - done > BlockSize - o THEN BlockSize - o ELSE asked - done
          IN  IF done = asked \/ k >= DirectBlocks THEN <<>>
              ELSE IF ino.direct[k] = NoBlock THEN <<>>
              ELSE [i \in 1 .. n |-> block[ino.direct[k]][o + i - 1]] \o rest[done + n]
    IN  rest

\* g is the loop over the last m bytes asked for.
LastBytes(ino, start, asked, g, m) ==
    g = [done \in asked - m .. asked |-> ReadOn(ino, start, asked, g, done)]

\* A set of numbers that is not empty has a least one.
LEMMA LeastNat ==
    ASSUME NEW K \in SUBSET Nat, K # {}
    PROVE  \E k \in K : \A j \in K : k <= j
<1> DEFINE R == OpToRel(<, Nat)
<1>1. IsWellFoundedOn(R, Nat)
  BY NatLessThanWellFounded
<1>2. \A j, k \in K : j < k => <<j, k>> \in R
  BY DEF OpToRel
<1> HIDE DEF R
<1>3. PICK k \in K : \A j \in K : ~(<<j, k>> \in R)
  BY <1>1, WFMin
<1>4. ASSUME NEW j \in K PROVE k <= j
  <2>1. ~(j < k)
    BY <1>2, <1>3
  <2>2. QED
    BY <2>1
<1>5. QED
  BY <1>4

\* The loop copies at least a byte, and no more than was asked for.
LEMMA ReadSizeType ==
    ASSUME NEW start \in Nat, NEW asked \in Nat, NEW done \in 0 .. asked, done # asked
    PROVE  /\ ReadSize(start, asked, done) \in Nat /\ ReadSize(start, asked, done) > 0
           /\ done + ReadSize(start, asked, done) \in 0 .. asked
           /\ ReadCell(start, done) \in Nat
           /\ ReadCell(start, done) + ReadSize(start, asked, done) <= BlockSize
           /\ ReadBlock(start, done) \in Nat
           /\ start + done = BlockSize * ReadBlock(start, done) + ReadCell(start, done)
<1>1. start + done \in Nat
  OBVIOUS
<1>2. /\ ReadBlock(start, done) \in Nat /\ ReadCell(start, done) \in 0 .. BlockSize - 1
      /\ start + done = BlockSize * ReadBlock(start, done) + ReadCell(start, done)
  BY <1>1, Division DEF ReadBlock, ReadCell, Cells
<1> DEFINE o == ReadCell(start, done)
<1>3. BlockSize \in Nat /\ o \in Nat /\ o < BlockSize
  BY <1>2, FileAssumption
<1> HIDE DEF o
<1>4. ReadSize(start, asked, done) = IF asked - done > BlockSize - o THEN BlockSize - o ELSE asked - done
  BY DEF ReadSize, o
<1>5. /\ ReadSize(start, asked, done) \in Nat /\ ReadSize(start, asked, done) > 0
      /\ done + ReadSize(start, asked, done) \in 0 .. asked
      /\ o + ReadSize(start, asked, done) <= BlockSize
  BY <1>3, <1>4
<1>6. QED
  BY <1>2, <1>3, <1>5 DEF o

\* The recursion has a solution from every place on.
LEMMA LastBytesExist ==
    ASSUME NEW ino, NEW start \in Nat, NEW asked \in Nat, NEW n \in 0 .. asked
    PROVE  \E g : LastBytes(ino, start, asked, g, n)
<1> DEFINE K == {m \in 0 .. asked : ~\E g : LastBytes(ino, start, asked, g, m)}
<1> SUFFICES ASSUME K # {} PROVE FALSE
  OBVIOUS
<1>1. PICK m \in K : \A j \in K : m <= j
  <2>1. K \in SUBSET Nat
    OBVIOUS
  <2> HIDE DEF K
  <2>2. QED
    BY <2>1, LeastNat
<1>2. m \in 0 .. asked /\ ~\E g : LastBytes(ino, start, asked, g, m)
  OBVIOUS
<1>3. CASE m = 0
  <2> DEFINE g == [done \in asked .. asked |-> <<>>]
  <2>1. \A done \in asked .. asked : ReadOn(ino, start, asked, g, done) = <<>>
    BY DEF ReadOn, ReadStops
  <2>2. g = [done \in asked .. asked |-> ReadOn(ino, start, asked, g, done)]
    BY <2>1
  <2> HIDE DEF g
  <2>3. LastBytes(ino, start, asked, g, 0)
    BY <2>2 DEF LastBytes
  <2>4. QED
    BY <1>2, <1>3, <2>3
<1>4. CASE m # 0
  <2>1. m - 1 \in 0 .. asked /\ m - 1 \notin K
    BY <1>1, <1>2, <1>4
  <2>2. PICK g : LastBytes(ino, start, asked, g, m - 1)
    BY <2>1
  <2> DEFINE h == [done \in asked - m .. asked |->
                     IF done = asked - m THEN ReadOn(ino, start, asked, g, done) ELSE g[done]]
  <2>3. ASSUME NEW done \in asked - m .. asked
        PROVE  h[done] = ReadOn(ino, start, asked, h, done)
    <3> DEFINE next == done + ReadSize(start, asked, done)
    <3>1. h[done] = ReadOn(ino, start, asked, g, done)
      <4>1. CASE done = asked - m
        BY <4>1
      <4>2. CASE done # asked - m
        <5>1. done \in asked - (m - 1) .. asked
          BY <1>2, <4>2
        <5>2. h[done] = g[done]
          BY <4>2
        <5>3. QED
          BY <2>2, <5>1, <5>2 DEF LastBytes
      <4>3. QED
        BY <4>1, <4>2
    <3>2. ASSUME ~ReadStops(ino, start, asked, done) PROVE h[next] = g[next]
      <4>1. done \in 0 .. asked /\ done # asked
        BY <1>2, <3>2 DEF ReadStops
      <4>2. next \in 0 .. asked /\ next > done
        BY <4>1, ReadSizeType
      <4> HIDE DEF next
      <4>3. next \in asked - m .. asked /\ next # asked - m
        BY <1>2, <4>1, <4>2
      <4>4. QED
        BY <4>3
    <3> HIDE DEF h
    <3>3. QED
      BY <3>1, <3>2 DEF ReadOn
  <2>4. h = [done \in asked - m .. asked |-> h[done]]
    OBVIOUS
  <2> HIDE DEF h
  <2>5. LastBytes(ino, start, asked, h, m)
    BY <2>3, <2>4 DEF LastBytes
  <2>6. QED
    BY <1>2, <2>5
<1>5. QED
  BY <1>3, <1>4

\* The loop of mfs_read is that solution.
LEMMA ReadIs ==
    ASSUME NEW f, NEW offset, NEW size
    PROVE  LET start == offset % Word
               asked == IF offset + size > inode[f].size THEN inode[f].size - start ELSE size
           IN  Read(f, offset, size) = IF start >= inode[f].size THEN <<>>
                                       ELSE ReadLoop(inode[f], start, asked)[0]
  BY DEF Read, ReadLoop

LEMMA ReadLoopIs ==
    ASSUME NEW ino, NEW start \in Nat, NEW asked \in Nat
    PROVE  \A done \in 0 .. asked :
              ReadLoop(ino, start, asked)[done] =
                  ReadOn(ino, start, asked, ReadLoop(ino, start, asked), done)
<1>1. ReadLoop(ino, start, asked) = CHOOSE g : g = [done \in 0 .. asked |-> ReadOn(ino, start, asked, g, done)]
  BY DEF ReadLoop, ReadOn, ReadStops, ReadBytes, ReadSize, ReadBlock, ReadCell
<1>2. \E g : g = [done \in 0 .. asked |-> ReadOn(ino, start, asked, g, done)]
  <2>1. asked \in 0 .. asked /\ asked - asked = 0
    OBVIOUS
  <2>2. PICK g : LastBytes(ino, start, asked, g, asked)
    BY <2>1, LastBytesExist
  <2>3. QED
    BY <2>1, <2>2 DEF LastBytes
<1> DEFINE r == ReadLoop(ino, start, asked)
<1>3. r = [done \in 0 .. asked |-> ReadOn(ino, start, asked, r, done)]
  BY <1>1, <1>2
<1> HIDE DEF r
<1>4. \A done \in 0 .. asked : r[done] = ReadOn(ino, start, asked, r, done)
  BY <1>3
<1>5. QED
  BY <1>4 DEF r

\* s is what the file with this inode has from the place start + done on, up to
\* the bytes asked for, the last pointer or the first hole.
Prefix(ino, start, asked, done, s) ==
    /\ s \in Seq(Values \cup {Zero})
    /\ \A i \in 1 .. Len(s) : s[i] = ByteAt(ino.direct, start + done + i - 1)
    /\ done + Len(s) <= asked
    /\ done + Len(s) < asked =>
          \/ start + done + Len(s) \notin Places
          \/ ino.direct[(start + done + Len(s)) \div BlockSize] = NoBlock

\* The bytes of a block are where the read looks for them.
LEMMA InBlock ==
    ASSUME NEW k \in Nat, NEW o \in Nat, NEW i \in Nat, i > 0, o + i <= BlockSize
    PROVE  /\ (BlockSize * k + o + i - 1) \div BlockSize = k
           /\ (BlockSize * k + o + i - 1) % BlockSize = o + i - 1
<1>1. BlockSize \in Nat /\ BlockSize * k \in Nat
  BY FileAssumption
<1> DEFINE m == BlockSize * k
           p == m + o + i - 1
<1>2. m \in Nat
  BY <1>1
<1> HIDE DEF m
<1>3. p \in Nat /\ m <= p /\ p < m + BlockSize
  BY <1>1, <1>2
<1> HIDE DEF p
<1>4. p \div BlockSize = k
  BY <1>3, DivisionUnique DEF m
<1>5. p = m + (p % BlockSize) /\ p % BlockSize \in Nat
  BY <1>1, <1>3, <1>4, Division DEF m, Cells
<1>6. p % BlockSize = o + i - 1
  BY <1>2, <1>5 DEF p
<1>7. QED
  BY <1>4, <1>6 DEF p, m

\* Where the loop stops there is no place, or a hole.
LEMMA StopsAtEnd ==
    ASSUME NEW ino, NEW start \in Nat, NEW asked \in Nat, NEW done \in 0 .. asked,
           ReadStops(ino, start, asked, done)
    PROVE  Prefix(ino, start, asked, done, <<>>)
<1>1. <<>> \in Seq(Values \cup {Zero}) /\ Len(<<>>) = 0
  BY EmptySeq
<1>2. ASSUME done < asked
      PROVE  \/ start + done \notin Places
             \/ ino.direct[(start + done) \div BlockSize] = NoBlock
  <2>1. CASE ReadBlock(start, done) >= DirectBlocks
    <3>1. ReadBlock(start, done) \notin Idx
      BY <2>1, FileAssumption DEF Idx
    <3>2. start + done \notin Places
      BY <3>1, PlaceType DEF ReadBlock
    <3>3. QED
      BY <3>2
  <2>2. CASE ino.direct[ReadBlock(start, done)] = NoBlock
    BY <2>2 DEF ReadBlock
  <2>3. QED
    BY <1>2, <2>1, <2>2 DEF ReadStops
<1>3. start + done + 0 = start + done /\ done + 0 = done
  OBVIOUS
<1>4. QED
  BY <1>1, <1>2, <1>3 DEF Prefix

\* What a step of the loop copies is what the file has there.
LEMMA StepBytes ==
    ASSUME TypeOK, NEW ino \in Inode, NEW start \in Nat, NEW asked \in Nat,
           NEW done \in 0 .. asked, ~ReadStops(ino, start, asked, done)
    PROVE  LET b == ReadBytes(ino, start, asked, done) IN
           /\ b \in Seq(Values \cup {Zero})
           /\ Len(b) = ReadSize(start, asked, done)
           /\ \A i \in 1 .. Len(b) : b[i] = ByteAt(ino.direct, start + done + i - 1)
<1> DEFINE n == ReadSize(start, asked, done)
           o == ReadCell(start, done)
           k == ReadBlock(start, done)
           d == ino.direct[k]
           b == ReadBytes(ino, start, asked, done)
<1>1. done # asked /\ ~(k >= DirectBlocks) /\ d # NoBlock
  BY DEF ReadStops
<1>2. /\ n \in Nat /\ o \in Nat /\ o + n <= BlockSize /\ k \in Nat
      /\ start + done = BlockSize * k + o
  BY <1>1, ReadSizeType
<1>3. d \in DataBlocks
  <2>1. k \in Idx
    BY <1>1, <1>2, FileAssumption DEF Idx
  <2>2. QED
    BY <1>1, <2>1 DEF Inode
<1>4. b = [i \in 1 .. n |-> block[d][o + i - 1]]
  BY DEF ReadBytes
<1>5. BlockSize \in Nat /\ BlockSize * k \in Nat
  BY <1>2, FileAssumption
<1>6. block[d] \in [Cells -> Values \cup {Zero}]
  BY <1>3 DEF TypeOK
<1>7. ASSUME NEW i \in 1 .. n
      PROVE  /\ block[d][o + i - 1] \in Values \cup {Zero}
             /\ block[d][o + i - 1] = ByteAt(ino.direct, start + done + i - 1)
  <2> HIDE DEF n, o, k, d, b
  <2>1. i \in Nat /\ i > 0 /\ o + i <= BlockSize
    BY <1>2, <1>5
  <2>2. o + i - 1 \in Cells
    BY <1>2, <1>5, <2>1 DEF Cells
  <2>3. /\ (BlockSize * k + o + i - 1) \div BlockSize = k
        /\ (BlockSize * k + o + i - 1) % BlockSize = o + i - 1
    BY <1>2, <2>1, InBlock
  <2>4. /\ (start + done + i - 1) \div BlockSize = k
        /\ (start + done + i - 1) % BlockSize = o + i - 1
    BY <1>2, <2>3
  <2>5. ino.direct[k] = d
    BY DEF d
  <2>6. ByteAt(ino.direct, start + done + i - 1) = block[d][o + i - 1]
    BY <1>1, <2>4, <2>5 DEF ByteAt
  <2>7. QED
    BY <1>6, <2>2, <2>6
<1> HIDE DEF n, o, k, d, b
<1>8. b \in [1 .. n -> Values \cup {Zero}]
  BY <1>4, <1>7
<1>9. b \in Seq(Values \cup {Zero}) /\ Len(b) = n
  BY <1>2, <1>8
<1>10. \A i \in 1 .. Len(b) : b[i] = ByteAt(ino.direct, start + done + i - 1)
  BY <1>4, <1>7, <1>9
<1>11. QED
  BY <1>9, <1>10 DEF b, n

\* A step's bytes before a prefix from there on are a prefix.
LEMMA Longer ==
    ASSUME NEW ino, NEW start \in Nat, NEW asked \in Nat, NEW done \in Nat, NEW n \in Nat,
           NEW b \in Seq(Values \cup {Zero}), Len(b) = n,
           \A i \in 1 .. n : b[i] = ByteAt(ino.direct, start + done + i - 1),
           NEW t, Prefix(ino, start, asked, done + n, t)
    PROVE  Prefix(ino, start, asked, done, b \o t)
<1> DEFINE V == Values \cup {Zero}
           s == b \o t
<1>1. t \in Seq(V) /\ Len(t) \in Nat
  BY LenProperties DEF Prefix
<1>2. /\ s \in Seq(V) /\ Len(s) = n + Len(t)
      /\ \A i \in 1 .. n + Len(t) : s[i] = IF i <= n THEN b[i] ELSE t[i - n]
  BY <1>1, ConcatProperties
<1> HIDE DEF s
<1>3. ASSUME NEW i \in 1 .. Len(s) PROVE s[i] = ByteAt(ino.direct, start + done + i - 1)
  <2>1. CASE i <= n
    <3>1. i \in 1 .. n
      BY <2>1
    <3>2. QED
      BY <1>1, <1>2, <2>1, <3>1
  <2>2. CASE ~(i <= n)
    <3>1. i - n \in 1 .. Len(t) /\ s[i] = t[i - n]
      BY <1>1, <1>2, <2>2
    <3>2. t[i - n] = ByteAt(ino.direct, start + (done + n) + (i - n) - 1)
      BY <3>1 DEF Prefix
    <3>3. start + (done + n) + (i - n) - 1 = start + done + i - 1
      OBVIOUS
    <3>4. QED
      BY <3>1, <3>2, <3>3
  <2>3. QED
    BY <2>1, <2>2
<1>4. done + Len(s) = done + n + Len(t) /\ start + done + Len(s) = start + (done + n) + Len(t)
  BY <1>1, <1>2
<1>5. /\ done + Len(s) <= asked
      /\ done + Len(s) < asked =>
            \/ start + done + Len(s) \notin Places
            \/ ino.direct[(start + done + Len(s)) \div BlockSize] = NoBlock
  BY <1>4 DEF Prefix
<1>6. QED
  BY <1>2, <1>3, <1>5 DEF Prefix, s

\* From every place on, the loop returns what the file has there.
LEMMA LoopPrefix ==
    ASSUME TypeOK, NEW ino \in Inode, NEW start \in Nat, NEW asked \in Nat
    PROVE  Prefix(ino, start, asked, 0, ReadLoop(ino, start, asked)[0])
<1> DEFINE g == ReadLoop(ino, start, asked)
           Holds(done) == Prefix(ino, start, asked, done, g[done])
           K == {m \in 0 .. asked : ~Holds(asked - m)}
<1>1. \A done \in 0 .. asked : g[done] = ReadOn(ino, start, asked, g, done)
  BY ReadLoopIs
<1> HIDE DEF g
<1>2. ASSUME NEW done \in 0 .. asked,
             \A next \in 0 .. asked : next > done => Holds(next)
      PROVE  Holds(done)
  <2>1. CASE ReadStops(ino, start, asked, done)
    <3>1. g[done] = <<>>
      BY <1>1, <2>1 DEF ReadOn
    <3>2. QED
      BY <2>1, <3>1, StopsAtEnd
  <2>2. CASE ~ReadStops(ino, start, asked, done)
    <3> DEFINE n == ReadSize(start, asked, done)
               b == ReadBytes(ino, start, asked, done)
    <3>1. g[done] = b \o g[done + n]
      BY <1>1, <2>2 DEF ReadOn
    <3>2. n \in Nat /\ n > 0 /\ done + n \in 0 .. asked
      BY <2>2, ReadSizeType DEF ReadStops
    <3>3. /\ b \in Seq(Values \cup {Zero}) /\ Len(b) = n
          /\ \A i \in 1 .. Len(b) : b[i] = ByteAt(ino.direct, start + done + i - 1)
      BY <2>2, StepBytes
    <3> HIDE DEF n, b
    <3>4. Prefix(ino, start, asked, done + n, g[done + n])
      BY <1>2, <3>2
    <3>5. \A i \in 1 .. n : b[i] = ByteAt(ino.direct, start + done + i - 1)
      BY <3>3
    <3>6. done \in Nat
      OBVIOUS
    <3>7. Prefix(ino, start, asked, done, b \o g[done + n])
      BY <3>2, <3>3, <3>4, <3>5, <3>6, Longer
    <3>8. QED
      BY <3>1, <3>7
  <2>3. QED
    BY <2>1, <2>2
<1> HIDE DEF Holds
<1>3. K = {}
  <2> SUFFICES ASSUME K # {} PROVE FALSE
    OBVIOUS
  <2>1. PICK m \in K : \A j \in K : m <= j
    <3>1. K \in SUBSET Nat
      OBVIOUS
    <3> HIDE DEF K
    <3>2. QED
      BY <3>1, LeastNat
  <2>2. m \in 0 .. asked /\ ~Holds(asked - m)
    OBVIOUS
  <2>3. ASSUME NEW next \in 0 .. asked, next > asked - m PROVE Holds(next)
    <3>1. asked - next \in 0 .. asked /\ ~(m <= asked - next)
      BY <2>2, <2>3
    <3>2. asked - next \notin K
      BY <2>1, <3>1
    <3>3. Holds(asked - (asked - next))
      BY <3>1, <3>2
    <3>4. asked - (asked - next) = next
      OBVIOUS
    <3>5. QED
      BY <3>3, <3>4
  <2>4. asked - m \in 0 .. asked
    BY <2>2
  <2>5. QED
    BY <1>2, <2>2, <2>3, <2>4
<1>4. Holds(0)
  <2>1. asked \in 0 .. asked /\ asked - asked = 0
    OBVIOUS
  <2>2. QED
    BY <1>3, <2>1
<1>5. QED
  BY <1>4 DEF Holds, g

\* An offset within the file's pointers is not cut.
LEMMA OffsetFits ==
    ASSUME DirectBlocks * BlockSize < Word,
           NEW offset \in Places \cup {DirectBlocks * BlockSize}
    PROVE  offset \in Nat /\ offset % Word = offset
<1>1. DirectBlocks * BlockSize \in Nat /\ Word \in Nat /\ Word > 0
  BY FileAssumption
<1>2. offset \in Nat /\ offset < Word
  BY <1>1 DEF Places
<1>3. QED
  BY <1>1, <1>2

LEMMA ReadsArePrefixes ==
    ASSUME TypeOK, DirectBlocks * BlockSize < Word
    PROVE  ReadsPrefix
<1> SUFFICES ASSUME NEW f \in Files,
                    NEW offset \in Places \cup {DirectBlocks * BlockSize},
                    NEW n \in Places \cup {DirectBlocks * BlockSize}
             PROVE  LET got  == Read(f, offset, n)
                        end  == IF offset + n < inode[f].size THEN offset + n ELSE inode[f].size
                        next == offset + Len(got)
                    IN  /\ \A i \in DOMAIN got : got[i] = ByteAt(inode[f].direct, offset + i - 1)
                        /\ next < end => \/ next \notin Places
                                         \/ inode[f].direct[next \div BlockSize] = NoBlock
                        /\ got # <<>> => next <= end
  BY DEF ReadsPrefix
<1> DEFINE got   == Read(f, offset, n)
           ino   == inode[f]
           size  == ino.size
           asked == IF offset + n > size THEN size - offset ELSE n
           end   == IF offset + n < size THEN offset + n ELSE size
           next  == offset + Len(got)
<1>1. ino \in Inode
  BY DEF TypeOK
<1>2. size \in Nat
  BY <1>1 DEF Inode
<1>3. offset \in Nat /\ n \in Nat /\ offset % Word = offset
  BY OffsetFits
<1>4. got = IF offset >= size THEN <<>> ELSE ReadLoop(ino, offset, asked)[0]
  BY <1>3, ReadIs
<1> HIDE DEF got, ino, size
<1>5. CASE offset >= size
  <2>1. got = <<>> /\ Len(got) = 0 /\ DOMAIN got = {}
    BY <1>4, <1>5
  <2>2. ~(next < end)
    BY <1>2, <1>3, <1>5, <2>1
  <2>3. QED
    BY <2>1, <2>2 DEF got, ino, size
<1>6. CASE offset < size
  <2>1. asked \in Nat /\ offset + asked <= end /\ end <= offset + asked
    BY <1>2, <1>3, <1>6
  <2>2. got = ReadLoop(ino, offset, asked)[0]
    BY <1>2, <1>3, <1>4, <1>6
  <2> HIDE DEF asked, end
  <2>3. Prefix(ino, offset, asked, 0, got)
    BY <1>1, <1>3, <2>1, <2>2, LoopPrefix
  <2>4. /\ got \in Seq(Values \cup {Zero}) /\ Len(got) \in Nat
        /\ DOMAIN got = 1 .. Len(got)
    BY <2>3, LenProperties DEF Prefix
  <2>5. ASSUME NEW i \in DOMAIN got PROVE got[i] = ByteAt(ino.direct, offset + i - 1)
    <3>1. i \in 1 .. Len(got)
      BY <2>4
    <3>2. got[i] = ByteAt(ino.direct, offset + 0 + i - 1)
      BY <2>3, <3>1 DEF Prefix
    <3>3. QED
      BY <1>3, <3>2
  <2>6. /\ 0 + Len(got) <= asked
        /\ 0 + Len(got) < asked =>
              \/ offset + 0 + Len(got) \notin Places
              \/ ino.direct[(offset + 0 + Len(got)) \div BlockSize] = NoBlock
    BY <2>3 DEF Prefix
  <2>7. offset + 0 + Len(got) = next /\ 0 + Len(got) = Len(got)
    BY <1>3, <2>4
  <2>8. end = offset + asked /\ (next < end => Len(got) < asked) /\ next <= end
    <3>1. end \in Nat
      BY <1>2, <1>3 DEF end
    <3>2. QED
      BY <1>3, <2>1, <2>4, <2>6, <2>7, <3>1
  <2>9. next < end => next \notin Places \/ ino.direct[next \div BlockSize] = NoBlock
    BY <2>6, <2>7, <2>8
  <2>10. QED
    BY <2>5, <2>8, <2>9 DEF got, ino, size, end
<1>7. QED
  BY <1>2, <1>3, <1>5, <1>6

\* Reads lose, repeat and misplace nothing: they return the bytes of the file
\* from their offset up to the end, the size asked for, the last pointer or the
\* first hole.  The offsets of a file's places fit into the word that mfs_read
\* cuts offsets to, as 10 blocks of 4096 bytes do into 2^32.
THEOREM ReadsReturnPrefix ==
    DirectBlocks * BlockSize < Word /\ Spec => []ReadsPrefix
<1>1. CASE DirectBlocks * BlockSize < Word
  <2>1. TypeOK => ReadsPrefix
    BY <1>1, ReadsArePrefixes
  <2>2. QED
    BY <2>1, TypeCorrect, PTL
<1>2. CASE ~(DirectBlocks * BlockSize < Word)
  BY <1>2, PTL
<1>3. QED
  BY <1>1, <1>2
=============================================================================
