------------------------------ MODULE FileData ------------------------------
(***************************************************************************)
(* Sizes, offsets and bytes of files in src/src/minifs_fuse.c: mfs_read,   *)
(* mfs_write and mfs_truncate, callbacks served one at a time, with a      *)
(* death of the process between two blocks of a write.                     *)
(*                                                                         *)
(* The files exist and have no directory here; a block that one of them    *)
(* gives up by a truncation goes to the next that asks, as it would after  *)
(* an unlink.  A write puts one value into all bytes of its range.  What a *)
(* death inside a truncation leaves is in module MiniFSCrash.              *)
(*                                                                         *)
(* Sizes, and offsets within the code, are uint32_t: numbers modulo Word.  *)
(* The kernel hands over an off_t, which may be larger.                    *)
(***************************************************************************)
EXTENDS Integers, Sequences

CONSTANTS
    Files,
    Values,         \* what writes write
    BlockSize,      \* MINIFS_BLOCK_SIZE
    DirectBlocks,   \* MINIFS_DIRECT_BLOCKS
    DataBlocks,     \* data_start .. total_blocks - 1
    Word,           \* 2^32
    Writes,         \* bound: the [offset, size] that writes are issued for
    Sizes           \* bound: the sizes truncate is called with

ASSUME FileAssumption ==
    /\ BlockSize \in Nat \ {0}
    /\ DirectBlocks \in Nat \ {0}
    /\ DataBlocks \subseteq Nat \ {0}
    /\ Word \in Nat \ {0}
    /\ Values \subseteq Nat \ {0}
    /\ Writes \subseteq [offset : Nat, size : Nat]
    /\ Sizes \subseteq Nat

\* Bound: no request passes the range of uint32_t.  One that does is written
\* and recorded at its place modulo Word.
ASSUME NoWrap ==
    /\ \A r \in Writes : r.offset + r.size < Word
    /\ \A s \in Sizes : s < Word

Idx     == 0 .. DirectBlocks - 1
Cells   == 0 .. BlockSize - 1
NoBlock == 0
Zero    == 0
Places  == 0 .. DirectBlocks * BlockSize - 1

Inode     == [size : Nat, direct : [Idx -> DataBlocks \cup {NoBlock}]]
ZeroBlock == [o \in Cells |-> Zero]

\* The locals of mfs_write: arguments, bytes_written (done) and inode.
WriteLoop == [file : Files, value : Values, offset : Nat, size : Nat, done : Nat, inode : Inode]

VARIABLES
    bitmap,     \* marked data blocks
    inode,      \* the inode table
    block,      \* the bytes of the data blocks
    writing     \* the mfs_write under way: a set of at most one

vars == <<bitmap, inode, block, writing>>

Init ==
    /\ bitmap = {}
    /\ inode = [f \in Files |-> [size |-> 0, direct |-> [k \in Idx |-> NoBlock]]]
    /\ block = [b \in DataBlocks |-> ZeroBlock]
    /\ writing = {}

-----------------------------------------------------------------------------
(* mfs_write *)

FirstFit(S) == {x \in S : \A y \in S : x <= y}

FileOffset(w)  == (w.offset + w.done) % Word
BlockIndex(w)  == FileOffset(w) \div BlockSize
BlockOffset(w) == FileOffset(w) % BlockSize

\* Mutant: the last block of a write is written to its end.
ToWrite_Unclamped(w) == BlockSize - BlockOffset(w)

ToWrite(w) ==
    LET can_write == BlockSize - BlockOffset(w)
        left      == w.size - w.done
    IN  IF left > can_write THEN can_write ELSE left

InLoop(w) == w.done < w.size /\ BlockIndex(w) \in Idx

\* memcpy into the block that was read
Filled(content, w) ==
    [o \in Cells |-> IF BlockOffset(w) <= o /\ o < BlockOffset(w) + ToWrite(w)
                     THEN w.value ELSE content[o]]

\* Mutant: bytes_written does not move.
Advanced_Stuck(w) == w

Advanced(w) == [w EXCEPT !.done = @ + ToWrite(w)]

WriteBegin(f, r, v) ==
    /\ writing = {}
    /\ writing' = {[file |-> f, value |-> v, offset |-> r.offset, size |-> r.size,
                    done |-> 0, inode |-> inode[f]]}
    /\ UNCHANGED <<bitmap, inode, block>>

WriteInPlace(w) ==
    LET b == w.inode.direct[BlockIndex(w)] IN
    /\ InLoop(w) /\ b # NoBlock
    /\ block' = [block EXCEPT ![b] = Filled(@, w)]
    /\ writing' = {Advanced(w)}
    /\ UNCHANGED <<bitmap, inode>>

\* Mutant: a block is handed out with what it held.
WriteAlloc_NotZeroed(w) ==
    /\ InLoop(w) /\ w.inode.direct[BlockIndex(w)] = NoBlock
    /\ \E b \in FirstFit(DataBlocks \ bitmap) :
          /\ bitmap' = bitmap \cup {b}
          /\ block' = [block EXCEPT ![b] = Filled(@, w)]
          /\ writing' = {[Advanced(w) EXCEPT !.inode.direct[BlockIndex(w)] = b]}
    /\ UNCHANGED inode

\* minifs_block_alloc zeroes the block.
WriteAlloc(w) ==
    /\ InLoop(w) /\ w.inode.direct[BlockIndex(w)] = NoBlock
    /\ \E b \in FirstFit(DataBlocks \ bitmap) :
          /\ bitmap' = bitmap \cup {b}
          /\ block' = [block EXCEPT ![b] = Filled(ZeroBlock, w)]
          /\ writing' = {[Advanced(w) EXCEPT !.inode.direct[BlockIndex(w)] = b]}
    /\ UNCHANGED inode

\* Returns the bytes written so far, or -ENOSPC, and leaves the inode: bytes
\* that went into new blocks are reported and lost.
WriteNoSpace(w) ==
    /\ InLoop(w) /\ w.inode.direct[BlockIndex(w)] = NoBlock
    /\ DataBlocks \subseteq bitmap
    /\ writing' = {}
    /\ UNCHANGED <<bitmap, inode, block>>

\* The whole range is written, or the file has no pointer for the next block.
\* Past the last block nothing may have been written, and size still grows.
WriteEnd(w) ==
    LET new_end == (w.offset + w.done) % Word IN
    /\ ~InLoop(w)
    /\ inode' = [inode EXCEPT ![w.file] =
                    [w.inode EXCEPT !.size = IF new_end > @ THEN new_end ELSE @]]
    /\ writing' = {}
    /\ UNCHANGED <<bitmap, block>>

-----------------------------------------------------------------------------
(* mfs_truncate *)

\* Mutant: the block that starts at the new end is kept.
Dropped_OneLess(ino, s) == {k \in Idx : ino.direct[k] # NoBlock /\ k * BlockSize > s}

Dropped(ino, s) == {k \in Idx : ino.direct[k] # NoBlock /\ k * BlockSize >= s}

\* What is left of the last block past the new end stays in it.
Truncate(f, s) ==
    LET drop == Dropped(inode[f], s) IN
    /\ writing = {}
    /\ bitmap' = bitmap \ {inode[f].direct[k] : k \in drop}
    /\ inode' = [inode EXCEPT ![f] =
                    [size |-> s % Word,
                     direct |-> [k \in Idx |-> IF k \in drop THEN NoBlock ELSE @.direct[k]]]]
    /\ UNCHANGED <<block, writing>>

-----------------------------------------------------------------------------
(* mfs_read: the bytes it returns *)

\* Mutant: a read that goes on in the next block starts where the first did.
Read_OffsetKept(f, offset, size) ==
    LET ino   == inode[f]
        start == offset % Word
        asked == IF offset + size > ino.size THEN ino.size - start ELSE size
        rest[done \in 0 .. asked] ==
            LET k == (start + done) \div BlockSize
                o == start % BlockSize
                n == IF asked - done > BlockSize - o THEN BlockSize - o ELSE asked - done
            IN  IF done = asked \/ k >= DirectBlocks THEN <<>>
                ELSE IF ino.direct[k] = NoBlock THEN <<>>
                ELSE [i \in 1 .. n |-> block[ino.direct[k]][o + i - 1]] \o rest[done + n]
    IN  IF start >= ino.size THEN <<>> ELSE rest[0]

Read(f, offset, size) ==
    LET ino   == inode[f]
        start == offset % Word
        asked == IF offset + size > ino.size THEN ino.size - start ELSE size
        rest[done \in 0 .. asked] ==
            LET k == (start + done) \div BlockSize
                o == (start + done) % BlockSize
                n == IF asked - done > BlockSize - o THEN BlockSize - o ELSE asked - done
            IN  IF done = asked \/ k >= DirectBlocks THEN <<>>
                ELSE IF ino.direct[k] = NoBlock THEN <<>>
                ELSE [i \in 1 .. n |-> block[ino.direct[k]][o + i - 1]] \o rest[done + n]
    IN  IF start >= ino.size THEN <<>> ELSE rest[0]

-----------------------------------------------------------------------------

\* The process dies in the middle of a write: the copy of the inode is gone.
Death ==
    /\ writing # {}
    /\ writing' = {}
    /\ UNCHANGED <<bitmap, inode, block>>

WriteStep(w) == WriteInPlace(w) \/ WriteAlloc(w) \/ WriteNoSpace(w) \/ WriteEnd(w)

Next ==
    \/ \E f \in Files :
          \/ \E r \in Writes, v \in Values : WriteBegin(f, r, v)
          \/ \E s \in Sizes : Truncate(f, s)
    \/ \E w \in writing : WriteStep(w)
    \/ Death

Spec == Init /\ [][Next]_vars

\* A callback that has begun goes on: nothing it does waits for anybody.
Fairness == WF_vars(\E w \in writing : WriteStep(w))

FairSpec == Spec /\ Fairness

-----------------------------------------------------------------------------
(* Properties *)

TypeOK ==
    /\ bitmap \subseteq DataBlocks
    /\ inode \in [Files -> Inode]
    /\ block \in [DataBlocks -> [Cells -> Values \cup {Zero}]]
    /\ writing \subseteq WriteLoop
    /\ \A w \in writing : w.done <= w.size /\ writing = {w}

\* A file holds no block past its end: what a truncation cuts off is free for
\* others, and a write that fails half-way gives the file nothing.
NoBlockPastEnd ==
    \A f \in Files : \A k \in Idx :
        inode[f].direct[k] # NoBlock => k * BlockSize < inode[f].size

\* What is at place p of a file with these pointers.
ByteAt(direct, p) ==
    LET b == direct[p \div BlockSize] IN
    IF b = NoBlock THEN Zero ELSE block[b][p % BlockSize]

\* A read returns the bytes of the file from its offset up to its end, the
\* size asked for, the last pointer or the first hole, whichever comes first:
\* the loop over blocks loses, repeats and misplaces nothing.
ReadsPrefix ==
    \A f \in Files : \A offset, n \in Places \cup {DirectBlocks * BlockSize} :
        LET got    == Read(f, offset, n)
            end    == IF offset + n < inode[f].size THEN offset + n ELSE inode[f].size
            next   == offset + Len(got)
        IN  /\ \A i \in DOMAIN got : got[i] = ByteAt(inode[f].direct, offset + i - 1)
            /\ next < end => \/ next \notin Places
                             \/ inode[f].direct[next \div BlockSize] = NoBlock
            /\ got # <<>> => next <= end

\* The files are those of module ByteFile.
Bytes == INSTANCE ByteFile WITH
    size    <- [f \in Files |-> inode[f].size],
    bytes   <- [f \in Files |-> [p \in Places |-> ByteAt(inode[f].direct, p)]],
    request <- {[file |-> w.file, value |-> w.value, offset |-> w.offset, size |-> w.size] :
                   w \in writing}

\* Through full disks, deaths and the reuse of blocks, a write reaches its own
\* file and range and is there when its loop ends by itself, a truncation takes
\* nothing before the new end, and no byte of a file ever shows in another.
ImplementsByteFile == Bytes!Bytes_Spec

\* Every write returns, whatever it finds full or missing.
EveryWriteReturns == writing # {} ~> writing = {}
=============================================================================
