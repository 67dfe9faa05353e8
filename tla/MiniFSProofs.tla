---------------------------- MODULE MiniFSProofs ----------------------------
(***************************************************************************)
(* Proofs about module MiniFS: its state has the right type, every block   *)
(* in use is marked, no block has two owners, each inode counts its own    *)
(* pointers, bits and types agree, and an error changes no directory, for  *)
(* every geometry, every set of names, whether or not the process may be   *)
(* killed and whether or not callbacks come with paths that are cut.       *)
(* While no path is cut (~CutPaths), every entry of a directory names an   *)
(* inode of its own, handles are of files, and entries come and go with    *)
(* their inodes.                                                           *)
(***************************************************************************)
EXTENDS MiniFS, MiniFSDiskProofs

USE DEF Inodes, DataBlocks, Idx, Slots, Root, NoBlock

-----------------------------------------------------------------------------
(* Type correctness *)

\* Truncation yields an inode.
LEMMA ShortenedType ==
    ASSUME NEW ino \in Inode, NEW drop \in SUBSET Idx
    PROVE  Shortened(ino, drop) \in Inode
<1> DEFINE d == [k \in Idx |-> IF k \in drop THEN NoBlock ELSE ino.direct[k]]
           u == IF ino.blocks_used > Cardinality(drop)
                THEN ino.blocks_used - Cardinality(drop) ELSE 0
<1>1. d \in [Idx -> DataBlocks \cup {NoBlock}]
  BY DEF Inode
<1>2. u \in Nat
  BY IdxCardinality DEF Inode
<1>3. Shortened(ino, drop) = [ino EXCEPT !.direct = d, !.blocks_used = u]
  BY DEF Shortened, Inode
<1> HIDE DEF d, u
<1>4. QED
  BY <1>1, <1>2, <1>3 DEF Inode

\* add_entry, whether it finds a slot, grows the directory or fails, yields a
\* table, blocks, a bitmap and counters of the right type.
LEMMA AddEntryType ==
    ASSUME NEW par \in Inodes, NEW cell \in Cell,
           NEW it \in [Inodes -> Inode], NEW bl \in [DataBlocks -> [Slots -> Cell]],
           NEW bb \in SUBSET DataBlocks, NEW s \in Counters,
           AddEntry(par, cell, it, bl, bb, s) \/ AddEntryFails(par, it, bl, bb, s)
    PROVE  /\ inodeTable' \in [Inodes -> Inode]
           /\ block' \in [DataBlocks -> [Slots -> Cell]]
           /\ blockBitmap' \in SUBSET DataBlocks
           /\ sb' \in Counters
<1>1. CASE FillSlot(par, cell, it, bl, bb, s)
  <2>1. PICK p \in FirstPos(FreeSlots(it[par], bl)) :
               block' = [bl EXCEPT ![it[par].direct[p[1]]][p[2]] = cell]
    BY <1>1 DEF FillSlot
  <2>2. p \in Positions(it[par])
    BY <2>1 DEF FirstPos, FreeSlots
  <2>3. p[2] \in Slots /\ it[par].direct[p[1]] \in DataBlocks
    BY <2>2, PositionType
  <2>4. block' \in [DataBlocks -> [Slots -> Cell]]
    BY <2>1, <2>3
  <2>5. inodeTable' = it /\ blockBitmap' = bb /\ sb' = s
    BY <1>1 DEF FillSlot
  <2>6. QED
    BY <2>4, <2>5
<1>2. CASE GrowDir(par, cell, it, bl, bb, s)
  <2>1. PICK k \in FirstFit(Holes(it[par])), b \in FirstFit(DataBlocks \ bb) :
               /\ block' = [bl EXCEPT ![b] = [ZeroBlock EXCEPT ![0] = cell]]
               /\ inodeTable' = [it EXCEPT ![par] = WithBlock(@, k, b)]
               /\ blockBitmap' = bb \cup {b}
               /\ sb' = TakeBlock(s)
    BY <1>2 DEF GrowDir
  <2>2. k \in Idx /\ b \in DataBlocks
    BY <2>1 DEF FirstFit, Holes
  <2>3. [ZeroBlock EXCEPT ![0] = cell] \in [Slots -> Cell]
    BY ContentsType
  <2>4. block' \in [DataBlocks -> [Slots -> Cell]]
    BY <2>1, <2>2, <2>3
  <2>5. inodeTable' \in [Inodes -> Inode]
    BY <2>1, <2>2, WithBlockType
  <2>6. sb' \in Counters
    BY <2>1, CountersType
  <2>7. QED
    BY <2>1, <2>2, <2>4, <2>5, <2>6
<1>3. CASE AddEntryFails(par, it, bl, bb, s)
  BY <1>3 DEF AddEntryFails
<1>4. QED
  BY <1>1, <1>2, <1>3 DEF AddEntry

\* Discarding a file or directory keeps the types.
LEMMA DiscardType ==
    ASSUME TypeOK, NEW par \in Inodes, NEW n, NEW i \in Inodes, Discard(par, n, i)
    PROVE  TypeOK'
<1>1. PICK p \in FirstPos(Matches(inodeTable[par], block, n)) :
             block' = [block EXCEPT ![inodeTable[par].direct[p[1]]][p[2]] = FreeCell]
  BY DEF Discard, DirRemoveEntry
<1>2. p \in Positions(inodeTable[par]) /\ inodeTable[par] \in Inode
  BY <1>1 DEF FirstPos, Matches, TypeOK
<1>3. block' \in [DataBlocks -> [Slots -> Cell]]
  BY <1>1, <1>2, PositionType, ContentsType DEF TypeOK
<1>4. sb' \in Counters /\ diskSb' \in Counters
  <2>1. Pointers(inodeTable[i]) \in SUBSET Idx
    BY DEF Pointers
  <2>2. QED
    BY <2>1, CountersType DEF Discard, TypeOK
<1>5. inodeTable' \in [Inodes -> Inode]
  BY ContentsType DEF Discard, TypeOK
<1>6. QED
  BY <1>3, <1>4, <1>5 DEF Discard, BlockFree, InodeFree, TypeOK

\* Opening what a path resolves to keeps the types.
LEMMA OpenType ==
    ASSUME TypeOK, NEW found \in SUBSET Inodes, OpenFound(found)
    PROVE  TypeOK'
<1>1. ASSUME NEW code \in {"ENOENT", "EISDIR"}, Fail(code) PROVE TypeOK'
  BY <1>1 DEF Fail, disk, TypeOK
<1>2. ASSUME NEW i \in found, opened' = opened \cup {i}, rc' = "OK",
             UNCHANGED <<disk, diskSb, sb, mounted, writing>>
      PROVE  TypeOK'
  BY <1>2 DEF TypeOK, disk
<1>3. QED
  BY <1>1, <1>2 DEF OpenFound

\* So does truncating it.
LEMMA TruncateType ==
    ASSUME TypeOK, NEW found \in SUBSET Inodes, NEW keep, TruncateFound(found, keep)
    PROVE  TypeOK'
<1> DEFINE drop(i) == {k \in Pointers(inodeTable[i]) : k >= keep}
<1>1. ASSUME NEW code \in {"ENOENT", "EISDIR"}, Fail(code) PROVE TypeOK'
  BY <1>1 DEF Fail, disk, TypeOK
<1>2. ASSUME NEW i \in found,
             BlockFree(inodeTable[i], drop(i)),
             inodeTable' = [inodeTable EXCEPT ![i] = Shortened(inodeTable[i], drop(i))],
             sb' = GiveBlocks(sb, drop(i)), diskSb' = sb', rc' = "OK",
             UNCHANGED <<inodeBitmap, block, mounted, opened, writing>>
      PROVE  TypeOK'
  <2>1. i \in Inodes /\ drop(i) \in SUBSET Idx
    BY DEF Pointers
  <2>2. Shortened(inodeTable[i], drop(i)) \in Inode
    BY <2>1, ShortenedType DEF TypeOK
  <2>3. sb' \in Counters
    BY <1>2, <2>1, CountersType DEF TypeOK
  <2>4. QED
    BY <1>2, <2>1, <2>2, <2>3 DEF BlockFree, TypeOK
<1>3. QED
  BY <1>1, <1>2 DEF TruncateFound

\* A cut path and its parent resolve to inodes, if to anything.
LEMMA CutPlacesType ==
    ASSUME NEW n, NEW at \in CutPlaces(n)
    PROVE  at.ino \in SUBSET Inodes /\ at.par \in SUBSET Inodes
<1> DEFINE atMostOne == {{}} \cup {{i} : i \in Inodes}
<1>1. at \in [ino : atMostOne, par : atMostOne]
  BY DEF CutPlaces
<1>2. QED
  BY <1>1

\* Where the parent is found, add_entry is called; otherwise what its caller
\* did is all that changes.
LEMMA CutAddCases ==
    ASSUME NEW par, NEW cell, NEW it, NEW bl, NEW bb, NEW s, CutAdd(par, cell, it, bl, bb, s)
    PROVE  /\ \/ \E p \in par : AddEntry(p, cell, it, bl, bb, s) \/ AddEntryFails(p, it, bl, bb, s)
              \/ inodeTable' = it /\ block' = bl /\ blockBitmap' = bb /\ sb' = s
           /\ diskSb' \in {diskSb, sb'}
           /\ rc' \in {"OK", "ENOSPC", "ENOENT", "ENOTDIR"}
  BY DEF CutAdd

\* What CutAdd writes has the right type.
LEMMA CutAddType ==
    ASSUME NEW par \in SUBSET Inodes, NEW cell \in Cell,
           NEW it \in [Inodes -> Inode], NEW bl \in [DataBlocks -> [Slots -> Cell]],
           NEW bb \in SUBSET DataBlocks, NEW s \in Counters,
           CutAdd(par, cell, it, bl, bb, s)
    PROVE  /\ inodeTable' \in [Inodes -> Inode]
           /\ block' \in [DataBlocks -> [Slots -> Cell]]
           /\ blockBitmap' \in SUBSET DataBlocks
           /\ sb' \in Counters
<1>1. CASE \E p \in par : AddEntry(p, cell, it, bl, bb, s) \/ AddEntryFails(p, it, bl, bb, s)
  <2>1. PICK p \in Inodes : AddEntry(p, cell, it, bl, bb, s) \/ AddEntryFails(p, it, bl, bb, s)
    BY <1>1
  <2>2. QED
    BY <2>1, AddEntryType
<1>2. CASE inodeTable' = it /\ block' = bl /\ blockBitmap' = bb /\ sb' = s
  BY <1>2
<1>3. QED
  BY <1>1, <1>2 DEF CutAdd

\* The callbacks keep the types when their paths are cut.
LEMMA CutType ==
    ASSUME TypeOK, Ready, NEW n \in Names, NEW at \in CutPlaces(n),
           CutCreate(n, at) \/ CutMkdir(n, at) \/ CutUnlink(n, at) \/ CutRmdir(n, at)
    PROVE  TypeOK'
<1>a. at.ino \in SUBSET Inodes /\ at.par \in SUBSET Inodes
  BY CutPlacesType
<1>0. ASSUME NEW code \in {"EEXIST", "ENOENT", "ENOSPC", "EISDIR", "ENOTDIR", "ENOTEMPTY"},
             Fail(code)
      PROVE  TypeOK'
  BY <1>0 DEF Fail, disk, TypeOK
<1>1. ASSUME NEW i \in FirstFit(Inodes \ inodeBitmap), inodeBitmap' = inodeBitmap \cup {i},
             CutAdd(at.par, [inode |-> i, name |-> Stored(n)], [inodeTable EXCEPT ![i] = NewFile],
                    block, blockBitmap, TakeInode(sb)),
             opened' \in {opened, IF rc' = "OK" THEN opened \cup {i} ELSE opened},
             UNCHANGED <<mounted, writing>>
      PROVE  TypeOK'
  <2> DEFINE cell == [inode |-> i, name |-> Stored(n)]
             it == [inodeTable EXCEPT ![i] = NewFile]
  <2>1. i \in Inodes
    BY DEF FirstFit
  <2>2. cell \in Cell
    BY <2>1, StoredType DEF Cell
  <2>3. it \in [Inodes -> Inode] /\ TakeInode(sb) \in Counters
    BY <2>1, ContentsType, CountersType DEF TypeOK
  <2>4. CutAdd(at.par, cell, it, block, blockBitmap, TakeInode(sb))
    BY <1>1
  <2> HIDE DEF cell, it
  <2>5. /\ inodeTable' \in [Inodes -> Inode]
        /\ block' \in [DataBlocks -> [Slots -> Cell]]
        /\ blockBitmap' \in SUBSET DataBlocks
        /\ sb' \in Counters
    BY <1>a, <2>2, <2>3, <2>4, CutAddType DEF TypeOK
  <2>6. diskSb' \in Counters /\ rc' \in {"OK", "ENOSPC", "ENOENT", "ENOTDIR"}
    BY <2>4, <2>5, CutAddCases DEF TypeOK
  <2>7. QED
    BY <1>1, <2>1, <2>5, <2>6 DEF TypeOK
<1>2. ASSUME NEW i \in FirstFit(Inodes \ inodeBitmap),
             NEW b \in FirstFit(DataBlocks \ blockBitmap),
             NEW contents \in IF at.par = {} THEN {ZeroBlock} ELSE {DotsBlock(i, p) : p \in at.par},
             inodeBitmap' = inodeBitmap \cup {i},
             CutAdd(at.par, [inode |-> i, name |-> Stored(n)],
                    [inodeTable EXCEPT ![i] = NewDir(b)], [block EXCEPT ![b] = contents],
                    blockBitmap \cup {b}, TakeInode(TakeBlock(sb))),
             UNCHANGED <<mounted, opened, writing>>
      PROVE  TypeOK'
  <2> DEFINE cell == [inode |-> i, name |-> Stored(n)]
             it == [inodeTable EXCEPT ![i] = NewDir(b)]
             bl == [block EXCEPT ![b] = contents]
             bb == blockBitmap \cup {b}
             s  == TakeInode(TakeBlock(sb))
  <2>1. i \in Inodes /\ b \in DataBlocks
    BY DEF FirstFit
  <2>2. cell \in Cell
    BY <2>1, StoredType DEF Cell
  <2>3. contents \in [Slots -> Cell]
    BY <1>a, <2>1, ContentsType
  <2>4. it \in [Inodes -> Inode] /\ bl \in [DataBlocks -> [Slots -> Cell]]
    BY <2>1, <2>3, ContentsType DEF TypeOK
  <2>5. bb \in SUBSET DataBlocks /\ s \in Counters
    BY <2>1, CountersType DEF TypeOK
  <2>6. CutAdd(at.par, cell, it, bl, bb, s)
    BY <1>2
  <2> HIDE DEF cell, it, bl, bb, s
  <2>7. /\ inodeTable' \in [Inodes -> Inode]
        /\ block' \in [DataBlocks -> [Slots -> Cell]]
        /\ blockBitmap' \in SUBSET DataBlocks
        /\ sb' \in Counters
    BY <1>a, <2>2, <2>4, <2>5, <2>6, CutAddType
  <2>8. diskSb' \in Counters /\ rc' \in {"OK", "ENOSPC", "ENOENT", "ENOTDIR"}
    BY <2>6, <2>7, CutAddCases DEF TypeOK
  <2>9. QED
    BY <1>2, <2>1, <2>7, <2>8 DEF TypeOK
<1>3. ASSUME NEW i \in at.ino, CutDiscard(n, i, at.par) PROVE TypeOK'
  <2>1. i \in Inodes /\ Pointers(inodeTable[i]) \in SUBSET Idx
    BY <1>a DEF Pointers
  <2>2. block' \in [DataBlocks -> [Slots -> Cell]]
    BY <1>3, ContentsType DEF CutDiscard, CutRemoveEntry, TypeOK
  <2>3. sb' \in Counters /\ diskSb' \in Counters
    BY <1>3, <2>1, CountersType DEF CutDiscard, TypeOK
  <2>4. inodeTable' \in [Inodes -> Inode]
    BY <1>3, ContentsType DEF CutDiscard, TypeOK
  <2>5. QED
    BY <1>3, <2>1, <2>2, <2>3, <2>4 DEF CutDiscard, BlockFree, InodeFree, TypeOK
<1>4. CASE CutCreate(n, at)
  BY <1>0, <1>1, <1>4 DEF CutCreate
<1>5. CASE CutMkdir(n, at)
  BY <1>0, <1>2, <1>5 DEF CutMkdir
<1>6. CASE CutUnlink(n, at)
  BY <1>0, <1>3, <1>6 DEF CutUnlink
<1>7. CASE CutRmdir(n, at)
  BY <1>0, <1>3, <1>7 DEF CutRmdir
<1>8. QED
  BY <1>4, <1>5, <1>6, <1>7

\* The state has the right type initially: mkfs_mini writes a root directory
\* of one block.
LEMMA InitType == Init => TypeOK
<1> SUFFICES ASSUME Init PROVE TypeOK
  OBVIOUS
<1>2. Root \in Inodes /\ DataStart \in DataBlocks
  BY GeometryAssumption
<1>3. inodeTable \in [Inodes -> Inode]
  BY <1>2, ContentsType DEF Init
<1>4. block \in [DataBlocks -> [Slots -> Cell]]
  BY <1>2, ContentsType DEF Init
<1>5. diskSb \in Counters /\ sb \in Counters
  BY GeometryAssumption DEF Init, NoSb, Counters
<1>6. QED
  BY <1>2, <1>3, <1>4, <1>5 DEF Init, TypeOK

\* Every callback and every event of the process's life keeps the types.
LEMMA NextType == TypeOK /\ [Next]_vars => TypeOK'
<1> SUFFICES ASSUME TypeOK, [Next]_vars PROVE TypeOK'
  OBVIOUS
<1>0. ASSUME NEW code \in {"EEXIST", "ENOENT", "ENOSPC", "EISDIR", "ENOTDIR", "ENOTEMPTY"},
             Fail(code)
      PROVE  TypeOK'
  BY <1>0 DEF Fail, disk, TypeOK
<1>1. ASSUME NEW par \in Inodes, NEW n \in Names, Create(par, n)
      PROVE  TypeOK'
  <2>1. CASE CreateRefused(par, n)
    BY <2>1, <1>0 DEF CreateRefused
  <2>2. ASSUME NEW i \in FirstFit(Inodes \ inodeBitmap), CreateNew(par, n, i)
        PROVE  TypeOK'
    <3> DEFINE cell == [inode |-> i, name |-> Stored(n)]
               it == [inodeTable EXCEPT ![i] = NewFile]
    <3>1. i \in Inodes
      BY <2>2 DEF FirstFit
    <3>2. cell \in Cell
      BY <3>1, StoredType DEF Cell
    <3>3. it \in [Inodes -> Inode]
      BY <3>1, ContentsType DEF TypeOK
    <3>4. TakeInode(sb) \in Counters
      BY CountersType DEF TypeOK
    <3>5. \/ AddEntry(par, cell, it, block, blockBitmap, TakeInode(sb))
          \/ AddEntryFails(par, it, block, blockBitmap, TakeInode(sb))
      BY <2>2 DEF CreateNew
    <3> HIDE DEF cell, it
    <3>6. /\ inodeTable' \in [Inodes -> Inode]
          /\ block' \in [DataBlocks -> [Slots -> Cell]]
          /\ blockBitmap' \in SUBSET DataBlocks
          /\ sb' \in Counters
      BY <1>1, <3>2, <3>3, <3>4, <3>5, AddEntryType DEF TypeOK
    <3>7. /\ inodeBitmap' \subseteq Inodes
          /\ diskSb' \in Counters
          /\ opened' \subseteq Inodes
          /\ rc' \in {"OK", "ENOSPC"}
          /\ UNCHANGED <<mounted, writing>>
      BY <2>2, <3>1, <3>6 DEF CreateNew, TypeOK
    <3>8. QED
      BY <3>6, <3>7 DEF TypeOK
  <2>3. QED
    BY <1>1, <2>1, <2>2 DEF Create
<1>2. ASSUME NEW par \in Inodes, NEW n \in Names, Mkdir(par, n)
      PROVE  TypeOK'
  <2>1. CASE MkdirRefused(par, n)
    BY <2>1, <1>0 DEF MkdirRefused
  <2>2. ASSUME NEW i \in FirstFit(Inodes \ inodeBitmap),
               NEW b \in FirstFit(DataBlocks \ blockBitmap), MkdirNew(par, n, i, b)
        PROVE  TypeOK'
    <3> DEFINE cell == [inode |-> i, name |-> Stored(n)]
               it == [inodeTable EXCEPT ![i] = NewDir(b)]
               bl == [block EXCEPT ![b] = DotsBlock(i, par)]
               bb == blockBitmap \cup {b}
               s  == TakeInode(TakeBlock(sb))
    <3>1. i \in Inodes /\ b \in DataBlocks
      BY <2>2 DEF FirstFit
    <3>2. cell \in Cell
      BY <3>1, StoredType DEF Cell
    <3>3. it \in [Inodes -> Inode] /\ bl \in [DataBlocks -> [Slots -> Cell]]
      BY <1>2, <3>1, ContentsType DEF TypeOK
    <3>4. bb \in SUBSET DataBlocks /\ s \in Counters
      BY <3>1, CountersType DEF TypeOK
    <3>5. AddEntry(par, cell, it, bl, bb, s) \/ AddEntryFails(par, it, bl, bb, s)
      BY <2>2 DEF MkdirNew
    <3> HIDE DEF cell, it, bl, bb, s
    <3>6. /\ inodeTable' \in [Inodes -> Inode]
          /\ block' \in [DataBlocks -> [Slots -> Cell]]
          /\ blockBitmap' \in SUBSET DataBlocks
          /\ sb' \in Counters
      BY <1>2, <3>2, <3>3, <3>4, <3>5, AddEntryType
    <3>7. /\ inodeBitmap' \subseteq Inodes
          /\ diskSb' \in Counters
          /\ rc' \in {"OK", "ENOSPC"}
          /\ UNCHANGED <<mounted, opened, writing>>
      BY <2>2, <3>1, <3>6 DEF MkdirNew, TypeOK
    <3>8. QED
      BY <3>6, <3>7 DEF TypeOK
  <2>3. QED
    BY <1>2, <2>1, <2>2 DEF Mkdir
<1>3. ASSUME NEW par \in Inodes, NEW n \in Names, Unlink(par, n)
      PROVE  TypeOK'
  <2>1. ASSUME NEW i \in Lookup(inodeTable, block, par, n), Discard(par, n, i)
        PROVE  TypeOK'
    BY <1>3, <2>1, LookupType, DiscardType DEF TypeOK
  <2>2. QED
    BY <1>0, <1>3, <2>1 DEF Unlink
<1>4. ASSUME NEW par \in Inodes, NEW n \in Names, Rmdir(par, n)
      PROVE  TypeOK'
  <2>1. ASSUME NEW i \in Lookup(inodeTable, block, par, n), Discard(par, n, i)
        PROVE  TypeOK'
    BY <1>4, <2>1, LookupType, DiscardType DEF TypeOK
  <2>2. QED
    BY <1>0, <1>4, <2>1 DEF Rmdir
<1>5. ASSUME NEW par \in Inodes, NEW n \in Names, Open(par, n)
      PROVE  TypeOK'
  <2>1. Lookup(inodeTable, block, par, n) \in SUBSET Inodes
    BY LookupType DEF TypeOK
  <2>2. QED
    BY <1>5, <2>1, OpenType DEF Open
<1>6. ASSUME NEW par \in Inodes, NEW n \in Names, NEW keep \in 0 .. DirectBlocks,
             Truncate(par, n, keep)
      PROVE  TypeOK'
  <2>1. Lookup(inodeTable, block, par, n) \in SUBSET Inodes
    BY LookupType DEF TypeOK
  <2>2. QED
    BY <1>6, <2>1, TruncateType DEF Truncate
<1>c. ASSUME Ready, NEW n \in Names, NEW at \in CutPlaces(n),
             \/ CutCreate(n, at) \/ CutMkdir(n, at) \/ CutUnlink(n, at) \/ CutRmdir(n, at)
             \/ OpenFound(at.ino)
             \/ \E keep \in 0 .. DirectBlocks : TruncateFound(at.ino, keep)
      PROVE  TypeOK'
  BY <1>c, CutPlacesType, CutType, OpenType, TruncateType
<1>7. ASSUME NEW i \in Inodes, Release(i)
      PROVE  TypeOK'
  BY <1>7 DEF Release, disk, TypeOK
<1>8. ASSUME NEW i \in Inodes, NEW first \in 0 .. DirectBlocks, NEW last \in 0 .. DirectBlocks,
             WriteBegin(i, first, last)
      PROVE  TypeOK'
  <2>1. CASE Fail("EISDIR")
    BY <2>1, <1>0
  <2>2. CASE inodeTable[i].type = "FILE"
    <3> DEFINE w == [ino |-> i, inode |-> inodeTable[i], first |-> first,
                     next |-> first, last |-> last]
    <3>1. w \in WriteLoop
      BY <1>8, GeometryAssumption DEF WriteLoop, TypeOK
    <3>2. writing' = {w} /\ UNCHANGED <<disk, diskSb, sb, mounted, opened, rc>>
      BY <1>8, <2>2 DEF WriteBegin
    <3>3. QED
      BY <3>1, <3>2 DEF disk, TypeOK
  <2>3. QED
    BY <1>8, <2>1, <2>2 DEF WriteBegin
<1>9. ASSUME NEW w \in writing, WriteInPlace(w)
      PROVE  TypeOK'
  <2>1. w \in WriteLoop /\ w.inode \in Inode
    BY DEF TypeOK, WriteLoop
  <2>2. w.next \in Idx
    BY <1>9, <2>1, GeometryAssumption DEF WriteInPlace, InLoop, WriteLoop
  <2>3. w.inode.direct[w.next] \in DataBlocks
    BY <1>9, <2>1, <2>2 DEF WriteInPlace, Inode
  <2>4. block' \in [DataBlocks -> [Slots -> Cell]]
    BY <1>9, <2>3, ContentsType DEF WriteInPlace, TypeOK
  <2>5. [w EXCEPT !.next = @ + 1] \in WriteLoop
    BY <2>1 DEF WriteLoop
  <2>6. QED
    BY <1>9, <2>4, <2>5 DEF WriteInPlace, TypeOK
<1>10. ASSUME NEW w \in writing, WriteAlloc(w)
       PROVE  TypeOK'
  <2>1. w \in WriteLoop /\ w.inode \in Inode
    BY DEF TypeOK, WriteLoop
  <2>2. w.next \in Idx
    BY <1>10, <2>1, GeometryAssumption DEF WriteAlloc, InLoop, WriteLoop
  <2>3. PICK b \in FirstFit(DataBlocks \ blockBitmap) :
           /\ blockBitmap' = blockBitmap \cup {b}
           /\ block' = [block EXCEPT ![b] = DataBlock]
           /\ sb' = TakeBlock(sb)
           /\ writing' = {[w EXCEPT !.next = @ + 1, !.inode = WithBlock(@, w.next, b)]}
    BY <1>10 DEF WriteAlloc
  <2>4. b \in DataBlocks
    BY DEF FirstFit
  <2>5. block' \in [DataBlocks -> [Slots -> Cell]]
    BY <2>3, <2>4, ContentsType DEF TypeOK
  <2>6. [w EXCEPT !.next = @ + 1, !.inode = WithBlock(@, w.next, b)] \in WriteLoop
    <3>1. WithBlock(w.inode, w.next, b) \in Inode
      BY <2>1, <2>2, <2>4, WithBlockType
    <3> DEFINE n == w.next + 1
               ino == WithBlock(w.inode, w.next, b)
    <3>2. n \in Nat
      BY <2>1 DEF WriteLoop
    <3> HIDE DEF n, ino
    <3>3. [w EXCEPT !.next = n, !.inode = ino] \in WriteLoop
      BY <2>1, <3>1, <3>2 DEF WriteLoop, ino
    <3>4. QED
      BY <3>3 DEF n, ino
  <2>7. sb' \in Counters
    BY <2>3, CountersType DEF TypeOK
  <2>8. QED
    BY <1>10, <2>3, <2>4, <2>5, <2>6, <2>7 DEF WriteAlloc, TypeOK
<1>11. ASSUME NEW w \in writing, WriteNoSpace(w)
       PROVE  TypeOK'
  BY <1>11 DEF WriteNoSpace, disk, TypeOK
<1>12. ASSUME NEW w \in writing, WriteEnd(w)
       PROVE  TypeOK'
  BY <1>12 DEF WriteEnd, TypeOK, WriteLoop
<1>13. CASE Mount
  BY <1>13 DEF Mount, disk, TypeOK
<1>14. NoSb \in Counters
  BY DEF NoSb, Counters
<1>15. CASE Unmount
  BY <1>14, <1>15 DEF Unmount, disk, TypeOK
<1>16. CASE Kill
  BY <1>14, <1>16 DEF Kill, disk, TypeOK
<1>17. CASE UNCHANGED vars
  BY <1>17 DEF vars, TypeOK
<1>18. QED
  BY <1>1, <1>2, <1>3, <1>4, <1>5, <1>6, <1>c, <1>7, <1>8, <1>9, <1>10, <1>11, <1>12, <1>13,
     <1>15, <1>16, <1>17 DEF Next

\* Type correctness of the driver.
THEOREM TypeCorrect == Spec => []TypeOK
  BY InitType, NextType, PTL DEF Spec

-----------------------------------------------------------------------------
(* Ownership of blocks.  PointersAllocated and NoSharedBlock are inductive  *)
(* together, given that at most one write loop runs: an allocation takes a  *)
(* block that is not marked, so by the first nobody points to it; a free    *)
(* clears the bits of one inode's blocks, to which by the second no other   *)
(* points.                                                                  *)

Covered(ino, bb) == \A k \in Idx : ino.direct[k] # NoBlock => ino.direct[k] \in bb

TableCovered(it, bb) == \A i \in Inodes : Covered(it[i], bb)
TableApart(it)       == \A i, j \in Inodes : Apart(i, it[i], j, it[j])

OneWrite == \A v, w \in writing : v = w

OwnershipInv ==
    /\ TypeOK
    /\ OneWrite
    /\ TableCovered(inodeTable, blockBitmap)
    /\ \A w \in writing : Covered(w.inode, blockBitmap)
    /\ NoSharedBlock

\* The inductive form of PointersAllocated says what PointersAllocated says.
LEMMA OwnershipImplies == OwnershipInv => PointersAllocated
<1> SUFFICES ASSUME OwnershipInv, NEW b \in Referenced PROVE b \in blockBitmap
  BY DEF PointersAllocated
<1>1. CASE \E i \in Inodes : b \in Refs(inodeTable[i])
  BY <1>1 DEF OwnershipInv, TableCovered, Covered, Refs, Pointers
<1>2. CASE \E w \in writing : b \in Refs(w.inode)
  BY <1>2 DEF OwnershipInv, Covered, Refs, Pointers
<1>3. QED
  BY <1>1, <1>2 DEF Referenced

\* An inode may be replaced by one each of whose pointers is either the one it
\* replaces or a block nobody has marked.
LEMMA ReplaceInode ==
    ASSUME NEW it \in [Inodes -> Inode], NEW bb, TableCovered(it, bb), TableApart(it),
           NEW i \in Inodes, NEW r \in Inode, Apart(i, r, i, r),
           \A k \in Idx : r.direct[k] # NoBlock =>
                              r.direct[k] = it[i].direct[k] \/ r.direct[k] \notin bb
    PROVE  TableApart([it EXCEPT ![i] = r])
<1> DEFINE it2 == [it EXCEPT ![i] = r]
<1> SUFFICES ASSUME NEW m \in Inodes, NEW n \in Inodes, NEW k \in Idx, NEW l \in Idx,
                    it2[m].direct[k] # NoBlock, it2[m].direct[k] = it2[n].direct[l]
             PROVE  m = n /\ k = l
  BY DEF TableApart, Apart
<1>1. CASE m = i /\ n = i
  BY <1>1 DEF Apart
<1>2. CASE m = i /\ n # i
  BY <1>2 DEF TableApart, TableCovered, Covered, Apart
<1>3. CASE m # i /\ n = i
  BY <1>3 DEF TableApart, TableCovered, Covered, Apart
<1>4. CASE m # i /\ n # i
  BY <1>4 DEF TableApart, Apart
<1>5. QED
  BY <1>1, <1>2, <1>3, <1>4

\* Giving an inode one unmarked block keeps its own pointers apart.
LEMMA WithBlockApart ==
    ASSUME NEW i, NEW ino \in Inode, NEW k \in Idx, NEW bb, NEW b \in DataBlocks \ bb,
           Covered(ino, bb), Apart(i, ino, i, ino)
    PROVE  /\ Apart(i, WithBlock(ino, k, b), i, WithBlock(ino, k, b))
           /\ Covered(WithBlock(ino, k, b), bb \cup {b})
           /\ \A l \in Idx : WithBlock(ino, k, b).direct[l] \in {ino.direct[l], b}
<1>1. WithBlock(ino, k, b).direct = [ino.direct EXCEPT ![k] = b]
  BY DEF WithBlock, Inode
<1>2. ino.direct \in [Idx -> DataBlocks \cup {NoBlock}]
  BY DEF Inode
<1>3. QED
  BY <1>1, <1>2 DEF Apart, Covered

\* add_entry keeps the table covered by the bitmap and its pointers apart.
LEMMA AddEntryOwnership ==
    ASSUME NEW par \in Inodes, NEW cell, NEW it \in [Inodes -> Inode], NEW bl,
           NEW bb, NEW s, TableCovered(it, bb), TableApart(it),
           AddEntry(par, cell, it, bl, bb, s) \/ AddEntryFails(par, it, bl, bb, s)
    PROVE  TableCovered(inodeTable', blockBitmap') /\ TableApart(inodeTable')
<1>1. CASE FillSlot(par, cell, it, bl, bb, s) \/ AddEntryFails(par, it, bl, bb, s)
  <2>1. inodeTable' = it /\ blockBitmap' = bb
    BY <1>1 DEF FillSlot, AddEntryFails
  <2>2. QED
    BY <2>1
<1>2. CASE GrowDir(par, cell, it, bl, bb, s)
  <2>1. PICK k \in FirstFit(Holes(it[par])), b \in FirstFit(DataBlocks \ bb) :
               /\ inodeTable' = [it EXCEPT ![par] = WithBlock(@, k, b)]
               /\ blockBitmap' = bb \cup {b}
    BY <1>2 DEF GrowDir
  <2>2. k \in Idx /\ b \in DataBlocks \ bb
    BY DEF FirstFit, Holes
  <2> DEFINE r == WithBlock(it[par], k, b)
  <2>3. r \in Inode
    BY <2>2, WithBlockType
  <2>4. it[par] \in Inode /\ Covered(it[par], bb) /\ Apart(par, it[par], par, it[par])
    BY DEF TableCovered, TableApart
  <2>5. /\ Apart(par, r, par, r)
        /\ Covered(r, bb \cup {b})
        /\ \A l \in Idx : r.direct[l] \in {it[par].direct[l], b}
    BY <2>2, <2>4, WithBlockApart
  <2> HIDE DEF r
  <2>6. inodeTable' = [it EXCEPT ![par] = r]
    BY <2>1 DEF r
  <2>7. TableApart(inodeTable')
    BY <2>2, <2>3, <2>5, <2>6, ReplaceInode
  <2>8. TableCovered(inodeTable', blockBitmap')
    BY <2>1, <2>5, <2>6 DEF TableCovered, Covered
  <2>9. QED
    BY <2>7, <2>8
<1>3. QED
  BY <1>1, <1>2 DEF AddEntry

\* Dropping pointers of one inode and freeing exactly those blocks keeps every
\* inode covered: no other inode points to a freed block.
LEMMA DropOwnership ==
    ASSUME NEW it \in [Inodes -> Inode], NEW bb, TableCovered(it, bb), TableApart(it),
           NEW i \in Inodes, NEW r \in Inode, NEW K \in SUBSET Idx,
           \A k \in Idx : r.direct[k] # NoBlock => k \notin K /\ r.direct[k] = it[i].direct[k]
    PROVE  /\ TableCovered([it EXCEPT ![i] = r], bb \ {it[i].direct[k] : k \in K})
           /\ TableApart([it EXCEPT ![i] = r])
<1>1. Apart(i, r, i, r)
  BY DEF TableApart, Apart
<1>2. TableApart([it EXCEPT ![i] = r])
  BY <1>1, ReplaceInode
<1>3. ASSUME NEW m \in Inodes, NEW k \in Idx,
             [it EXCEPT ![i] = r][m].direct[k] # NoBlock
      PROVE  [it EXCEPT ![i] = r][m].direct[k] \in bb \ {it[i].direct[l] : l \in K}
  <2>1. [it EXCEPT ![i] = r][m].direct[k] = it[m].direct[k]
    BY <1>3
  <2>2. it[m].direct[k] \in bb
    BY <1>3, <2>1 DEF TableCovered, Covered
  <2>3. ASSUME NEW l \in K, it[m].direct[k] = it[i].direct[l] PROVE FALSE
    <3>1. m = i /\ k = l
      BY <1>3, <2>1, <2>3 DEF TableApart, Apart
    <3>2. QED
      BY <1>3, <3>1
  <2>4. QED
    BY <2>1, <2>2, <2>3
<1>4. QED
  BY <1>2, <1>3 DEF TableCovered, Covered

\* Unlink and rmdir free the blocks of the inode they clear, and no others.
LEMMA DiscardOwnership ==
    ASSUME OwnershipInv, NEW par, NEW n, NEW i \in Inodes,
           Discard(par, n, i) \/ CutDiscard(n, i, par)
    PROVE  TableCovered(inodeTable', blockBitmap') /\ TableApart(inodeTable')
<1>1. /\ inodeTable' = [inodeTable EXCEPT ![i] = FreeInode]
      /\ blockBitmap' = blockBitmap \ {inodeTable[i].direct[k] : k \in Pointers(inodeTable[i])}
  BY DEF Discard, CutDiscard, BlockFree
<1>2. Pointers(inodeTable[i]) \in SUBSET Idx
  BY DEF Pointers
<1>3. FreeInode \in Inode /\ \A k \in Idx : FreeInode.direct[k] = NoBlock
  BY ContentsType DEF FreeInode, NoPointers
<1>4. inodeTable \in [Inodes -> Inode] /\ TableCovered(inodeTable, blockBitmap) /\ TableApart(inodeTable)
  BY DEF OwnershipInv, TypeOK, NoSharedBlock, TableApart
<1>5. QED
  BY <1>1, <1>2, <1>3, <1>4, DropOwnership

\* Blocks are owned properly in a fresh image: only the root has a block.
LEMMA InitOwnership == Init => OwnershipInv
<1> SUFFICES ASSUME Init PROVE OwnershipInv
  OBVIOUS
<1>1. inodeTable = [i \in Inodes |-> IF i = Root THEN NewDir(DataStart) ELSE FreeInode]
  BY DEF Init
<1>2. \A i \in Inodes, k \in Idx :
         inodeTable[i].direct[k] # NoBlock =>
             inodeTable[i].direct[k] = DataStart /\ i = Root /\ k = 0
  BY <1>1 DEF NewDir, FreeInode, NoPointers
<1>3. TableCovered(inodeTable, blockBitmap)
  BY <1>2 DEF TableCovered, Covered, Init
<1>4. NoSharedBlock /\ OneWrite
  BY <1>2 DEF NoSharedBlock, Apart, OneWrite, Init
<1>5. \A w \in writing : Covered(w.inode, blockBitmap)
  BY DEF Init
<1>6. QED
  BY <1>3, <1>4, <1>5, InitType DEF OwnershipInv

\* What a callback outside a write loop has to show.
LEMMA ReadyOwnership ==
    ASSUME TypeOK', writing' = {},
           TableCovered(inodeTable', blockBitmap'), TableApart(inodeTable')
    PROVE  OwnershipInv'
  BY DEF OwnershipInv, NoSharedBlock, OneWrite, TableApart

\* Truncation frees the blocks it drops, and no others.
LEMMA TruncateOwnership ==
    ASSUME OwnershipInv, TypeOK', Ready, NEW found \in SUBSET Inodes, NEW keep,
           TruncateFound(found, keep)
    PROVE  OwnershipInv'
<1>i. /\ inodeTable \in [Inodes -> Inode]
      /\ TableCovered(inodeTable, blockBitmap)
      /\ TableApart(inodeTable)
  BY DEF OwnershipInv, TypeOK, NoSharedBlock, TableApart
<1> DEFINE drop(i) == {k \in Pointers(inodeTable[i]) : k >= keep}
<1>1. ASSUME NEW code, Fail(code) PROVE OwnershipInv'
  BY <1>1, <1>i, ReadyOwnership DEF Fail, disk, Ready
<1>2. ASSUME NEW i \in found,
             BlockFree(inodeTable[i], drop(i)),
             inodeTable' = [inodeTable EXCEPT ![i] = Shortened(inodeTable[i], drop(i))],
             UNCHANGED writing
      PROVE  OwnershipInv'
  <2>1. i \in Inodes /\ drop(i) \in SUBSET Idx
    BY DEF Pointers
  <2> DEFINE r == Shortened(inodeTable[i], drop(i))
  <2>2. r \in Inode
    BY <1>i, <2>1, ShortenedType
  <2>3. \A k \in Idx : r.direct[k] # NoBlock =>
                          k \notin drop(i) /\ r.direct[k] = inodeTable[i].direct[k]
    BY <1>i, <2>1 DEF Shortened, Inode
  <2>4. blockBitmap' = blockBitmap \ {inodeTable[i].direct[k] : k \in drop(i)}
    BY <1>2 DEF BlockFree
  <2>5. inodeTable' = [inodeTable EXCEPT ![i] = r]
    BY <1>2
  <2> HIDE DEF r, drop
  <2>6. TableCovered(inodeTable', blockBitmap') /\ TableApart(inodeTable')
    BY <1>i, <2>1, <2>2, <2>3, <2>4, <2>5, DropOwnership
  <2>7. writing' = {}
    BY <1>2 DEF Ready
  <2>8. QED
    BY <2>6, <2>7, ReadyOwnership
<1>3. QED
  BY <1>1, <1>2 DEF TruncateFound

\* A new inode takes a free number and a directory's block was not marked.
LEMMA NewInodeOwnership ==
    ASSUME OwnershipInv, NEW i \in Inodes
    PROVE  /\ TableCovered([inodeTable EXCEPT ![i] = NewFile], blockBitmap)
           /\ TableApart([inodeTable EXCEPT ![i] = NewFile])
           /\ [inodeTable EXCEPT ![i] = NewFile] \in [Inodes -> Inode]
           /\ \A b \in DataBlocks \ blockBitmap :
                 /\ TableCovered([inodeTable EXCEPT ![i] = NewDir(b)], blockBitmap \cup {b})
                 /\ TableApart([inodeTable EXCEPT ![i] = NewDir(b)])
                 /\ [inodeTable EXCEPT ![i] = NewDir(b)] \in [Inodes -> Inode]
<1>i. /\ inodeTable \in [Inodes -> Inode]
      /\ TableCovered(inodeTable, blockBitmap)
      /\ TableApart(inodeTable)
  BY DEF OwnershipInv, TypeOK, NoSharedBlock, TableApart
<1>1. NewFile \in Inode /\ \A k \in Idx : NewFile.direct[k] = NoBlock
  BY ContentsType DEF NewFile, NoPointers
<1>2. Apart(i, NewFile, i, NewFile)
  BY <1>1 DEF Apart
<1>3. TableApart([inodeTable EXCEPT ![i] = NewFile])
  BY <1>i, <1>1, <1>2, ReplaceInode
<1>4. /\ [inodeTable EXCEPT ![i] = NewFile] \in [Inodes -> Inode]
      /\ TableCovered([inodeTable EXCEPT ![i] = NewFile], blockBitmap)
  BY <1>i, <1>1 DEF TableCovered, Covered
<1>5. ASSUME NEW b \in DataBlocks \ blockBitmap
      PROVE  /\ TableCovered([inodeTable EXCEPT ![i] = NewDir(b)], blockBitmap \cup {b})
             /\ TableApart([inodeTable EXCEPT ![i] = NewDir(b)])
             /\ [inodeTable EXCEPT ![i] = NewDir(b)] \in [Inodes -> Inode]
  <2>1. /\ NewDir(b) \in Inode
        /\ \A k \in Idx : NewDir(b).direct[k] = IF k = 0 THEN b ELSE NoBlock
    BY ContentsType, GeometryAssumption DEF NewDir, NoPointers
  <2>2. Apart(i, NewDir(b), i, NewDir(b))
    BY <2>1 DEF Apart
  <2>3. TableApart([inodeTable EXCEPT ![i] = NewDir(b)])
    BY <1>i, <2>1, <2>2, ReplaceInode
  <2>4. TableCovered([inodeTable EXCEPT ![i] = NewDir(b)], blockBitmap \cup {b})
    BY <1>i, <2>1 DEF TableCovered, Covered
  <2>5. QED
    BY <1>i, <2>1, <2>3, <2>4
<1>6. QED
  BY <1>3, <1>4, <1>5

\* Blocks stay owned properly when paths are cut.
LEMMA CutOwnership ==
    ASSUME OwnershipInv, TypeOK', Ready, NEW n \in Names, NEW at \in CutPlaces(n),
           CutCreate(n, at) \/ CutMkdir(n, at) \/ CutUnlink(n, at) \/ CutRmdir(n, at)
    PROVE  OwnershipInv'
<1>a. at.ino \in SUBSET Inodes /\ at.par \in SUBSET Inodes
  BY CutPlacesType
<1>i. /\ inodeTable \in [Inodes -> Inode]
      /\ TableCovered(inodeTable, blockBitmap)
      /\ TableApart(inodeTable)
  BY DEF OwnershipInv, TypeOK, NoSharedBlock, TableApart
<1>0. ASSUME NEW code, Fail(code) PROVE OwnershipInv'
  BY <1>0, <1>i, ReadyOwnership DEF Fail, disk, Ready
<1>1. ASSUME NEW cell, NEW it \in [Inodes -> Inode], NEW bl, NEW bb, NEW s,
             TableCovered(it, bb), TableApart(it), CutAdd(at.par, cell, it, bl, bb, s),
             UNCHANGED writing
      PROVE  OwnershipInv'
  <2>1. TableCovered(inodeTable', blockBitmap') /\ TableApart(inodeTable')
    <3>1. CASE \E p \in at.par : AddEntry(p, cell, it, bl, bb, s) \/ AddEntryFails(p, it, bl, bb, s)
      <4>1. PICK p \in Inodes : AddEntry(p, cell, it, bl, bb, s) \/ AddEntryFails(p, it, bl, bb, s)
        BY <1>a, <3>1
      <4>2. QED
        BY <1>1, <4>1, AddEntryOwnership
    <3>2. CASE inodeTable' = it /\ blockBitmap' = bb
      BY <1>1, <3>2
    <3>3. QED
      BY <1>1, <3>1, <3>2 DEF CutAdd
  <2>2. writing' = {}
    BY <1>1 DEF Ready
  <2>3. QED
    BY <2>1, <2>2, ReadyOwnership
<1>2. CASE CutCreate(n, at)
  <2>1. ASSUME NEW i \in FirstFit(Inodes \ inodeBitmap),
               CutAdd(at.par, [inode |-> i, name |-> Stored(n)],
                      [inodeTable EXCEPT ![i] = NewFile], block, blockBitmap, TakeInode(sb)),
               UNCHANGED writing
        PROVE  OwnershipInv'
    <3>1. i \in Inodes
      BY DEF FirstFit
    <3> DEFINE cell == [inode |-> i, name |-> Stored(n)]
               it == [inodeTable EXCEPT ![i] = NewFile]
    <3>2. TableCovered(it, blockBitmap) /\ TableApart(it) /\ it \in [Inodes -> Inode]
      BY <3>1, NewInodeOwnership
    <3>3. CutAdd(at.par, cell, it, block, blockBitmap, TakeInode(sb))
      BY <2>1
    <3> HIDE DEF cell, it
    <3>4. QED
      BY <1>1, <2>1, <3>2, <3>3
  <2>2. QED
    BY <1>0, <1>2, <2>1 DEF CutCreate
<1>3. CASE CutMkdir(n, at)
  <2>1. ASSUME NEW i \in FirstFit(Inodes \ inodeBitmap),
               NEW b \in FirstFit(DataBlocks \ blockBitmap), NEW contents,
               CutAdd(at.par, [inode |-> i, name |-> Stored(n)],
                      [inodeTable EXCEPT ![i] = NewDir(b)], [block EXCEPT ![b] = contents],
                      blockBitmap \cup {b}, TakeInode(TakeBlock(sb))),
               UNCHANGED writing
        PROVE  OwnershipInv'
    <3>1. i \in Inodes /\ b \in DataBlocks \ blockBitmap
      BY DEF FirstFit
    <3> DEFINE cell == [inode |-> i, name |-> Stored(n)]
               it == [inodeTable EXCEPT ![i] = NewDir(b)]
               bl == [block EXCEPT ![b] = contents]
               bb == blockBitmap \cup {b}
               s  == TakeInode(TakeBlock(sb))
    <3>2. TableCovered(it, bb) /\ TableApart(it) /\ it \in [Inodes -> Inode]
      BY <3>1, NewInodeOwnership
    <3>3. CutAdd(at.par, cell, it, bl, bb, s)
      BY <2>1
    <3> HIDE DEF cell, it, bl, bb, s
    <3>4. QED
      BY <1>1, <2>1, <3>2, <3>3
  <2>2. QED
    BY <1>0, <1>3, <2>1 DEF CutMkdir
<1>4. CASE CutUnlink(n, at) \/ CutRmdir(n, at)
  <2>1. ASSUME NEW i \in at.ino, CutDiscard(n, i, at.par) PROVE OwnershipInv'
    <3>1. TableCovered(inodeTable', blockBitmap') /\ TableApart(inodeTable')
      BY <1>a, <2>1, DiscardOwnership
    <3>2. writing' = {}
      BY <2>1 DEF CutDiscard, Ready
    <3>3. QED
      BY <3>1, <3>2, ReadyOwnership
  <2>2. QED
    BY <1>0, <1>4, <2>1 DEF CutUnlink, CutRmdir
<1>5. QED
  BY <1>2, <1>3, <1>4

\* Every callback and every event keeps each block marked and singly owned.
LEMMA NextOwnership == OwnershipInv /\ [Next]_vars => OwnershipInv'
<1> SUFFICES ASSUME OwnershipInv, [Next]_vars PROVE OwnershipInv'
  OBVIOUS
<1>t. TypeOK /\ TypeOK'
  BY NextType DEF OwnershipInv
<1>i. /\ inodeTable \in [Inodes -> Inode]
      /\ TableCovered(inodeTable, blockBitmap)
      /\ TableApart(inodeTable)
  BY DEF OwnershipInv, TypeOK, NoSharedBlock, TableApart
<1>0. ASSUME UNCHANGED <<inodeTable, blockBitmap>>, writing' \subseteq writing
      PROVE  OwnershipInv'
  BY <1>0, <1>t DEF OwnershipInv, OneWrite, NoSharedBlock, TableCovered
<1>1. ASSUME NEW par \in Inodes, NEW n \in Names, Create(par, n)
      PROVE  OwnershipInv'
  <2>1. CASE CreateRefused(par, n)
    BY <2>1, <1>0 DEF CreateRefused, Fail, disk
  <2>2. ASSUME NEW i \in FirstFit(Inodes \ inodeBitmap), CreateNew(par, n, i)
        PROVE  OwnershipInv'
    <3> DEFINE cell == [inode |-> i, name |-> Stored(n)]
               it == [inodeTable EXCEPT ![i] = NewFile]
    <3>1. i \in Inodes
      BY DEF FirstFit
    <3>4. it \in [Inodes -> Inode] /\ TableCovered(it, blockBitmap) /\ TableApart(it)
      BY <3>1, NewInodeOwnership
    <3>5. \/ AddEntry(par, cell, it, block, blockBitmap, TakeInode(sb))
          \/ AddEntryFails(par, it, block, blockBitmap, TakeInode(sb))
      BY <2>2 DEF CreateNew
    <3> HIDE DEF cell, it
    <3>6. TableCovered(inodeTable', blockBitmap') /\ TableApart(inodeTable')
      BY <1>1, <3>4, <3>5, AddEntryOwnership
    <3>7. writing' = {}
      BY <1>1, <2>2 DEF Create, ReadyIn, Ready, CreateNew
    <3>8. QED
      BY <1>t, <3>6, <3>7, ReadyOwnership
  <2>3. QED
    BY <1>1, <2>1, <2>2 DEF Create
<1>2. ASSUME NEW par \in Inodes, NEW n \in Names, Mkdir(par, n)
      PROVE  OwnershipInv'
  <2>1. CASE MkdirRefused(par, n)
    BY <2>1, <1>0 DEF MkdirRefused, Fail, disk
  <2>2. ASSUME NEW i \in FirstFit(Inodes \ inodeBitmap),
               NEW b \in FirstFit(DataBlocks \ blockBitmap), MkdirNew(par, n, i, b)
        PROVE  OwnershipInv'
    <3> DEFINE cell == [inode |-> i, name |-> Stored(n)]
               it == [inodeTable EXCEPT ![i] = NewDir(b)]
               bl == [block EXCEPT ![b] = DotsBlock(i, par)]
               bb == blockBitmap \cup {b}
               s  == TakeInode(TakeBlock(sb))
    <3>1. i \in Inodes /\ b \in DataBlocks \ blockBitmap
      BY DEF FirstFit
    <3>6. it \in [Inodes -> Inode] /\ TableCovered(it, bb) /\ TableApart(it)
      BY <3>1, NewInodeOwnership
    <3>7. AddEntry(par, cell, it, bl, bb, s) \/ AddEntryFails(par, it, bl, bb, s)
      BY <2>2 DEF MkdirNew
    <3> HIDE DEF cell, it, bl, bb, s
    <3>8. TableCovered(inodeTable', blockBitmap') /\ TableApart(inodeTable')
      BY <1>2, <3>6, <3>7, AddEntryOwnership
    <3>9. writing' = {}
      BY <1>2, <2>2 DEF Mkdir, ReadyIn, Ready, MkdirNew
    <3>10. QED
      BY <1>t, <3>8, <3>9, ReadyOwnership
  <2>3. QED
    BY <1>2, <2>1, <2>2 DEF Mkdir
<1>3. ASSUME NEW par \in Inodes, NEW n \in Names, Unlink(par, n) \/ Rmdir(par, n)
      PROVE  OwnershipInv'
  <2>1. ASSUME NEW code, Fail(code) PROVE OwnershipInv'
    BY <1>0, <2>1 DEF Fail, disk
  <2>2. ASSUME NEW i \in Lookup(inodeTable, block, par, n), Discard(par, n, i)
        PROVE  OwnershipInv'
    <3>1. i \in Inodes
      BY <1>3, <1>t, LookupType DEF TypeOK
    <3>2. TableCovered(inodeTable', blockBitmap') /\ TableApart(inodeTable')
      BY <2>2, <3>1, DiscardOwnership
    <3>3. writing' = {}
      BY <1>3, <2>2 DEF Unlink, Rmdir, ReadyIn, Ready, Discard
    <3>4. QED
      BY <1>t, <3>2, <3>3, ReadyOwnership
  <2>3. QED
    BY <1>3, <2>1, <2>2 DEF Unlink, Rmdir
<1>4. ASSUME NEW found, OpenFound(found)
      PROVE  OwnershipInv'
  BY <1>0, <1>4 DEF OpenFound, Fail, disk
<1>5. ASSUME NEW par \in Inodes, NEW n \in Names, NEW keep \in 0 .. DirectBlocks,
             Truncate(par, n, keep)
      PROVE  OwnershipInv'
  <2>1. Lookup(inodeTable, block, par, n) \in SUBSET Inodes
    BY <1>t, LookupType DEF TypeOK
  <2>2. QED
    BY <1>5, <1>t, <2>1, TruncateOwnership DEF Truncate, ReadyIn
<1>c. ASSUME Ready, NEW n \in Names, NEW at \in CutPlaces(n),
             \/ CutCreate(n, at) \/ CutMkdir(n, at) \/ CutUnlink(n, at) \/ CutRmdir(n, at)
             \/ OpenFound(at.ino)
             \/ \E keep \in 0 .. DirectBlocks : TruncateFound(at.ino, keep)
      PROVE  OwnershipInv'
  BY <1>t, <1>4, <1>c, CutPlacesType, CutOwnership, TruncateOwnership
<1>6. ASSUME NEW i \in Inodes, Release(i)
      PROVE  OwnershipInv'
  BY <1>0, <1>6 DEF Release, disk
<1>7. ASSUME NEW i \in Inodes, NEW first, NEW last, WriteBegin(i, first, last)
      PROVE  OwnershipInv'
  <2>1. CASE Fail("EISDIR")
    BY <1>0, <2>1 DEF Fail, disk
  <2>2. CASE inodeTable[i].type = "FILE"
    <3>1. /\ writing' = {[ino |-> i, inode |-> inodeTable[i],
                          first |-> first, next |-> first, last |-> last]}
          /\ UNCHANGED <<inodeTable, blockBitmap>>
      BY <1>7, <2>2 DEF WriteBegin, disk
    <3>2. QED
      BY <1>t, <1>i, <3>1
         DEF OwnershipInv, OneWrite, NoSharedBlock, TableCovered, TableApart
  <2>3. QED
    BY <1>7, <2>1, <2>2 DEF WriteBegin
<1>8. ASSUME NEW w \in writing, WriteInPlace(w)
      PROVE  OwnershipInv'
  <2>1. w.inode \in Inode /\ w \in WriteLoop
    BY <1>t DEF TypeOK, WriteLoop
  <2> DEFINE n == w.next + 1
             v == [w EXCEPT !.next = n]
  <2> HIDE DEF n
  <2>2. v.ino = w.ino /\ v.inode = w.inode
    BY <2>1 DEF WriteLoop
  <2>a. writing' = {v}
    BY <1>8 DEF WriteInPlace, n
  <2> HIDE DEF v
  <2>3. UNCHANGED <<inodeTable, blockBitmap>>
    BY <1>8 DEF WriteInPlace
  <2>4. QED
    BY <1>t, <2>2, <2>a, <2>3 DEF OwnershipInv, OneWrite, NoSharedBlock, TableCovered
<1>9. ASSUME NEW w \in writing, WriteAlloc(w)
      PROVE  OwnershipInv'
  <2>1. w \in WriteLoop /\ w.inode \in Inode
    BY <1>t DEF TypeOK, WriteLoop
  <2>2. w.next \in Idx
    BY <1>9, <2>1, GeometryAssumption DEF WriteAlloc, InLoop, WriteLoop
  <2>3. PICK b \in FirstFit(DataBlocks \ blockBitmap) :
           /\ blockBitmap' = blockBitmap \cup {b}
           /\ writing' = {[w EXCEPT !.next = @ + 1, !.inode = WithBlock(@, w.next, b)]}
           /\ UNCHANGED inodeTable
    BY <1>9 DEF WriteAlloc
  <2>4. b \in DataBlocks \ blockBitmap
    BY DEF FirstFit
  <2> DEFINE r == WithBlock(w.inode, w.next, b)
             n == w.next + 1
             v == [w EXCEPT !.next = n, !.inode = r]
  <2>a. writing' = {v}
    BY <2>3
  <2> HIDE DEF n, r
  <2>b. v.ino = w.ino /\ v.inode = r
    BY <2>1 DEF WriteLoop
  <2> HIDE DEF v
  <2>5. writing' = {v} /\ v.ino = w.ino /\ v.inode = r
    BY <2>a, <2>b
  <2>6. Covered(w.inode, blockBitmap) /\ Apart(w.ino, w.inode, w.ino, w.inode)
    BY DEF OwnershipInv, NoSharedBlock
  <2>7. /\ Apart(w.ino, r, w.ino, r)
        /\ Covered(r, blockBitmap \cup {b})
        /\ \A l \in Idx : r.direct[l] \in {w.inode.direct[l], b}
    BY <2>1, <2>2, <2>4, <2>6, WithBlockApart DEF r
  <2>8. TableCovered(inodeTable', blockBitmap')
    BY <1>i, <2>3 DEF TableCovered, Covered
  <2>9. ASSUME NEW j \in Inodes PROVE Apart(w.ino, r, j, inodeTable[j])
    BY <1>i, <2>4, <2>7 DEF OwnershipInv, NoSharedBlock, TableCovered, Covered, Apart
  <2>10. NoSharedBlock' /\ OneWrite' /\ \A x \in writing' : Covered(x.inode, blockBitmap')
    BY <1>i, <2>3, <2>5, <2>7, <2>9 DEF NoSharedBlock, TableApart, OneWrite
  <2>11. QED
    BY <1>t, <2>8, <2>10 DEF OwnershipInv
<1>10. ASSUME NEW w \in writing, WriteNoSpace(w)
       PROVE  OwnershipInv'
  BY <1>0, <1>10 DEF WriteNoSpace, disk
<1>11. ASSUME NEW w \in writing, WriteEnd(w)
       PROVE  OwnershipInv'
  <2>1. w.ino \in Inodes /\ w.inode \in Inode
    BY <1>t DEF TypeOK, WriteLoop
  <2>2. /\ inodeTable' = [inodeTable EXCEPT ![w.ino] = w.inode]
        /\ writing' = {}
        /\ UNCHANGED blockBitmap
    BY <1>11 DEF WriteEnd
  <2>3. TableCovered(inodeTable', blockBitmap')
    BY <1>i, <2>1, <2>2 DEF OwnershipInv, TableCovered
  <2>4. TableApart(inodeTable')
    <3> SUFFICES ASSUME NEW m \in Inodes, NEW n \in Inodes
                 PROVE  Apart(m, inodeTable'[m], n, inodeTable'[n])
      BY DEF TableApart
    <3>1. CASE m = w.ino /\ n = w.ino
      BY <1>i, <2>1, <2>2, <3>1 DEF OwnershipInv, NoSharedBlock
    <3>2. CASE m = w.ino /\ n # w.ino
      BY <1>i, <2>1, <2>2, <3>2 DEF OwnershipInv, NoSharedBlock
    <3>3. CASE m # w.ino /\ n = w.ino
      BY <1>i, <2>1, <2>2, <3>3 DEF OwnershipInv, NoSharedBlock, Apart
    <3>4. CASE m # w.ino /\ n # w.ino
      BY <1>i, <2>1, <2>2, <3>4 DEF TableApart
    <3>5. QED
      BY <3>1, <3>2, <3>3, <3>4
  <2>5. QED
    BY <1>t, <2>2, <2>3, <2>4, ReadyOwnership
<1>12. CASE Mount
  BY <1>0, <1>12 DEF Mount, disk
<1>13. CASE Unmount
  BY <1>0, <1>13 DEF Unmount, disk
<1>14. CASE Kill
  BY <1>0, <1>14 DEF Kill, disk
<1>15. CASE UNCHANGED vars
  BY <1>0, <1>15 DEF vars
<1>16. QED
  BY <1>1, <1>2, <1>3, <1>4, <1>5, <1>c, <1>6, <1>7, <1>8, <1>9, <1>10, <1>11, <1>12,
     <1>13, <1>14, <1>15 DEF Next, Open

\* A block in use is always marked in the bitmap, also while a write loop holds
\* pointers that are not on disk yet and after the process was killed anywhere.
THEOREM UsedBlocksMarked == Spec => []PointersAllocated
  BY InitOwnership, NextOwnership, OwnershipImplies, PTL DEF Spec

\* No block is ever shared by two files or directories, nor used twice by one.
THEOREM BlocksSinglyOwned == Spec => []NoSharedBlock
<1>1. OwnershipInv => NoSharedBlock
  BY DEF OwnershipInv
<1>2. QED
  BY <1>1, InitOwnership, NextOwnership, PTL DEF Spec

-----------------------------------------------------------------------------
(* blocks_used is exact in every inode and in the copy that mfs_write keeps. *)

\* Dropping pointers takes their number off both sides: the guard against an
\* underflow never bites.
LEMMA ShortenedUsed ==
    ASSUME NEW ino \in Inode, NEW drop \in SUBSET Pointers(ino), Used(ino)
    PROVE  Used(Shortened(ino, drop))
<1> DEFINE P == Pointers(ino)
<1>1. IsFiniteSet(P) /\ Cardinality(P) \in Nat /\ IsFiniteSet(drop) /\ Cardinality(drop) \in Nat
  BY IdxCardinality DEF Pointers
<1>2. Pointers(Shortened(ino, drop)) = P \ drop
  BY DEF Shortened, Pointers, Inode
<1>3. P \cap drop = drop
  OBVIOUS
<1>4. Cardinality(P \ drop) = Cardinality(P) - Cardinality(drop)
  BY <1>1, <1>3, FS_Difference
<1>5. Cardinality(P \ drop) \in Nat
  BY <1>1, FS_Difference, FS_CardinalityType
<1>6. Shortened(ino, drop).blocks_used = IF ino.blocks_used > Cardinality(drop)
                                         THEN ino.blocks_used - Cardinality(drop) ELSE 0
  BY DEF Shortened, Inode
<1> HIDE DEF P
<1>7. QED
  BY <1>1, <1>2, <1>4, <1>5, <1>6 DEF Used, P

TableUsed(it) == \A i \in Inodes : Used(it[i])

UsedInv == TypeOK /\ TableUsed(inodeTable) /\ \A w \in writing : Used(w.inode)

\* add_entry counts the block it gives a directory.
LEMMA AddEntryUsed ==
    ASSUME NEW par \in Inodes, NEW cell, NEW it \in [Inodes -> Inode], NEW bl, NEW bb, NEW s,
           TableUsed(it),
           AddEntry(par, cell, it, bl, bb, s) \/ AddEntryFails(par, it, bl, bb, s)
    PROVE  TableUsed(inodeTable')
<1>1. CASE FillSlot(par, cell, it, bl, bb, s) \/ AddEntryFails(par, it, bl, bb, s)
  BY <1>1 DEF FillSlot, AddEntryFails
<1>2. CASE GrowDir(par, cell, it, bl, bb, s)
  <2>1. PICK k \in FirstFit(Holes(it[par])), b \in FirstFit(DataBlocks \ bb) :
               inodeTable' = [it EXCEPT ![par] = WithBlock(@, k, b)]
    BY <1>2 DEF GrowDir
  <2>2. k \in Holes(it[par]) /\ b \in DataBlocks
    BY DEF FirstFit
  <2>3. Used(WithBlock(it[par], k, b))
    BY <2>2, WithBlockUsed DEF TableUsed
  <2>4. QED
    BY <2>1, <2>3 DEF TableUsed
<1>3. QED
  BY <1>1, <1>2 DEF AddEntry

\* A fresh image is counted right.
LEMMA InitUsed == Init => UsedInv
<1> SUFFICES ASSUME Init PROVE UsedInv
  OBVIOUS
<1>1. inodeTable = [i \in Inodes |-> IF i = Root THEN NewDir(DataStart) ELSE FreeInode]
  BY DEF Init
<1>2. DataStart \in DataBlocks
  BY GeometryAssumption
<1>3. TableUsed(inodeTable)
  BY <1>1, <1>2, NewUsed DEF TableUsed
<1>4. TypeOK /\ writing = {}
  BY InitType DEF Init
<1>5. QED
  BY <1>3, <1>4 DEF UsedInv

\* So does truncation.
LEMMA TruncateUsed ==
    ASSUME UsedInv, TypeOK', NEW found \in SUBSET Inodes, NEW keep, TruncateFound(found, keep)
    PROVE  UsedInv'
<1>i. /\ inodeTable \in [Inodes -> Inode]
      /\ TableUsed(inodeTable)
      /\ \A w \in writing : Used(w.inode)
  BY DEF UsedInv, TypeOK
<1> DEFINE drop(i) == {k \in Pointers(inodeTable[i]) : k >= keep}
<1>1. ASSUME NEW code, Fail(code) PROVE UsedInv'
  BY <1>1, <1>i DEF Fail, disk, UsedInv
<1>2. ASSUME NEW i \in found,
             inodeTable' = [inodeTable EXCEPT ![i] = Shortened(inodeTable[i], drop(i))],
             UNCHANGED writing
      PROVE  UsedInv'
  <2>1. i \in Inodes /\ drop(i) \in SUBSET Pointers(inodeTable[i])
    OBVIOUS
  <2> DEFINE K == drop(i)
  <2> HIDE DEF drop
  <2>2. Used(Shortened(inodeTable[i], K))
    BY <1>i, <2>1, ShortenedUsed DEF TableUsed
  <2>3. TableUsed(inodeTable')
    BY <1>i, <1>2, <2>1, <2>2 DEF TableUsed
  <2>4. QED
    BY <1>i, <1>2, <2>3 DEF UsedInv
<1>3. QED
  BY <1>1, <1>2 DEF TruncateFound

\* The count stays exact when paths are cut.
LEMMA CutUsed ==
    ASSUME UsedInv, TypeOK', NEW n \in Names, NEW at \in CutPlaces(n),
           CutCreate(n, at) \/ CutMkdir(n, at) \/ CutUnlink(n, at) \/ CutRmdir(n, at)
    PROVE  UsedInv'
<1>a. at.ino \in SUBSET Inodes /\ at.par \in SUBSET Inodes
  BY CutPlacesType
<1>i. /\ inodeTable \in [Inodes -> Inode]
      /\ TableUsed(inodeTable)
      /\ \A w \in writing : Used(w.inode)
  BY DEF UsedInv, TypeOK
<1>0. ASSUME NEW code, Fail(code) PROVE UsedInv'
  BY <1>0, <1>i DEF Fail, disk, UsedInv
<1>1. ASSUME NEW cell, NEW it \in [Inodes -> Inode], NEW bl, NEW bb, NEW s,
             TableUsed(it), CutAdd(at.par, cell, it, bl, bb, s), UNCHANGED writing
      PROVE  UsedInv'
  <2>1. CASE \E p \in at.par : AddEntry(p, cell, it, bl, bb, s) \/ AddEntryFails(p, it, bl, bb, s)
    <3>1. PICK p \in Inodes : AddEntry(p, cell, it, bl, bb, s) \/ AddEntryFails(p, it, bl, bb, s)
      BY <1>a, <2>1
    <3>2. TableUsed(inodeTable')
      BY <1>1, <3>1, AddEntryUsed
    <3>3. QED
      BY <1>1, <1>i, <3>2 DEF UsedInv
  <2>2. CASE inodeTable' = it
    BY <1>1, <1>i, <2>2 DEF UsedInv
  <2>3. QED
    BY <1>1, <2>1, <2>2 DEF CutAdd
<1>2. CASE CutCreate(n, at)
  <2>1. ASSUME NEW i \in FirstFit(Inodes \ inodeBitmap),
               CutAdd(at.par, [inode |-> i, name |-> Stored(n)],
                      [inodeTable EXCEPT ![i] = NewFile], block, blockBitmap, TakeInode(sb)),
               UNCHANGED writing
        PROVE  UsedInv'
    <3> DEFINE cell == [inode |-> i, name |-> Stored(n)]
               it == [inodeTable EXCEPT ![i] = NewFile]
    <3>1. it \in [Inodes -> Inode] /\ TableUsed(it)
      BY <1>i, ContentsType, NewUsed DEF TableUsed
    <3>2. CutAdd(at.par, cell, it, block, blockBitmap, TakeInode(sb))
      BY <2>1
    <3> HIDE DEF cell, it
    <3>3. QED
      BY <1>1, <2>1, <3>1, <3>2
  <2>2. QED
    BY <1>0, <1>2, <2>1 DEF CutCreate
<1>3. CASE CutMkdir(n, at)
  <2>1. ASSUME NEW i \in FirstFit(Inodes \ inodeBitmap),
               NEW b \in FirstFit(DataBlocks \ blockBitmap), NEW contents,
               CutAdd(at.par, [inode |-> i, name |-> Stored(n)],
                      [inodeTable EXCEPT ![i] = NewDir(b)], [block EXCEPT ![b] = contents],
                      blockBitmap \cup {b}, TakeInode(TakeBlock(sb))),
               UNCHANGED writing
        PROVE  UsedInv'
    <3>1. b \in DataBlocks
      BY DEF FirstFit
    <3> DEFINE cell == [inode |-> i, name |-> Stored(n)]
               it == [inodeTable EXCEPT ![i] = NewDir(b)]
               bl == [block EXCEPT ![b] = contents]
               bb == blockBitmap \cup {b}
               s  == TakeInode(TakeBlock(sb))
    <3>2. it \in [Inodes -> Inode] /\ TableUsed(it)
      BY <1>i, <3>1, ContentsType, NewUsed DEF TableUsed
    <3>3. CutAdd(at.par, cell, it, bl, bb, s)
      BY <2>1
    <3> HIDE DEF cell, it, bl, bb, s
    <3>4. QED
      BY <1>1, <2>1, <3>2, <3>3
  <2>2. QED
    BY <1>0, <1>3, <2>1 DEF CutMkdir
<1>4. CASE CutUnlink(n, at) \/ CutRmdir(n, at)
  <2>1. ASSUME NEW i \in at.ino, CutDiscard(n, i, at.par) PROVE UsedInv'
    BY <1>i, <2>1, NewUsed DEF UsedInv, TableUsed, CutDiscard
  <2>2. QED
    BY <1>0, <1>4, <2>1 DEF CutUnlink, CutRmdir
<1>5. QED
  BY <1>2, <1>3, <1>4

\* Every callback and every event keeps blocks_used exact.
LEMMA NextUsed == UsedInv /\ [Next]_vars => UsedInv'
<1> SUFFICES ASSUME UsedInv, [Next]_vars PROVE UsedInv'
  OBVIOUS
<1>t. TypeOK /\ TypeOK'
  BY NextType DEF UsedInv
<1>i. /\ inodeTable \in [Inodes -> Inode]
      /\ TableUsed(inodeTable)
      /\ \A w \in writing : Used(w.inode)
  BY DEF UsedInv, TypeOK
<1>0. ASSUME UNCHANGED inodeTable, writing' \subseteq writing
      PROVE  UsedInv'
  BY <1>0, <1>t, <1>i DEF UsedInv
<1>1. ASSUME NEW par \in Inodes, NEW n \in Names, Create(par, n)
      PROVE  UsedInv'
  <2>1. CASE CreateRefused(par, n)
    BY <2>1, <1>0 DEF CreateRefused, Fail, disk
  <2>2. ASSUME NEW i \in FirstFit(Inodes \ inodeBitmap), CreateNew(par, n, i)
        PROVE  UsedInv'
    <3> DEFINE cell == [inode |-> i, name |-> Stored(n)]
               it == [inodeTable EXCEPT ![i] = NewFile]
    <3>1. it \in [Inodes -> Inode] /\ TableUsed(it)
      BY <1>i, ContentsType, NewUsed DEF TableUsed
    <3>2. \/ AddEntry(par, cell, it, block, blockBitmap, TakeInode(sb))
          \/ AddEntryFails(par, it, block, blockBitmap, TakeInode(sb))
      BY <2>2 DEF CreateNew
    <3> HIDE DEF cell, it
    <3>3. TableUsed(inodeTable')
      BY <1>1, <3>1, <3>2, AddEntryUsed
    <3>4. QED
      BY <1>t, <1>i, <2>2, <3>3 DEF UsedInv, CreateNew
  <2>3. QED
    BY <1>1, <2>1, <2>2 DEF Create
<1>2. ASSUME NEW par \in Inodes, NEW n \in Names, Mkdir(par, n)
      PROVE  UsedInv'
  <2>1. CASE MkdirRefused(par, n)
    BY <2>1, <1>0 DEF MkdirRefused, Fail, disk
  <2>2. ASSUME NEW i \in FirstFit(Inodes \ inodeBitmap),
               NEW b \in FirstFit(DataBlocks \ blockBitmap), MkdirNew(par, n, i, b)
        PROVE  UsedInv'
    <3> DEFINE cell == [inode |-> i, name |-> Stored(n)]
               it == [inodeTable EXCEPT ![i] = NewDir(b)]
               bl == [block EXCEPT ![b] = DotsBlock(i, par)]
               bb == blockBitmap \cup {b}
               s  == TakeInode(TakeBlock(sb))
    <3>1. b \in DataBlocks
      BY DEF FirstFit
    <3>2. it \in [Inodes -> Inode] /\ TableUsed(it)
      BY <1>i, <3>1, ContentsType, NewUsed DEF TableUsed
    <3>3. AddEntry(par, cell, it, bl, bb, s) \/ AddEntryFails(par, it, bl, bb, s)
      BY <2>2 DEF MkdirNew
    <3> HIDE DEF cell, it, bl, bb, s
    <3>4. TableUsed(inodeTable')
      BY <1>2, <3>2, <3>3, AddEntryUsed
    <3>5. QED
      BY <1>t, <1>i, <2>2, <3>4 DEF UsedInv, MkdirNew
  <2>3. QED
    BY <1>2, <2>1, <2>2 DEF Mkdir
<1>3. ASSUME NEW par \in Inodes, NEW n \in Names, Unlink(par, n) \/ Rmdir(par, n)
      PROVE  UsedInv'
  <2>1. ASSUME NEW code, Fail(code) PROVE UsedInv'
    BY <1>0, <2>1 DEF Fail, disk
  <2>2. ASSUME NEW i, Discard(par, n, i) PROVE UsedInv'
    BY <1>t, <1>i, <2>2, NewUsed DEF UsedInv, TableUsed, Discard
  <2>3. QED
    BY <1>3, <2>1, <2>2 DEF Unlink, Rmdir
<1>4. ASSUME NEW found, OpenFound(found)
      PROVE  UsedInv'
  BY <1>0, <1>4 DEF OpenFound, Fail, disk
<1>5. ASSUME NEW par \in Inodes, NEW n \in Names, NEW keep \in 0 .. DirectBlocks,
             Truncate(par, n, keep)
      PROVE  UsedInv'
  <2>1. Lookup(inodeTable, block, par, n) \in SUBSET Inodes
    BY <1>t, LookupType DEF TypeOK
  <2>2. QED
    BY <1>5, <1>t, <2>1, TruncateUsed DEF Truncate
<1>c. ASSUME NEW n \in Names, NEW at \in CutPlaces(n),
             \/ CutCreate(n, at) \/ CutMkdir(n, at) \/ CutUnlink(n, at) \/ CutRmdir(n, at)
             \/ OpenFound(at.ino)
             \/ \E keep \in 0 .. DirectBlocks : TruncateFound(at.ino, keep)
      PROVE  UsedInv'
  BY <1>t, <1>4, <1>c, CutPlacesType, CutUsed, TruncateUsed
<1>6. ASSUME NEW i \in Inodes, Release(i)
      PROVE  UsedInv'
  BY <1>0, <1>6 DEF Release, disk
<1>7. ASSUME NEW i \in Inodes, NEW first, NEW last, WriteBegin(i, first, last)
      PROVE  UsedInv'
  <2>1. CASE Fail("EISDIR")
    BY <1>0, <2>1 DEF Fail, disk
  <2>2. CASE inodeTable[i].type = "FILE"
    <3>1. /\ writing' = {[ino |-> i, inode |-> inodeTable[i],
                          first |-> first, next |-> first, last |-> last]}
          /\ UNCHANGED inodeTable
      BY <1>7, <2>2 DEF WriteBegin, disk
    <3>2. QED
      BY <1>t, <1>i, <3>1 DEF UsedInv, TableUsed
  <2>3. QED
    BY <1>7, <2>1, <2>2 DEF WriteBegin
<1>8. ASSUME NEW w \in writing, WriteInPlace(w)
      PROVE  UsedInv'
  <2>1. w \in WriteLoop
    BY <1>t DEF TypeOK
  <2> DEFINE n == w.next + 1
             v == [w EXCEPT !.next = n]
  <2>2. writing' = {v} /\ UNCHANGED inodeTable
    BY <1>8 DEF WriteInPlace
  <2> HIDE DEF n
  <2>3. v.inode = w.inode
    BY <2>1 DEF WriteLoop
  <2> HIDE DEF v
  <2>4. QED
    BY <1>t, <1>i, <2>2, <2>3 DEF UsedInv
<1>9. ASSUME NEW w \in writing, WriteAlloc(w)
      PROVE  UsedInv'
  <2>1. w \in WriteLoop /\ w.inode \in Inode
    BY <1>t DEF TypeOK, WriteLoop
  <2>2. w.next \in Holes(w.inode)
    BY <1>9, <2>1, GeometryAssumption DEF WriteAlloc, InLoop, WriteLoop, Holes
  <2>3. PICK b \in FirstFit(DataBlocks \ blockBitmap) :
           writing' = {[w EXCEPT !.next = @ + 1, !.inode = WithBlock(@, w.next, b)]}
    BY <1>9 DEF WriteAlloc
  <2>4. b \in DataBlocks
    BY DEF FirstFit
  <2> DEFINE r == WithBlock(w.inode, w.next, b)
             n == w.next + 1
             v == [w EXCEPT !.next = n, !.inode = r]
  <2>5. writing' = {v}
    BY <2>3
  <2>6. Used(r)
    BY <1>i, <2>1, <2>2, <2>4, WithBlockUsed
  <2> HIDE DEF n, r
  <2>7. v.inode = r
    BY <2>1 DEF WriteLoop
  <2> HIDE DEF v
  <2>8. QED
    BY <1>t, <1>i, <1>9, <2>5, <2>6, <2>7 DEF UsedInv, WriteAlloc
<1>10. ASSUME NEW w \in writing, WriteNoSpace(w)
       PROVE  UsedInv'
  BY <1>0, <1>10 DEF WriteNoSpace, disk
<1>11. ASSUME NEW w \in writing, WriteEnd(w)
       PROVE  UsedInv'
  BY <1>t, <1>i, <1>11 DEF UsedInv, TableUsed, WriteEnd
<1>12. CASE Mount \/ Unmount \/ Kill
  BY <1>0, <1>12 DEF Mount, Unmount, Kill, disk
<1>13. CASE UNCHANGED vars
  BY <1>0, <1>13 DEF vars
<1>14. QED
  BY <1>1, <1>2, <1>3, <1>4, <1>5, <1>c, <1>6, <1>7, <1>8, <1>9, <1>10, <1>11, <1>12,
     <1>13 DEF Next, Open

\* st_blocks never lies: the count in every inode, and in the copy a write is
\* about to store, is the number of its pointers.
THEOREM UsedCountExact == Spec => []BlocksUsedExact
<1>1. UsedInv => BlocksUsedExact
  BY DEF UsedInv, TableUsed, Used, BlocksUsedExact
<1>2. QED
  BY <1>1, InitUsed, NextUsed, PTL DEF Spec

-----------------------------------------------------------------------------
(* Entries: an inode's bit and its type agree, every entry resolves to an   *)
(* inode of its own, open handles name files that keep their entries.  The  *)
(* invariant speaks of entries by directory and position, not by the set    *)
(* Links: what an action does to one slot is then a fact about one pair.    *)

Where == Idx \X Slots

\* Directory d of table it has a named entry at p, "." and ".." apart.
HasEntry(it, bl, d, p) ==
    /\ it[d].type = "DIR"
    /\ p \in Positions(it[d])
    /\ CellAt(it[d], bl, p).name \notin {NoName, Dot, DotDot}

Target(it, bl, d, p) == CellAt(it[d], bl, p).inode

Resolve(it, bl, ib) ==
    \A d \in Inodes, p \in Where :
        HasEntry(it, bl, d, p) => Target(it, bl, d, p) # Root /\ Target(it, bl, d, p) \in ib

Single(it, bl) ==
    \A d, e \in Inodes : \A p, q \in Where :
        /\ HasEntry(it, bl, d, p)
        /\ HasEntry(it, bl, e, q)
        /\ Target(it, bl, d, p) = Target(it, bl, e, q)
        => d = e /\ p = q

Named(it, bl, i) ==
    \E d \in Inodes, p \in Where : HasEntry(it, bl, d, p) /\ Target(it, bl, d, p) = i

Agrees(it, ib) == \A i \in Inodes : i \in ib <=> it[i].type # "FREE"

Handles ==
    /\ \A i \in opened : inodeTable[i].type = "FILE" /\ Named(inodeTable, block, i)
    /\ \A w \in writing : w.ino \in opened /\ w.inode.type = "FILE"

EntryInv ==
    /\ OwnershipInv
    /\ Root \in inodeBitmap
    /\ Agrees(inodeTable, inodeBitmap)
    /\ Resolve(inodeTable, block, inodeBitmap)
    /\ Single(inodeTable, block)
    /\ Handles

-----------------------------------------------------------------------------
(* What the invariant says of the views the properties are stated in *)

\* The links are the entries.
LEMMA LinksAreEntries ==
    ASSUME NEW l
    PROVE  l \in Links <=> \E d \in Inodes, p \in Where :
                              /\ HasEntry(inodeTable, block, d, p)
                              /\ l = <<d, p, Target(inodeTable, block, d, p)>>
  BY DEF Links, DirInodes, EntriesOf, EntryAt, HasEntry, Target, Where, Positions, Pointers

\* So they are after a step.
LEMMA LinksAreEntriesNext ==
    ASSUME NEW l
    PROVE  l \in Links' <=> \E d \in Inodes, p \in Where :
                              /\ HasEntry(inodeTable', block', d, p)
                              /\ l = <<d, p, Target(inodeTable', block', d, p)>>
  BY DEF Links, DirInodes, EntriesOf, EntryAt, HasEntry, Target, Where, Positions, Pointers

\* An inode is linked if some entry names it.
LEMMA LinkedIsNamed ==
    ASSUME NEW i
    PROVE  /\ i \in Linked <=> Named(inodeTable, block, i)
           /\ i \in Linked' <=> Named(inodeTable', block', i)
<1>1. i \in Linked <=> Named(inodeTable, block, i)
  <2>1. ASSUME NEW l \in Links, l[3] = i PROVE Named(inodeTable, block, i)
    BY <2>1, LinksAreEntries DEF Named
  <2>2. ASSUME NEW d \in Inodes, NEW p \in Where, HasEntry(inodeTable, block, d, p),
               Target(inodeTable, block, d, p) = i
        PROVE  <<d, p, i>> \in Links /\ <<d, p, i>>[3] = i
    BY <2>2, LinksAreEntries
  <2>3. QED
    BY <2>1, <2>2 DEF Linked, Named
<1>2. i \in Linked' <=> Named(inodeTable', block', i)
  <2>1. ASSUME NEW l \in Links', l[3] = i PROVE Named(inodeTable', block', i)
    BY <2>1, LinksAreEntriesNext DEF Named
  <2>2. ASSUME NEW d \in Inodes, NEW p \in Where, HasEntry(inodeTable', block', d, p),
               Target(inodeTable', block', d, p) = i
        PROVE  <<d, p, i>> \in Links' /\ <<d, p, i>>[3] = i
    BY <2>2, LinksAreEntriesNext
  <2>3. QED
    BY <2>1, <2>2 DEF Linked, Named
<1>3. QED
  BY <1>1, <1>2

\* The invariant implies the properties.
LEMMA EntryImplies == EntryInv => BitmapAgrees /\ EntriesResolve /\ HandlesValid
<1> SUFFICES ASSUME EntryInv PROVE BitmapAgrees /\ EntriesResolve /\ HandlesValid
  OBVIOUS
<1>1. BitmapAgrees
  BY DEF EntryInv, Agrees, BitmapAgrees
<1>2. ASSUME NEW l \in Links
      PROVE  l[3] # Root /\ l[3] \in inodeBitmap /\ inodeTable[l[3]].type # "FREE"
  <2>1. PICK d \in Inodes, p \in Where : /\ HasEntry(inodeTable, block, d, p)
                                         /\ l = <<d, p, Target(inodeTable, block, d, p)>>
    BY LinksAreEntries
  <2>2. l[3] # Root /\ l[3] \in inodeBitmap
    BY <2>1 DEF EntryInv, Resolve
  <2>3. l[3] \in Inodes
    BY <2>2 DEF EntryInv, OwnershipInv, TypeOK
  <2>4. QED
    BY <2>2, <2>3 DEF EntryInv, Agrees
<1>3. ASSUME NEW l \in Links, NEW m \in Links, l[3] = m[3] PROVE l = m
  <2>1. PICK d \in Inodes, p \in Where : /\ HasEntry(inodeTable, block, d, p)
                                         /\ l = <<d, p, Target(inodeTable, block, d, p)>>
    BY LinksAreEntries
  <2>2. PICK e \in Inodes, q \in Where : /\ HasEntry(inodeTable, block, e, q)
                                         /\ m = <<e, q, Target(inodeTable, block, e, q)>>
    BY LinksAreEntries
  <2>3. d = e /\ p = q
    BY <1>3, <2>1, <2>2 DEF EntryInv, Single
  <2>4. QED
    BY <2>1, <2>2, <2>3
<1>4. ASSUME NEW i \in opened PROVE inodeTable[i].type = "FILE" /\ i \in Linked
  BY LinkedIsNamed DEF EntryInv, Handles
<1>5. QED
  BY <1>1, <1>2, <1>3, <1>4 DEF EntriesResolve, HandlesValid, EntryInv, Handles

-----------------------------------------------------------------------------
(* What writing one slot, and adding an entry, does to the entries *)

\* The first position is one.
LEMMA FirstPosUnique ==
    ASSUME NEW P \in SUBSET Where, NEW p \in FirstPos(P), NEW q \in FirstPos(P)
    PROVE  p = q
<1>1. p \in Where /\ q \in Where /\ Before(p, q) /\ Before(q, p)
  BY DEF FirstPos
<1>2. p[1] = q[1] /\ p[2] = q[2]
  BY <1>1, GeometryAssumption DEF Before, Where
<1>3. QED
  BY <1>1, <1>2 DEF Where

\* Every position is a pair, and lies in a block its directory points to.
LEMMA PositionWhere ==
    ASSUME NEW it \in [Inodes -> Inode], NEW d \in Inodes, NEW p \in Positions(it[d])
    PROVE  /\ p \in Where /\ p[1] \in Idx /\ p[2] \in Slots
           /\ it[d].direct[p[1]] \in DataBlocks
           /\ it[d].direct[p[1]] # NoBlock
  BY GeometryAssumption DEF Positions, Pointers, Inode, Where

\* No two positions lie in one slot, as no two pointers name one block.
LEMMA SlotsApart ==
    ASSUME NEW it \in [Inodes -> Inode], TableApart(it),
           NEW d \in Inodes, NEW p \in Positions(it[d]),
           NEW e \in Inodes, NEW q \in Positions(it[e]),
           it[d].direct[p[1]] = it[e].direct[q[1]], p[2] = q[2]
    PROVE  d = e /\ p = q
<1>1. p \in Where /\ q \in Where /\ p[1] \in Idx /\ q[1] \in Idx /\ it[d].direct[p[1]] # NoBlock
  BY PositionWhere
<1>2. d = e /\ p[1] = q[1]
  BY <1>1 DEF TableApart, Apart
<1>3. QED
  BY <1>1, <1>2 DEF Where

\* bl2 is bl with cell at position q of directory e.
Wrote(it, bl, bl2, e, q, cell) == bl2 = [bl EXCEPT ![it[e].direct[q[1]]][q[2]] = cell]

\* Of all positions of all directories only q of e reads differently in bl2.
OnlyCell(it, bl, bl2, e, q, cell) ==
    \A d \in Inodes : \A p \in Positions(it[d]) :
        /\ d = e /\ p = q => CellAt(it[d], bl2, p) = cell
        /\ ~(d = e /\ p = q) => CellAt(it[d], bl2, p) = CellAt(it[d], bl, p)

\* Writing a slot changes the cell at one position only.
LEMMA OneCell ==
    ASSUME NEW it \in [Inodes -> Inode], NEW bl \in [DataBlocks -> [Slots -> Cell]],
           TableApart(it), NEW e \in Inodes, NEW q \in Positions(it[e]), NEW cell, NEW bl2,
           Wrote(it, bl, bl2, e, q, cell)
    PROVE  OnlyCell(it, bl, bl2, e, q, cell)
<1> SUFFICES ASSUME NEW d \in Inodes, NEW p \in Positions(it[d])
             PROVE  /\ d = e /\ p = q => CellAt(it[d], bl2, p) = cell
                    /\ ~(d = e /\ p = q) => CellAt(it[d], bl2, p) = CellAt(it[d], bl, p)
  BY DEF OnlyCell
<1>1. /\ p[2] \in Slots /\ it[d].direct[p[1]] \in DataBlocks
      /\ q[2] \in Slots /\ it[e].direct[q[1]] \in DataBlocks
  BY PositionWhere
<1>2. ASSUME it[d].direct[p[1]] = it[e].direct[q[1]], p[2] = q[2]
      PROVE  d = e /\ p = q
  BY <1>2, SlotsApart
<1> DEFINE x == it[d].direct[p[1]]
           y == it[e].direct[q[1]]
<1>3. x \in DataBlocks /\ y \in DataBlocks /\ bl2 = [bl EXCEPT ![y][q[2]] = cell]
  BY <1>1 DEF Wrote
<1> HIDE DEF x, y
<1>4. bl2[x][p[2]] = IF x = y /\ p[2] = q[2] THEN cell ELSE bl[x][p[2]]
  <2>1. CASE x = y
    <3>1. bl2[x] = [bl[x] EXCEPT ![q[2]] = cell] /\ bl[x] \in [Slots -> Cell]
      BY <1>3, <2>1
    <3>2. QED
      BY <1>1, <2>1, <3>1
  <2>2. CASE x # y
    <3>1. bl2[x] = bl[x]
      BY <1>3, <2>2
    <3>2. QED
      BY <2>2, <3>1
  <2>3. QED
    BY <2>1, <2>2
<1>5. CellAt(it[d], bl2, p) = bl2[x][p[2]] /\ CellAt(it[d], bl, p) = bl[x][p[2]]
  BY DEF CellAt, x
<1>6. x = y /\ p[2] = q[2] => d = e /\ p = q
  BY <1>2 DEF x, y
<1>7. d = e /\ p = q => x = y /\ p[2] = q[2]
  BY DEF x, y
<1>8. QED
  BY <1>4, <1>5, <1>6, <1>7

\* Nothing changes about entries.
SameEntries(it, bl, it2, bl2) ==
    \A d \in Inodes, p \in Where :
        /\ HasEntry(it2, bl2, d, p) <=> HasEntry(it, bl, d, p)
        /\ HasEntry(it, bl, d, p) => Target(it2, bl2, d, p) = Target(it, bl, d, p)

\* One entry is new, at position q of par.
OneMore(it, bl, it2, bl2, par, q, i) ==
    /\ ~HasEntry(it, bl, par, q)
    /\ HasEntry(it2, bl2, par, q) => Target(it2, bl2, par, q) = i
    /\ \A d \in Inodes, p \in Where : ~(d = par /\ p = q) =>
          /\ HasEntry(it2, bl2, d, p) <=> HasEntry(it, bl, d, p)
          /\ HasEntry(it, bl, d, p) => Target(it2, bl2, d, p) = Target(it, bl, d, p)

SameTypes(it, it2) == \A d \in Inodes : it2[d].type = it[d].type

\* A step frees no inode that keeps an entry, and takes no entry from an inode
\* that stays; one that returns an error changes no entry.
EntryStep ==
    /\ EntryInv'
    /\ \A i \in inodeBitmap' : Named(inodeTable, block, i) => Named(inodeTable', block', i)
    /\ rc' # "OK" => SameEntries(inodeTable, block, inodeTable', block')

\* Where entries stay, all that is said of them stays.
LEMMA SameKeep ==
    ASSUME NEW it, NEW bl, NEW it2, NEW bl2, NEW ib, SameEntries(it, bl, it2, bl2)
    PROVE  /\ Resolve(it, bl, ib) => Resolve(it2, bl2, ib)
           /\ Single(it, bl) => Single(it2, bl2)
           /\ \A i : Named(it, bl, i) => Named(it2, bl2, i)
<1>1. Resolve(it, bl, ib) => Resolve(it2, bl2, ib)
  BY DEF SameEntries, Resolve
<1>2. Single(it, bl) => Single(it2, bl2)
  BY DEF SameEntries, Single
<1>3. ASSUME NEW i, Named(it, bl, i) PROVE Named(it2, bl2, i)
  BY <1>3 DEF SameEntries, Named
<1>4. QED
  BY <1>1, <1>2, <1>3

\* A new entry for an inode that had no bit resolves, to an inode of its own.
LEMMA OneMoreKeep ==
    ASSUME NEW it, NEW bl, NEW it2, NEW bl2, NEW ib, NEW par \in Inodes, NEW q \in Where,
           NEW i, i \notin ib, i # Root, OneMore(it, bl, it2, bl2, par, q, i),
           Resolve(it, bl, ib), Single(it, bl)
    PROVE  /\ Resolve(it2, bl2, ib \cup {i})
           /\ Single(it2, bl2)
           /\ \A j : Named(it, bl, j) => Named(it2, bl2, j)
<1>1. ASSUME NEW d \in Inodes, NEW p \in Where, HasEntry(it2, bl2, d, p)
      PROVE  \/ d = par /\ p = q /\ Target(it2, bl2, d, p) = i
             \/ /\ HasEntry(it, bl, d, p)
                /\ Target(it2, bl2, d, p) = Target(it, bl, d, p)
                /\ Target(it, bl, d, p) # Root /\ Target(it, bl, d, p) \in ib
  BY <1>1 DEF OneMore, Resolve
<1>2. Resolve(it2, bl2, ib \cup {i})
  BY <1>1 DEF Resolve
<1>3. Single(it2, bl2)
  <2> SUFFICES ASSUME NEW d \in Inodes, NEW e \in Inodes, NEW p \in Where, NEW r \in Where,
                      HasEntry(it2, bl2, d, p), HasEntry(it2, bl2, e, r),
                      Target(it2, bl2, d, p) = Target(it2, bl2, e, r)
               PROVE  d = e /\ p = r
    BY DEF Single
  <2>1. CASE Target(it2, bl2, d, p) = i
    BY <1>1, <2>1
  <2>2. CASE Target(it2, bl2, d, p) # i
    BY <1>1, <2>2 DEF Single
  <2>3. QED
    BY <2>1, <2>2
<1>4. ASSUME NEW j, Named(it, bl, j) PROVE Named(it2, bl2, j)
  <2>1. PICK d \in Inodes, p \in Where : HasEntry(it, bl, d, p) /\ Target(it, bl, d, p) = j
    BY <1>4 DEF Named
  <2>2. ~(d = par /\ p = q)
    BY <2>1 DEF OneMore
  <2>3. HasEntry(it2, bl2, d, p) /\ Target(it2, bl2, d, p) = j
    BY <2>1, <2>2 DEF OneMore
  <2>4. QED
    BY <2>3 DEF Named
<1>5. QED
  BY <1>2, <1>3, <1>4

\* Giving a directory a pointer changes no other field and no other pointer.
LEMMA WithBlockFields ==
    ASSUME NEW ino \in Inode, NEW k \in Idx, NEW b \in DataBlocks
    PROVE  /\ WithBlock(ino, k, b).type = ino.type
           /\ \A l \in Idx : WithBlock(ino, k, b).direct[l] = IF l = k THEN b ELSE ino.direct[l]
  BY DEF WithBlock, Inode

\* add_entry makes the new entry and disturbs no other, whether it fills a slot
\* or gives the directory a block.
LEMMA AddEntryOneMore ==
    ASSUME NEW par \in Inodes, NEW cell \in Cell, NEW it \in [Inodes -> Inode],
           NEW bl \in [DataBlocks -> [Slots -> Cell]], NEW bb, NEW s,
           it[par].type = "DIR", TableCovered(it, bb), TableApart(it),
           AddEntry(par, cell, it, bl, bb, s)
    PROVE  /\ SameTypes(it, inodeTable')
           /\ \E q \in Where : OneMore(it, bl, inodeTable', block', par, q, cell.inode)
<1>1. CASE FillSlot(par, cell, it, bl, bb, s)
  <2>1. inodeTable' = it
    BY <1>1 DEF FillSlot
  <2>2. PICK q \in FirstPos(FreeSlots(it[par], bl)) :
               block' = [bl EXCEPT ![it[par].direct[q[1]]][q[2]] = cell]
    BY <1>1 DEF FillSlot
  <2>3. q \in Positions(it[par]) /\ CellAt(it[par], bl, q).name = NoName
    BY <2>2 DEF FirstPos, FreeSlots
  <2>4. q \in Where
    BY <2>3, PositionWhere
  <2>5. ~HasEntry(it, bl, par, q)
    BY <2>3 DEF HasEntry
  <2>6. OnlyCell(it, bl, block', par, q, cell)
    <3>1. Wrote(it, bl, block', par, q, cell)
      BY <2>2 DEF Wrote
    <3>2. QED
      BY <3>1, <2>3, OneCell
  <2>7. OneMore(it, bl, it, block', par, q, cell.inode)
    BY <2>3, <2>5, <2>6 DEF OnlyCell, OneMore, HasEntry, Target
  <2>8. QED
    BY <2>1, <2>4, <2>7 DEF SameTypes
<1>2. CASE GrowDir(par, cell, it, bl, bb, s)
  <2>1. PICK k \in FirstFit(Holes(it[par])), b \in FirstFit(DataBlocks \ bb) :
               /\ block' = [bl EXCEPT ![b] = [ZeroBlock EXCEPT ![0] = cell]]
               /\ inodeTable' = [it EXCEPT ![par] = WithBlock(@, k, b)]
    BY <1>2 DEF GrowDir
  <2>2. k \in Idx /\ it[par].direct[k] = NoBlock /\ b \in DataBlocks /\ b \notin bb /\ b # NoBlock
    BY GeometryAssumption DEF FirstFit, Holes
  <2> DEFINE q == <<k, 0>>
             r == WithBlock(it[par], k, b)
  <2>3. r.type = "DIR" /\ \A l \in Idx : r.direct[l] = IF l = k THEN b ELSE it[par].direct[l]
    BY <2>2, WithBlockFields
  <2>4. inodeTable' = [it EXCEPT ![par] = r]
    BY <2>1
  <2> HIDE DEF r
  <2>5. q \in Where /\ q \notin Positions(it[par])
    BY <2>2, GeometryAssumption DEF Where, Positions, Pointers
  <2>6. ~HasEntry(it, bl, par, q)
    BY <2>5 DEF HasEntry
  <2>7. CellAt(r, block', q) = cell
    <3>1. r.direct[q[1]] = b /\ q[2] = 0
      BY <2>2, <2>3
    <3>2. block'[b] = [ZeroBlock EXCEPT ![0] = cell]
      BY <2>1, <2>2
    <3>3. 0 \in Slots
      BY GeometryAssumption
    <3>4. block'[b][0] = cell
      BY <3>2, <3>3 DEF ZeroBlock
    <3>5. QED
      BY <3>1, <3>4 DEF CellAt
  <2>8. ASSUME NEW d \in Inodes, NEW p \in Positions(it[d])
        PROVE  it[d].direct[p[1]] \in DataBlocks /\ block'[it[d].direct[p[1]]] = bl[it[d].direct[p[1]]]
    <3>1. p[1] \in Idx /\ it[d].direct[p[1]] \in DataBlocks /\ it[d].direct[p[1]] # NoBlock
      BY PositionWhere
    <3>2. it[d].direct[p[1]] \in bb
      BY <3>1 DEF TableCovered, Covered
    <3>3. QED
      BY <2>1, <2>2, <3>1, <3>2
  <2>9. ASSUME NEW d \in Inodes, NEW p \in Where, ~(d = par /\ p = q)
        PROVE  /\ HasEntry(inodeTable', block', d, p) <=> HasEntry(it, bl, d, p)
               /\ HasEntry(it, bl, d, p) =>
                      Target(inodeTable', block', d, p) = Target(it, bl, d, p)
    <3>1. CASE d # par
      <4>1. inodeTable'[d] = it[d]
        BY <2>4, <3>1
      <4>2. p \in Positions(it[d]) => CellAt(it[d], block', p) = CellAt(it[d], bl, p)
        BY <2>8 DEF CellAt
      <4>3. QED
        BY <4>1, <4>2 DEF HasEntry, Target
    <3>2. CASE d = par /\ p[1] # k
      <4>1. inodeTable'[d] = r
        BY <2>4, <3>2
      <4>2. p[1] \in Idx /\ r.direct[p[1]] = it[par].direct[p[1]]
        BY <2>3, <3>2 DEF Where
      <4>3. p \in Positions(r) <=> p \in Positions(it[par])
        BY <4>2 DEF Positions, Pointers, Where
      <4>4. p \in Positions(it[par]) => CellAt(r, block', p) = CellAt(it[par], bl, p)
        BY <2>8, <4>2 DEF CellAt
      <4>5. QED
        BY <2>3, <3>2, <4>1, <4>3, <4>4 DEF HasEntry, Target
    <3>3. CASE d = par /\ p[1] = k
      <4>1. p[2] \in Slots /\ p[2] # 0
        BY <2>9, <3>3 DEF Where
      <4>2. p \notin Positions(it[par])
        BY <2>2, <3>3 DEF Positions, Pointers
      <4>3. CellAt(r, block', p) = FreeCell
        BY <2>1, <2>2, <2>3, <3>3, <4>1, ContentsType DEF CellAt, ZeroBlock
      <4>4. CellAt(r, block', p).name = NoName
        BY <4>3 DEF FreeCell
      <4>5. QED
        BY <2>4, <3>3, <4>2, <4>4 DEF HasEntry
    <3>4. QED
      BY <3>1, <3>2, <3>3
  <2>10. Target(inodeTable', block', par, q) = cell.inode
    BY <2>4, <2>7 DEF Target
  <2> HIDE DEF q
  <2>11. OneMore(it, bl, inodeTable', block', par, q, cell.inode)
    BY <2>6, <2>9, <2>10 DEF OneMore
  <2>12. SameTypes(it, inodeTable')
    BY <2>3, <2>4 DEF SameTypes
  <2>13. QED
    BY <2>5, <2>11, <2>12 DEF q
<1>3. QED
  BY <1>1, <1>2 DEF AddEntry

\* unlink and rmdir take away the entry of the inode they free and whatever
\* that inode held, and no other entry.
LEMMA DiscardEntries ==
    ASSUME EntryInv, NEW par \in Inodes, NEW n \in Names,
           NEW i \in Lookup(inodeTable, block, par, n), inodeTable[par].type = "DIR",
           Discard(par, n, i)
    PROVE  /\ i \in Inodes /\ i # Root
           /\ \A d \in Inodes, p \in Where :
                 HasEntry(inodeTable', block', d, p) <=>
                     /\ HasEntry(inodeTable, block, d, p)
                     /\ d # i
                     /\ Target(inodeTable, block, d, p) # i
           /\ \A d \in Inodes, p \in Where :
                 HasEntry(inodeTable', block', d, p) =>
                     Target(inodeTable', block', d, p) = Target(inodeTable, block, d, p)
<1>t. /\ inodeTable \in [Inodes -> Inode] /\ block \in [DataBlocks -> [Slots -> Cell]]
      /\ TableApart(inodeTable)
  BY DEF EntryInv, OwnershipInv, TypeOK, NoSharedBlock, TableApart
<1>1. PICK q \in FirstPos(Matches(inodeTable[par], block, n)) :
               i = CellAt(inodeTable[par], block, q).inode
  BY DEF Lookup
<1>2. PICK r \in FirstPos(Matches(inodeTable[par], block, n)) :
               block' = [block EXCEPT ![inodeTable[par].direct[r[1]]][r[2]] = FreeCell]
  BY DEF Discard, DirRemoveEntry
<1>3. r = q
  <2>1. Matches(inodeTable[par], block, n) \in SUBSET Where
    BY <1>t, PositionWhere DEF Matches
  <2>2. QED
    BY <2>1, FirstPosUnique
<1>4. q \in Positions(inodeTable[par]) /\ CellAt(inodeTable[par], block, q).name = n
  BY <1>1 DEF FirstPos, Matches
<1>5. q \in Where /\ HasEntry(inodeTable, block, par, q) /\ Target(inodeTable, block, par, q) = i
  <2>1. n \notin {NoName, Dot, DotDot}
    BY NameAssumption DEF Names
  <2>2. q \in Where
    BY <1>t, <1>4, PositionWhere
  <2>3. QED
    BY <1>1, <1>4, <2>1, <2>2 DEF HasEntry, Target
<1>6. i \in Inodes /\ i # Root
  BY <1>5 DEF EntryInv, Resolve, OwnershipInv, TypeOK
<1>7. OnlyCell(inodeTable, block, block', par, q, FreeCell)
  <2>1. Wrote(inodeTable, block, block', par, q, FreeCell)
    BY <1>2, <1>3 DEF Wrote
  <2>2. QED
    BY <1>t, <1>4, <2>1, OneCell
<1>8. inodeTable' = [inodeTable EXCEPT ![i] = FreeInode]
  BY DEF Discard
<1>9. ASSUME NEW d \in Inodes, NEW p \in Where
      PROVE  /\ HasEntry(inodeTable', block', d, p) <=>
                    /\ HasEntry(inodeTable, block, d, p)
                    /\ d # i
                    /\ Target(inodeTable, block, d, p) # i
             /\ HasEntry(inodeTable', block', d, p) =>
                    Target(inodeTable', block', d, p) = Target(inodeTable, block, d, p)
  <2>1. CASE d = i
    <3>1. inodeTable'[d].type = "FREE"
      BY <1>t, <1>8, <2>1 DEF FreeInode
    <3>2. QED
      BY <2>1, <3>1 DEF HasEntry
  <2>2. CASE d # i /\ d = par /\ p = q
    <3>1. CellAt(inodeTable[d], block', p).name = NoName
      BY <1>4, <1>7, <2>2 DEF OnlyCell, FreeCell
    <3>2. inodeTable'[d] = inodeTable[d]
      BY <1>t, <1>8, <2>2
    <3>3. QED
      BY <1>5, <2>2, <3>1, <3>2 DEF HasEntry
  <2>3. CASE d # i /\ ~(d = par /\ p = q)
    <3>1. inodeTable'[d] = inodeTable[d]
      BY <1>t, <1>8, <2>3
    <3>2. p \in Positions(inodeTable[d]) =>
             CellAt(inodeTable[d], block', p) = CellAt(inodeTable[d], block, p)
      BY <1>7, <2>3 DEF OnlyCell
    <3>3. HasEntry(inodeTable, block, d, p) => Target(inodeTable, block, d, p) # i
      BY <1>5, <2>3 DEF EntryInv, Single
    <3>4. QED
      BY <2>3, <3>1, <3>2, <3>3 DEF HasEntry, Target
  <2>4. QED
    BY <2>1, <2>2, <2>3
<1>10. QED
  BY <1>6, <1>9

\* A discard keeps the invariant, if nobody has the inode open and it holds no
\* entry: that is what the types and rmdir's scan for entries are for.
LEMMA DiscardEntryInv ==
    ASSUME EntryInv, OwnershipInv', Ready, NEW par \in Inodes, NEW n \in Names,
           NEW i \in Lookup(inodeTable, block, par, n), inodeTable[par].type = "DIR",
           Discard(par, n, i), i \notin opened,
           \A p \in Where : ~HasEntry(inodeTable, block, i, p)
    PROVE  EntryStep
<1>1. /\ i \in Inodes /\ i # Root
      /\ \A d \in Inodes, p \in Where :
            HasEntry(inodeTable', block', d, p) <=>
                /\ HasEntry(inodeTable, block, d, p)
                /\ d # i
                /\ Target(inodeTable, block, d, p) # i
      /\ \A d \in Inodes, p \in Where :
            HasEntry(inodeTable', block', d, p) =>
                Target(inodeTable', block', d, p) = Target(inodeTable, block, d, p)
  BY DiscardEntries
<1>2. /\ inodeTable' = [inodeTable EXCEPT ![i] = FreeInode]
      /\ inodeBitmap' = inodeBitmap \ {i}
      /\ UNCHANGED <<opened, writing>>
  BY DEF Discard, InodeFree
<1>3. inodeTable \in [Inodes -> Inode] /\ FreeInode.type = "FREE"
  BY DEF EntryInv, OwnershipInv, TypeOK, FreeInode
<1>4. Root \in inodeBitmap'
  BY <1>1, <1>2 DEF EntryInv
<1>5. Agrees(inodeTable', inodeBitmap')
  BY <1>1, <1>2, <1>3 DEF EntryInv, Agrees
<1>6. Resolve(inodeTable', block', inodeBitmap')
  <2> SUFFICES ASSUME NEW d \in Inodes, NEW p \in Where, HasEntry(inodeTable', block', d, p)
               PROVE  /\ Target(inodeTable', block', d, p) # Root
                      /\ Target(inodeTable', block', d, p) \in inodeBitmap'
    BY DEF Resolve
  <2>1. /\ HasEntry(inodeTable, block, d, p) /\ Target(inodeTable, block, d, p) # i
        /\ Target(inodeTable', block', d, p) = Target(inodeTable, block, d, p)
    BY <1>1
  <2>2. Target(inodeTable, block, d, p) # Root /\ Target(inodeTable, block, d, p) \in inodeBitmap
    BY <2>1 DEF EntryInv, Resolve
  <2>3. QED
    BY <1>2, <2>1, <2>2
<1>7. Single(inodeTable', block')
  <2> SUFFICES ASSUME NEW d \in Inodes, NEW e \in Inodes, NEW p \in Where, NEW q \in Where,
                      HasEntry(inodeTable', block', d, p), HasEntry(inodeTable', block', e, q),
                      Target(inodeTable', block', d, p) = Target(inodeTable', block', e, q)
               PROVE  d = e /\ p = q
    BY DEF Single
  <2>1. /\ HasEntry(inodeTable, block, d, p) /\ HasEntry(inodeTable, block, e, q)
        /\ Target(inodeTable, block, d, p) = Target(inodeTable, block, e, q)
    BY <1>1
  <2>2. QED
    BY <2>1 DEF EntryInv, Single
<1>k. ASSUME NEW j, j # i, Named(inodeTable, block, j) PROVE Named(inodeTable', block', j)
  <2>1. PICK d \in Inodes, p \in Where : HasEntry(inodeTable, block, d, p)
                                         /\ Target(inodeTable, block, d, p) = j
    BY <1>k DEF Named
  <2>2. HasEntry(inodeTable', block', d, p) /\ Target(inodeTable', block', d, p) = j
    BY <1>1, <1>k, <2>1
  <2>3. QED
    BY <2>2 DEF Named
<1>8. ASSUME NEW j \in opened
      PROVE  inodeTable'[j].type = "FILE" /\ Named(inodeTable', block', j)
  <2>1. j # i /\ inodeTable[j].type = "FILE" /\ Named(inodeTable, block, j) /\ j \in Inodes
    BY DEF EntryInv, Handles, OwnershipInv, TypeOK
  <2>2. QED
    BY <1>1, <1>2, <1>3, <1>k, <2>1
<1>9. Handles'
  <2>1. writing' = {} /\ opened' = opened
    BY <1>2 DEF Ready
  <2>2. QED
    BY <1>8, <2>1 DEF Handles
<1>10. rc' = "OK"
  BY DEF Discard
<1>11. EntryInv'
  BY <1>4, <1>5, <1>6, <1>7, <1>9 DEF EntryInv
<1>12. QED
  BY <1>2, <1>k, <1>10, <1>11 DEF EntryStep

\* What create and mkdir do to the table, the new inode i, and then to a
\* directory, keeps the invariant, whether the entry finds a place or not.
LEMMA NewInodeEntries ==
    ASSUME EntryInv, NEW par \in Inodes, inodeTable[par].type = "DIR",
           NEW i \in Inodes \ inodeBitmap, NEW x \in Inode, x.type # "FREE",
           NEW it, it = [inodeTable EXCEPT ![i] = x],
           NEW bl \in [DataBlocks -> [Slots -> Cell]], NEW bb, NEW s,
           NEW cell \in Cell, cell.inode = i,
           TableCovered(it, bb), TableApart(it), SameEntries(inodeTable, block, it, bl),
           \/ AddEntry(par, cell, it, bl, bb, s)
           \/ AddEntryFails(par, it, bl, bb, s),
           inodeBitmap' = inodeBitmap \cup {i}
    PROVE  /\ Root \in inodeBitmap'
           /\ Agrees(inodeTable', inodeBitmap')
           /\ Resolve(inodeTable', block', inodeBitmap')
           /\ Single(inodeTable', block')
           /\ \A j \in opened : inodeTable'[j].type = "FILE" /\ Named(inodeTable', block', j)
           /\ inodeTable'[i].type = x.type
           /\ inodeTable'[par].type = "DIR"
           /\ \A j : Named(inodeTable, block, j) => Named(inodeTable', block', j)
<1>t. inodeTable \in [Inodes -> Inode] /\ opened \in SUBSET Inodes
  BY DEF EntryInv, OwnershipInv, TypeOK
<1>1. i # Root /\ inodeTable[i].type = "FREE" /\ i # par
  BY DEF EntryInv, Agrees
<1>2. /\ it \in [Inodes -> Inode] /\ it[par].type = "DIR" /\ it[i] = x
      /\ \A d \in Inodes : d # i => it[d] = inodeTable[d]
  BY <1>t, <1>1
<1>3. /\ Resolve(it, bl, inodeBitmap)
      /\ Single(it, bl)
      /\ \A j : Named(inodeTable, block, j) => Named(it, bl, j)
  BY SameKeep DEF EntryInv
<1>4. /\ SameTypes(it, inodeTable')
      /\ Resolve(inodeTable', block', inodeBitmap \cup {i})
      /\ Single(inodeTable', block')
      /\ \A j : Named(it, bl, j) => Named(inodeTable', block', j)
  <2>1. CASE AddEntry(par, cell, it, bl, bb, s)
    <3>a. it \in [Inodes -> Inode] /\ it[par].type = "DIR"
      BY <1>2
    <3>1. SameTypes(it, inodeTable')
      BY <3>a, <2>1, AddEntryOneMore
    <3>2. PICK q \in Where : OneMore(it, bl, inodeTable', block', par, q, i)
      BY <3>a, <2>1, AddEntryOneMore
    <3>3. i \notin inodeBitmap
      OBVIOUS
    <3>4. /\ Resolve(inodeTable', block', inodeBitmap \cup {i})
          /\ Single(inodeTable', block')
          /\ \A j : Named(it, bl, j) => Named(inodeTable', block', j)
      BY <1>1, <1>3, <3>2, <3>3, OneMoreKeep
    <3>5. QED
      BY <3>1, <3>4
  <2>2. CASE AddEntryFails(par, it, bl, bb, s)
    <3>1. inodeTable' = it /\ block' = bl
      BY <2>2 DEF AddEntryFails
    <3>2. Resolve(it, bl, inodeBitmap \cup {i})
      BY <1>3 DEF Resolve
    <3>3. QED
      BY <1>3, <3>1, <3>2 DEF SameTypes
  <2>3. QED
    BY <2>1, <2>2
<1>5. Root \in inodeBitmap'
  BY DEF EntryInv
<1>6. Agrees(inodeTable', inodeBitmap')
  BY <1>2, <1>4 DEF EntryInv, Agrees, SameTypes
<1>7. ASSUME NEW j \in opened
      PROVE  inodeTable'[j].type = "FILE" /\ Named(inodeTable', block', j)
  <2>1. inodeTable[j].type = "FILE" /\ Named(inodeTable, block, j) /\ j \in Inodes
    BY <1>t DEF EntryInv, Handles
  <2>2. j # i
    BY <1>1, <2>1
  <2>3. QED
    BY <1>2, <1>3, <1>4, <2>1, <2>2 DEF SameTypes
<1>8. /\ inodeTable'[i].type = x.type
      /\ inodeTable'[par].type = "DIR"
  BY <1>2, <1>4 DEF SameTypes
<1>9. QED
  BY <1>3, <1>4, <1>5, <1>6, <1>7, <1>8

\* A fresh image has no entry but "." and "..".
LEMMA InitEntries == Init => EntryInv
<1> SUFFICES ASSUME Init PROVE EntryInv
  OBVIOUS
<1>1. /\ inodeBitmap = {Root} /\ opened = {} /\ writing = {}
      /\ inodeTable = [i \in Inodes |-> IF i = Root THEN NewDir(DataStart) ELSE FreeInode]
  BY DEF Init
<1>2. Root \in Inodes /\ DataStart \in DataBlocks /\ 0 \in Slots /\ 1 \in Slots
  BY GeometryAssumption
<1>3. /\ \A i \in Inodes : i # Root => inodeTable[i].type = "FREE"
      /\ inodeTable[Root].type = "DIR"
      /\ \A k \in Idx : inodeTable[Root].direct[k] # NoBlock => inodeTable[Root].direct[k] = DataStart
  BY <1>1, <1>2 DEF NewDir, FreeInode, NoPointers
<1>4. \A s \in Slots : block[DataStart][s].name \in {NoName, Dot, DotDot}
  <2>1. block[DataStart] = DotsBlock(Root, Root)
    BY <1>2 DEF Init
  <2>2. QED
    BY <1>2, <2>1 DEF DotsBlock, ZeroBlock, FreeCell
<1>5. ASSUME NEW d \in Inodes, NEW p \in Where PROVE ~HasEntry(inodeTable, block, d, p)
  <2>1. CASE d # Root
    BY <1>3, <2>1 DEF HasEntry
  <2>2. CASE d = Root
    BY <1>3, <1>4, <2>2 DEF HasEntry, Positions, Pointers, CellAt
  <2>3. QED
    BY <2>1, <2>2
<1>6. Agrees(inodeTable, inodeBitmap)
  BY <1>1, <1>3 DEF Agrees
<1>7. Resolve(inodeTable, block, inodeBitmap) /\ Single(inodeTable, block)
  BY <1>5 DEF Resolve, Single
<1>8. QED
  BY <1>1, <1>6, <1>7, InitOwnership DEF EntryInv, Handles

\* What is written to a block that no directory has changes no entry.
LEMMA OtherBlockWritten ==
    ASSUME NEW it \in [Inodes -> Inode], NEW bl \in [DataBlocks -> [Slots -> Cell]],
           NEW b, NEW c,
           \A d \in Inodes, k \in Idx :
              it[d].type = "DIR" /\ it[d].direct[k] # NoBlock => it[d].direct[k] # b
    PROVE  SameEntries(it, bl, it, [bl EXCEPT ![b] = c])
<1> DEFINE bl2 == [bl EXCEPT ![b] = c]
<1>1. ASSUME NEW d \in Inodes, it[d].type = "DIR", NEW p \in Positions(it[d])
      PROVE  CellAt(it[d], bl2, p) = CellAt(it[d], bl, p)
  <2>1. /\ p[1] \in Idx /\ it[d].direct[p[1]] \in DataBlocks
        /\ it[d].direct[p[1]] # NoBlock
    BY PositionWhere
  <2>2. it[d].direct[p[1]] # b
    BY <1>1, <2>1
  <2>3. QED
    BY <2>1, <2>2 DEF CellAt
<1> HIDE DEF bl2
<1>2. SameEntries(it, bl, it, bl2)
  BY <1>1 DEF SameEntries, HasEntry, Target
<1>3. QED
  BY <1>2 DEF bl2

\* What is written to inodes of files changes no entry.
LEMMA FileInodeWritten ==
    ASSUME NEW it, NEW bl, NEW it2, SameTypes(it, it2),
           \A d \in Inodes : it[d].type = "DIR" => it2[d] = it[d]
    PROVE  SameEntries(it, bl, it2, bl)
  BY DEF SameTypes, SameEntries, HasEntry, Target

\* What a step that keeps entries, types and bits has to show of handles.
LEMMA SameEntryInv ==
    ASSUME EntryInv, OwnershipInv', SameEntries(inodeTable, block, inodeTable', block'),
           SameTypes(inodeTable, inodeTable'), UNCHANGED <<inodeBitmap, opened>>,
           \A w \in writing' : w.ino \in opened /\ w.inode.type = "FILE"
    PROVE  EntryStep
<1>1. /\ Resolve(inodeTable', block', inodeBitmap)
      /\ Single(inodeTable', block')
      /\ \A i : Named(inodeTable, block, i) => Named(inodeTable', block', i)
  BY SameKeep DEF EntryInv
<1>2. Agrees(inodeTable', inodeBitmap)
  BY DEF EntryInv, Agrees, SameTypes
<1>3. ASSUME NEW i \in opened
      PROVE  inodeTable'[i].type = "FILE" /\ Named(inodeTable', block', i)
  BY <1>1 DEF EntryInv, Handles, SameTypes, OwnershipInv, TypeOK
<1>4. EntryInv'
  BY <1>1, <1>2, <1>3 DEF EntryInv, Handles
<1>5. QED
  BY <1>1, <1>4 DEF EntryStep

-----------------------------------------------------------------------------
(* What holds also of callbacks whose paths are cut: bits and types agree,  *)
(* and an error has changed no entry.                                       *)

BitsInv ==
    /\ OwnershipInv
    /\ Agrees(inodeTable, inodeBitmap)
    /\ \A w \in writing : w.inode.type = "FILE" /\ inodeTable[w.ino].type = "FILE"

BitsStep == BitsInv' /\ (rc' # "OK" => SameEntries(inodeTable, block, inodeTable', block'))

\* A new directory, whose block nobody has, has no entry but "." and "..".
LEMMA NewDirEntries ==
    ASSUME OwnershipInv, NEW i \in Inodes, inodeTable[i].type = "FREE",
           NEW b \in DataBlocks \ blockBitmap, NEW contents,
           \A s \in Slots : contents[s].name \in {NoName, Dot, DotDot}
    PROVE  SameEntries(inodeTable, block, [inodeTable EXCEPT ![i] = NewDir(b)],
                       [block EXCEPT ![b] = contents])
<1> DEFINE it == [inodeTable EXCEPT ![i] = NewDir(b)]
           bl == [block EXCEPT ![b] = contents]
<1>t. /\ inodeTable \in [Inodes -> Inode] /\ block \in [DataBlocks -> [Slots -> Cell]]
      /\ TableCovered(inodeTable, blockBitmap)
  BY DEF OwnershipInv, TypeOK
<1>1. SameEntries(inodeTable, block, inodeTable, bl)
  <2>1. \A d \in Inodes, k \in Idx : inodeTable[d].type = "DIR"
           /\ inodeTable[d].direct[k] # NoBlock => inodeTable[d].direct[k] # b
    BY <1>t DEF TableCovered, Covered
  <2>2. QED
    BY <1>t, <2>1, OtherBlockWritten
<1>2. ASSUME NEW p \in Where PROVE ~HasEntry(it, bl, i, p)
  <2>1. it[i] = NewDir(b)
    BY <1>t
  <2>2. \A k \in Idx : NewDir(b).direct[k] = IF k = 0 THEN b ELSE NoBlock
    BY GeometryAssumption DEF NewDir, NoPointers
  <2>3. p \in Positions(NewDir(b)) => CellAt(NewDir(b), bl, p) = contents[p[2]]
    BY <1>t, <2>2 DEF Positions, Pointers, CellAt, Where
  <2>4. QED
    BY <2>1, <2>3 DEF HasEntry, Where
<1>3. \A p \in Where : ~HasEntry(inodeTable, block, i, p)
  BY DEF HasEntry
<1>4. ASSUME NEW d \in Inodes, d # i, NEW p \in Where
      PROVE  /\ HasEntry(it, bl, d, p) <=> HasEntry(inodeTable, bl, d, p)
             /\ Target(it, bl, d, p) = Target(inodeTable, bl, d, p)
  <2>1. it[d] = inodeTable[d]
    BY <1>t, <1>4
  <2>2. QED
    BY <2>1 DEF HasEntry, Target
<1> HIDE DEF it, bl
<1>5. SameEntries(inodeTable, block, it, bl)
  BY <1>1, <1>2, <1>3, <1>4 DEF SameEntries
<1>6. QED
  BY <1>5 DEF it, bl

\* The blocks mkdir makes have no entry but "." and "..".
LEMMA DotsOnly ==
    /\ \A s \in Slots : ZeroBlock[s].name \in {NoName, Dot, DotDot}
    /\ \A i, par : \A s \in Slots : DotsBlock(i, par)[s].name \in {NoName, Dot, DotDot}
  BY GeometryAssumption DEF DotsBlock, ZeroBlock, FreeCell

\* add_entry changes no type.
LEMMA AddEntryTypes ==
    ASSUME NEW par \in Inodes, NEW cell, NEW it \in [Inodes -> Inode], NEW bl, NEW bb, NEW s,
           AddEntry(par, cell, it, bl, bb, s) \/ AddEntryFails(par, it, bl, bb, s)
    PROVE  SameTypes(it, inodeTable')
<1>1. CASE GrowDir(par, cell, it, bl, bb, s)
  <2>1. PICK k \in FirstFit(Holes(it[par])), b \in FirstFit(DataBlocks \ bb) :
               inodeTable' = [it EXCEPT ![par] = WithBlock(@, k, b)]
    BY <1>1 DEF GrowDir
  <2>2. k \in Idx /\ b \in DataBlocks
    BY DEF FirstFit, Holes
  <2>3. WithBlock(it[par], k, b).type = it[par].type
    BY <2>2, WithBlockFields
  <2>4. QED
    BY <2>1, <2>3 DEF SameTypes
<1>2. CASE FillSlot(par, cell, it, bl, bb, s) \/ AddEntryFails(par, it, bl, bb, s)
  BY <1>2 DEF FillSlot, AddEntryFails, SameTypes
<1>3. QED
  BY <1>1, <1>2 DEF AddEntry

\* A new inode and its bit agree, wherever its entry goes, if anywhere.
LEMMA NewInodeBits ==
    ASSUME BitsInv, OwnershipInv', writing = {}, writing' = {},
           NEW i \in Inodes \ inodeBitmap, inodeBitmap' = inodeBitmap \cup {i},
           NEW x \in Inode, x.type # "FREE",
           NEW it, it = [inodeTable EXCEPT ![i] = x], NEW bl,
           SameEntries(inodeTable, block, it, bl), NEW par \in SUBSET Inodes,
           NEW cell, NEW bb, NEW s,
           \/ rc' = "OK" /\ \E p \in par : AddEntry(p, cell, it, bl, bb, s)
           \/ \E p \in par : AddEntryFails(p, it, bl, bb, s)
           \/ inodeTable' = it /\ block' = bl
    PROVE  BitsStep
<1>1. inodeTable \in [Inodes -> Inode]
  BY DEF BitsInv, OwnershipInv, TypeOK
<1>2. it \in [Inodes -> Inode] /\ it[i].type # "FREE" /\ \A d \in Inodes : d # i => it[d] = inodeTable[d]
  BY <1>1
<1>3. SameTypes(it, inodeTable')
  <2>1. CASE \E p \in par : AddEntry(p, cell, it, bl, bb, s) \/ AddEntryFails(p, it, bl, bb, s)
    <3>1. PICK p \in Inodes : AddEntry(p, cell, it, bl, bb, s) \/ AddEntryFails(p, it, bl, bb, s)
      BY <2>1
    <3>2. QED
      BY <1>2, <3>1, AddEntryTypes
  <2>2. CASE inodeTable' = it
    BY <2>2 DEF SameTypes
  <2>3. QED
    BY <2>1, <2>2
<1>4. Agrees(inodeTable', inodeBitmap')
  BY <1>2, <1>3 DEF BitsInv, Agrees, SameTypes
<1>5. rc' # "OK" => inodeTable' = it /\ block' = bl
  BY DEF AddEntryFails
<1>6. QED
  BY <1>4, <1>5 DEF BitsStep, BitsInv

\* What create does keeps bits and types in agreement.
LEMMA CreateBits ==
    ASSUME BitsInv, OwnershipInv', Ready, NEW n \in Names, NEW i \in FirstFit(Inodes \ inodeBitmap),
           NEW par \in SUBSET Inodes, NEW cell, NEW it, it = [inodeTable EXCEPT ![i] = NewFile],
           NEW s, inodeBitmap' = inodeBitmap \cup {i}, UNCHANGED writing,
           \/ rc' = "OK" /\ \E p \in par : AddEntry(p, cell, it, block, blockBitmap, s)
           \/ \E p \in par : AddEntryFails(p, it, block, blockBitmap, s)
           \/ inodeTable' = it /\ block' = block
    PROVE  BitsStep
<1>1. i \in Inodes \ inodeBitmap /\ inodeTable \in [Inodes -> Inode]
  BY DEF FirstFit, BitsInv, OwnershipInv, TypeOK
<1>2. inodeTable[i].type = "FREE"
  BY <1>1 DEF BitsInv, Agrees
<1>3. NewFile \in Inode /\ NewFile.type = "FILE"
  BY ContentsType DEF NewFile
<1>4. SameEntries(inodeTable, block, it, block)
  BY <1>1, <1>2, <1>3 DEF SameEntries, HasEntry, Target
<1>5. writing = {} /\ writing' = {}
  BY DEF Ready
<1>6. NewFile.type # "FREE"
  BY <1>3
<1>7. QED
  BY <1>1, <1>3, <1>4, <1>5, <1>6, NewInodeBits

\* So does what mkdir does.
LEMMA MkdirBits ==
    ASSUME BitsInv, OwnershipInv', Ready, NEW n \in Names, NEW i \in FirstFit(Inodes \ inodeBitmap),
           NEW b \in FirstFit(DataBlocks \ blockBitmap), NEW contents,
           \A s \in Slots : contents[s].name \in {NoName, Dot, DotDot},
           NEW par \in SUBSET Inodes, NEW cell, NEW it, it = [inodeTable EXCEPT ![i] = NewDir(b)],
           NEW bl, bl = [block EXCEPT ![b] = contents], NEW bb, NEW sbs,
           inodeBitmap' = inodeBitmap \cup {i}, UNCHANGED writing,
           \/ rc' = "OK" /\ \E p \in par : AddEntry(p, cell, it, bl, bb, sbs)
           \/ \E p \in par : AddEntryFails(p, it, bl, bb, sbs)
           \/ inodeTable' = it /\ block' = bl
    PROVE  BitsStep
<1>1. i \in Inodes \ inodeBitmap /\ b \in DataBlocks \ blockBitmap
  BY DEF FirstFit
<1>2. inodeTable[i].type = "FREE" /\ OwnershipInv
  BY <1>1 DEF BitsInv, Agrees
<1>3. NewDir(b) \in Inode /\ NewDir(b).type = "DIR"
  BY <1>1, ContentsType DEF NewDir
<1>4. SameEntries(inodeTable, block, it, bl)
  BY <1>1, <1>2, NewDirEntries
<1>5. writing = {} /\ writing' = {}
  BY DEF Ready
<1>6. NewDir(b).type # "FREE"
  BY <1>3
<1>7. QED
  BY <1>1, <1>3, <1>4, <1>5, <1>6, NewInodeBits

\* Every callback and every event keeps bits and types in agreement, and changes
\* no entry where it returns an error.
LEMMA NextBits == BitsInv /\ [Next]_vars => BitsStep
<1> SUFFICES ASSUME BitsInv, [Next]_vars PROVE BitsStep
  OBVIOUS
<1>o. OwnershipInv /\ OwnershipInv'
  BY NextOwnership DEF BitsInv
<1>t. /\ inodeTable \in [Inodes -> Inode] /\ block \in [DataBlocks -> [Slots -> Cell]]
      /\ inodeBitmap \subseteq Inodes /\ TableCovered(inodeTable, blockBitmap)
      /\ \A w \in writing : /\ w \in WriteLoop /\ w.ino \in Inodes /\ w.inode \in Inode
                             /\ w.inode.type = "FILE" /\ inodeTable[w.ino].type = "FILE"
  BY DEF BitsInv, OwnershipInv, TypeOK, WriteLoop
<1>0. ASSUME UNCHANGED <<inodeTable, block, inodeBitmap>>,
             \A w \in writing' : w.inode.type = "FILE" /\ inodeTable[w.ino].type = "FILE"
      PROVE  BitsStep
  BY <1>0, <1>o DEF BitsStep, BitsInv, SameEntries
<1>f. ASSUME NEW code, Fail(code) PROVE BitsStep
  BY <1>f, <1>t, <1>0 DEF Fail, disk
<1>1. ASSUME NEW par \in Inodes, NEW n \in Names, Create(par, n) PROVE BitsStep
  <2>1. ASSUME NEW i \in FirstFit(Inodes \ inodeBitmap), CreateNew(par, n, i) PROVE BitsStep
    <3> DEFINE cell == [inode |-> i, name |-> Stored(n)]
               it == [inodeTable EXCEPT ![i] = NewFile]
    <3>1. /\ \/ rc' = "OK" /\ \E p \in {par} : AddEntry(p, cell, it, block, blockBitmap, TakeInode(sb))
             \/ \E p \in {par} : AddEntryFails(p, it, block, blockBitmap, TakeInode(sb))
          /\ inodeBitmap' = inodeBitmap \cup {i} /\ UNCHANGED writing
      BY <2>1 DEF CreateNew
    <3>2. it = [inodeTable EXCEPT ![i] = NewFile] /\ {par} \in SUBSET Inodes /\ Ready
      BY <1>1 DEF Create, ReadyIn
    <3> HIDE DEF cell, it
    <3>3. QED
      BY <1>1, <1>o, <3>1, <3>2, CreateBits
  <2>2. QED
    BY <1>1, <1>f, <2>1 DEF Create, CreateRefused
<1>2. ASSUME NEW par \in Inodes, NEW n \in Names, Mkdir(par, n) PROVE BitsStep
  <2>1. ASSUME NEW i \in FirstFit(Inodes \ inodeBitmap),
               NEW b \in FirstFit(DataBlocks \ blockBitmap), MkdirNew(par, n, i, b)
        PROVE  BitsStep
    <3> DEFINE cell == [inode |-> i, name |-> Stored(n)]
               it == [inodeTable EXCEPT ![i] = NewDir(b)]
               bl == [block EXCEPT ![b] = DotsBlock(i, par)]
               bb == blockBitmap \cup {b}
               s  == TakeInode(TakeBlock(sb))
    <3>1. /\ \/ rc' = "OK" /\ \E p \in {par} : AddEntry(p, cell, it, bl, bb, s)
             \/ \E p \in {par} : AddEntryFails(p, it, bl, bb, s)
          /\ inodeBitmap' = inodeBitmap \cup {i} /\ UNCHANGED writing
      BY <2>1 DEF MkdirNew
    <3>2. /\ it = [inodeTable EXCEPT ![i] = NewDir(b)]
          /\ bl = [block EXCEPT ![b] = DotsBlock(i, par)]
          /\ {par} \in SUBSET Inodes /\ Ready
      BY <1>2 DEF Mkdir, ReadyIn
    <3>3. \A slot \in Slots : DotsBlock(i, par)[slot].name \in {NoName, Dot, DotDot}
      BY DotsOnly
    <3> HIDE DEF cell, it, bl, bb, s
    <3>4. QED
      BY <1>2, <1>o, <3>1, <3>2, <3>3, MkdirBits
  <2>2. QED
    BY <1>2, <1>f, <2>1 DEF Mkdir, MkdirRefused
<1>d. ASSUME NEW par, NEW n, NEW i \in Inodes, Ready, Discard(par, n, i) \/ CutDiscard(n, i, par)
      PROVE  BitsStep
  <2>1. /\ inodeTable' = [inodeTable EXCEPT ![i] = FreeInode]
        /\ inodeBitmap' = inodeBitmap \ {i} /\ rc' = "OK" /\ UNCHANGED writing
    BY <1>d DEF Discard, CutDiscard, InodeFree
  <2>2. Agrees(inodeTable', inodeBitmap')
    BY <1>t, <2>1 DEF BitsInv, Agrees, FreeInode
  <2>3. QED
    BY <1>d, <1>o, <2>1, <2>2 DEF BitsStep, BitsInv, Ready
<1>3. ASSUME NEW par \in Inodes, NEW n \in Names, Unlink(par, n) \/ Rmdir(par, n)
      PROVE  BitsStep
  <2>1. \A i \in Lookup(inodeTable, block, par, n) : i \in Inodes
    BY <1>t, LookupType
  <2>2. QED
    BY <1>3, <1>d, <1>f, <2>1 DEF Unlink, Rmdir, ReadyIn
<1>4. ASSUME NEW found, OpenFound(found) PROVE BitsStep
  BY <1>0, <1>4, <1>f, <1>t DEF OpenFound, disk
<1>5. ASSUME NEW found \in SUBSET Inodes, NEW keep, Ready, TruncateFound(found, keep) PROVE BitsStep
  <2>1. ASSUME NEW i \in found, NEW drop \in SUBSET Idx, inodeTable[i].type = "FILE",
               inodeTable' = [inodeTable EXCEPT ![i] = Shortened(inodeTable[i], drop)],
               UNCHANGED <<inodeBitmap, block, writing>>
        PROVE  BitsStep
    <3> DEFINE r == Shortened(inodeTable[i], drop)
    <3>1. r.type = "FILE"
      BY <1>t, <2>1 DEF Shortened, Inode
    <3>2. inodeTable' = [inodeTable EXCEPT ![i] = r]
      BY <2>1
    <3> HIDE DEF r
    <3>3. /\ SameTypes(inodeTable, inodeTable')
          /\ \A d \in Inodes : inodeTable[d].type = "DIR" => inodeTable'[d] = inodeTable[d]
      BY <1>t, <2>1, <3>1, <3>2 DEF SameTypes
    <3>4. SameEntries(inodeTable, block, inodeTable', block')
      BY <2>1, <3>3, FileInodeWritten
    <3>5. Agrees(inodeTable', inodeBitmap') /\ writing' = {}
      BY <1>5, <1>t, <2>1, <3>3 DEF BitsInv, Agrees, SameTypes, Ready
    <3>6. QED
      BY <1>o, <3>4, <3>5 DEF BitsStep, BitsInv
  <2>2. \A i : {k \in Pointers(inodeTable[i]) : k >= keep} \in SUBSET Idx
    BY DEF Pointers
  <2>3. QED
    BY <1>5, <1>f, <2>1, <2>2 DEF TruncateFound
<1>6. ASSUME NEW par \in Inodes, NEW n \in Names,
             Open(par, n) \/ \E keep \in 0 .. DirectBlocks : Truncate(par, n, keep)
      PROVE  BitsStep
  <2>1. Lookup(inodeTable, block, par, n) \in SUBSET Inodes
    BY <1>t, LookupType
  <2>2. QED
    BY <1>4, <1>5, <1>6, <2>1 DEF Open, Truncate, ReadyIn
<1>7. ASSUME Ready, NEW n \in Names, NEW at \in CutPlaces(n), CutCreate(n, at) PROVE BitsStep
  <2>a. at.par \in SUBSET Inodes
    BY CutPlacesType
  <2>1. ASSUME NEW i \in FirstFit(Inodes \ inodeBitmap), inodeBitmap' = inodeBitmap \cup {i},
               CutAdd(at.par, [inode |-> i, name |-> Stored(n)],
                      [inodeTable EXCEPT ![i] = NewFile], block, blockBitmap, TakeInode(sb)),
               UNCHANGED writing
        PROVE  BitsStep
    <3> DEFINE cell == [inode |-> i, name |-> Stored(n)]
               it == [inodeTable EXCEPT ![i] = NewFile]
    <3>1. \/ rc' = "OK" /\ \E p \in at.par : AddEntry(p, cell, it, block, blockBitmap, TakeInode(sb))
          \/ \E p \in at.par : AddEntryFails(p, it, block, blockBitmap, TakeInode(sb))
          \/ inodeTable' = it /\ block' = block
      BY <2>1 DEF CutAdd
    <3>2. it = [inodeTable EXCEPT ![i] = NewFile]
      OBVIOUS
    <3> HIDE DEF cell, it
    <3>3. QED
      BY <1>7, <1>o, <2>a, <2>1, <3>1, <3>2, CreateBits
  <2>2. QED
    BY <1>7, <1>f, <2>1 DEF CutCreate
<1>8. ASSUME Ready, NEW n \in Names, NEW at \in CutPlaces(n), CutMkdir(n, at) PROVE BitsStep
  <2>a. at.par \in SUBSET Inodes
    BY CutPlacesType
  <2>1. ASSUME NEW i \in FirstFit(Inodes \ inodeBitmap), inodeBitmap' = inodeBitmap \cup {i},
               NEW b \in FirstFit(DataBlocks \ blockBitmap),
               NEW contents \in IF at.par = {} THEN {ZeroBlock} ELSE {DotsBlock(i, p) : p \in at.par},
               CutAdd(at.par, [inode |-> i, name |-> Stored(n)],
                      [inodeTable EXCEPT ![i] = NewDir(b)], [block EXCEPT ![b] = contents],
                      blockBitmap \cup {b}, TakeInode(TakeBlock(sb))),
               UNCHANGED writing
        PROVE  BitsStep
    <3> DEFINE cell == [inode |-> i, name |-> Stored(n)]
               it == [inodeTable EXCEPT ![i] = NewDir(b)]
               bl == [block EXCEPT ![b] = contents]
               bb == blockBitmap \cup {b}
               s  == TakeInode(TakeBlock(sb))
    <3>1. \/ rc' = "OK" /\ \E p \in at.par : AddEntry(p, cell, it, bl, bb, s)
          \/ \E p \in at.par : AddEntryFails(p, it, bl, bb, s)
          \/ inodeTable' = it /\ block' = bl
      BY <2>1 DEF CutAdd
    <3>2. /\ it = [inodeTable EXCEPT ![i] = NewDir(b)]
          /\ bl = [block EXCEPT ![b] = contents]
      OBVIOUS
    <3>3. \A slot \in Slots : contents[slot].name \in {NoName, Dot, DotDot}
      BY DotsOnly
    <3> HIDE DEF cell, it, bl, bb, s
    <3>4. QED
      BY <1>8, <1>o, <2>a, <2>1, <3>1, <3>2, <3>3, MkdirBits
  <2>2. QED
    BY <1>8, <1>f, <2>1 DEF CutMkdir
<1>9. ASSUME Ready, NEW n \in Names, NEW at \in CutPlaces(n),
             \/ CutCreate(n, at) \/ CutMkdir(n, at) \/ CutUnlink(n, at) \/ CutRmdir(n, at)
             \/ OpenFound(at.ino)
             \/ \E keep \in 0 .. DirectBlocks : TruncateFound(at.ino, keep)
      PROVE  BitsStep
  <2>1. at.ino \in SUBSET Inodes
    BY CutPlacesType
  <2>2. CASE CutUnlink(n, at) \/ CutRmdir(n, at)
    BY <1>9, <1>d, <1>f, <2>1, <2>2 DEF CutUnlink, CutRmdir
  <2>3. QED
    BY <1>4, <1>5, <1>7, <1>8, <1>9, <2>1, <2>2
<1>10. ASSUME NEW i \in Inodes, NEW first, NEW last,
              Release(i) \/ WriteBegin(i, first, last)
       PROVE  BitsStep
  <2>1. CASE Release(i)
    BY <1>0, <1>t, <2>1 DEF Release, disk
  <2>2. CASE /\ inodeTable[i].type = "FILE"
             /\ writing' = {[ino |-> i, inode |-> inodeTable[i],
                             first |-> first, next |-> first, last |-> last]}
             /\ UNCHANGED <<disk, diskSb, sb, mounted, opened, rc>>
    BY <1>0, <2>2 DEF disk
  <2>3. QED
    BY <1>10, <1>f, <2>1, <2>2 DEF WriteBegin
<1>b. ASSUME NEW w \in writing, NEW b, NEW v, block' = [block EXCEPT ![b] = DataBlock],
             \A d \in Inodes, k \in Idx : inodeTable[d].type = "DIR"
                 /\ inodeTable[d].direct[k] # NoBlock => inodeTable[d].direct[k] # b,
             UNCHANGED <<inodeTable, inodeBitmap>>,
             writing' = {v}, v.ino = w.ino, v.inode.type = "FILE"
      PROVE  BitsStep
  <2>1. SameEntries(inodeTable, block, inodeTable', block')
    BY <1>b, <1>t, OtherBlockWritten
  <2>2. QED
    BY <1>b, <1>o, <1>t, <2>1 DEF BitsStep, BitsInv
<1>11. ASSUME NEW w \in writing, WriteInPlace(w) PROVE BitsStep
  <2> DEFINE b == w.inode.direct[w.next]
             m == w.next + 1
             v == [w EXCEPT !.next = m]
  <2>1. w.next \in Idx
    BY <1>11, <1>t, GeometryAssumption DEF WriteInPlace, InLoop, WriteLoop
  <2>2. \A d \in Inodes, k \in Idx : inodeTable[d].type = "DIR"
           /\ inodeTable[d].direct[k] # NoBlock => inodeTable[d].direct[k] # b
    BY <1>t, <1>o, <2>1 DEF OwnershipInv, NoSharedBlock, Apart
  <2>3. /\ block' = [block EXCEPT ![b] = DataBlock] /\ writing' = {v}
        /\ UNCHANGED <<inodeTable, inodeBitmap>>
    BY <1>11 DEF WriteInPlace
  <2> HIDE DEF b, m
  <2>4. v.ino = w.ino /\ v.inode.type = "FILE"
    BY <1>t DEF WriteLoop
  <2> HIDE DEF v
  <2>5. QED
    BY <1>b, <2>2, <2>3, <2>4
<1>12. ASSUME NEW w \in writing, WriteAlloc(w) PROVE BitsStep
  <2>1. w.next \in Idx
    BY <1>12, <1>t, GeometryAssumption DEF WriteAlloc, InLoop, WriteLoop
  <2>2. PICK b \in FirstFit(DataBlocks \ blockBitmap) :
           /\ block' = [block EXCEPT ![b] = DataBlock]
           /\ writing' = {[w EXCEPT !.next = @ + 1, !.inode = WithBlock(@, w.next, b)]}
    BY <1>12 DEF WriteAlloc
  <2>3. b \in DataBlocks /\ b \notin blockBitmap
    BY DEF FirstFit
  <2>4. \A d \in Inodes, k \in Idx : inodeTable[d].type = "DIR"
           /\ inodeTable[d].direct[k] # NoBlock => inodeTable[d].direct[k] # b
    BY <1>t, <2>3 DEF TableCovered, Covered
  <2> DEFINE r == WithBlock(w.inode, w.next, b)
             m == w.next + 1
             v == [w EXCEPT !.next = m, !.inode = r]
  <2>5. r.type = "FILE"
    BY <1>t, <2>1, <2>3, WithBlockFields
  <2>6. writing' = {v}
    BY <2>2
  <2> HIDE DEF m, r
  <2>7. v.ino = w.ino /\ v.inode.type = "FILE"
    BY <1>t, <2>5 DEF WriteLoop
  <2> HIDE DEF v
  <2>8. UNCHANGED <<inodeTable, inodeBitmap>>
    BY <1>12 DEF WriteAlloc
  <2>9. QED
    BY <1>b, <2>2, <2>4, <2>6, <2>7, <2>8
<1>13. ASSUME NEW w \in writing, WriteEnd(w) PROVE BitsStep
  <2>1. /\ inodeTable' = [inodeTable EXCEPT ![w.ino] = w.inode]
        /\ UNCHANGED <<inodeBitmap, block>> /\ writing' = {} /\ rc' = "OK"
    BY <1>13 DEF WriteEnd
  <2>2. Agrees(inodeTable', inodeBitmap')
    BY <1>t, <2>1 DEF BitsInv, Agrees
  <2>3. QED
    BY <1>o, <2>1, <2>2 DEF BitsStep, BitsInv
<1>14. ASSUME NEW w \in writing, WriteNoSpace(w) PROVE BitsStep
  BY <1>0, <1>14 DEF WriteNoSpace, disk
<1>15. CASE Mount \/ Unmount \/ Kill \/ UNCHANGED vars
  BY <1>0, <1>15, <1>t DEF Mount, Unmount, Kill, disk, vars
<1>16. CASE \E par \in Inodes, n \in Names :
               \/ Create(par, n) \/ Mkdir(par, n) \/ Unlink(par, n) \/ Rmdir(par, n)
               \/ Open(par, n)
               \/ \E keep \in 0 .. DirectBlocks : Truncate(par, n, keep)
  BY <1>1, <1>2, <1>3, <1>6, <1>16
<1>17. CASE /\ CutPaths /\ Ready
            /\ \E n \in Names : \E at \in CutPlaces(n) :
                  \/ CutCreate(n, at) \/ CutMkdir(n, at)
                  \/ CutUnlink(n, at) \/ CutRmdir(n, at)
                  \/ OpenFound(at.ino)
                  \/ \E keep \in 0 .. DirectBlocks : TruncateFound(at.ino, keep)
  BY <1>9, <1>17
<1>18. CASE \E i \in Inodes : \/ Release(i)
                              \/ \E first, last \in 0 .. DirectBlocks : WriteBegin(i, first, last)
  BY <1>10, <1>18
<1>19. QED
  BY <1>11, <1>12, <1>13, <1>14, <1>15, <1>16, <1>17, <1>18 DEF Next

\* Bits and types agree in a fresh image.
LEMMA InitBits == Init => BitsInv
  BY InitEntries DEF EntryInv, BitsInv, Init

-----------------------------------------------------------------------------
(* Callbacks whose paths fit                                                *)

\* Every callback and every event keeps bits, entries and handles right.
LEMMA NextEntries == ~CutPaths /\ EntryInv /\ [Next]_vars => EntryStep
<1> SUFFICES ASSUME ~CutPaths, EntryInv, [Next]_vars PROVE EntryStep
  OBVIOUS
<1>o. OwnershipInv /\ OwnershipInv'
  BY NextOwnership DEF EntryInv
<1>t. /\ inodeTable \in [Inodes -> Inode] /\ block \in [DataBlocks -> [Slots -> Cell]]
      /\ inodeBitmap \subseteq Inodes /\ blockBitmap \subseteq DataBlocks
      /\ TableCovered(inodeTable, blockBitmap)
      /\ TableApart(inodeTable)
  BY <1>o DEF OwnershipInv, TypeOK, NoSharedBlock, TableApart
<1>h. /\ \A i \in opened : i \in Inodes /\ inodeTable[i].type = "FILE"
      /\ \A w \in writing : /\ w \in WriteLoop /\ w.inode \in Inode /\ w.ino \in opened
                             /\ w.inode.type = "FILE" /\ inodeTable[w.ino].type = "FILE"
  BY <1>o DEF EntryInv, Handles, OwnershipInv, TypeOK, WriteLoop
<1>0. ASSUME UNCHANGED <<inodeTable, block, inodeBitmap>>, Handles' PROVE EntryStep
  <2>1. EntryInv'
    BY <1>0, <1>o DEF EntryInv
  <2>2. SameEntries(inodeTable, block, inodeTable', block')
    BY <1>0 DEF SameEntries
  <2>3. QED
    BY <1>0, <2>1, <2>2 DEF EntryStep
<1>f. ASSUME NEW code, Fail(code) PROVE EntryStep
  <2>1. UNCHANGED <<inodeTable, block, inodeBitmap, opened, writing>>
    BY <1>f DEF Fail, disk
  <2>2. Handles'
    BY <2>1 DEF EntryInv, Handles
  <2>3. QED
    BY <1>0, <2>1, <2>2
<1>1. ASSUME NEW par \in Inodes, NEW n \in Names, Create(par, n)
      PROVE  EntryStep
  <2>0. inodeTable[par].type = "DIR" /\ writing = {}
    BY <1>1 DEF Create, ReadyIn, Ready
  <2>1. CASE CreateRefused(par, n)
    BY <2>1, <1>f DEF CreateRefused
  <2>2. ASSUME NEW i \in FirstFit(Inodes \ inodeBitmap), CreateNew(par, n, i)
        PROVE  EntryStep
    <3> DEFINE cell == [inode |-> i, name |-> Stored(n)]
               it == [inodeTable EXCEPT ![i] = NewFile]
    <3>1. i \in Inodes \ inodeBitmap /\ NewFile \in Inode /\ NewFile.type = "FILE"
          /\ \A k \in Idx : NewFile.direct[k] = NoBlock
      BY ContentsType DEF FirstFit, NewFile, NoPointers
    <3>2. cell \in Cell /\ cell.inode = i
      BY <3>1, StoredType DEF Cell
    <3>3. inodeTable[i].type = "FREE"
      BY <3>1 DEF EntryInv, Agrees
    <3>4. Apart(i, NewFile, i, NewFile)
      BY <3>1 DEF Apart
    <3>5. TableApart(it)
      BY <1>t, <3>1, <3>4, ReplaceInode
    <3>6. TableCovered(it, blockBitmap)
      BY <1>t, <3>1 DEF TableCovered, Covered
    <3>7. SameEntries(inodeTable, block, it, block)
      BY <1>t, <3>1, <3>3 DEF SameEntries, HasEntry, Target
    <3>8. /\ \/ AddEntry(par, cell, it, block, blockBitmap, TakeInode(sb))
             \/ AddEntryFails(par, it, block, blockBitmap, TakeInode(sb))
          /\ rc' # "OK" => AddEntryFails(par, it, block, blockBitmap, TakeInode(sb))
          /\ inodeBitmap' = inodeBitmap \cup {i}
          /\ UNCHANGED writing
          /\ \/ opened' = opened
             \/ /\ opened' = opened \cup {i}
                /\ i \in Lookup(inodeTable', block', par, n)
      BY <2>2 DEF CreateNew
    <3>9. it = [inodeTable EXCEPT ![i] = NewFile]
      OBVIOUS
    <3> HIDE DEF cell, it
    <3>10. /\ Root \in inodeBitmap'
           /\ Agrees(inodeTable', inodeBitmap')
           /\ Resolve(inodeTable', block', inodeBitmap')
           /\ Single(inodeTable', block')
           /\ \A j \in opened : inodeTable'[j].type = "FILE" /\ Named(inodeTable', block', j)
           /\ inodeTable'[i].type = NewFile.type
           /\ inodeTable'[par].type = "DIR"
           /\ \A j : Named(inodeTable, block, j) => Named(inodeTable', block', j)
      <4>1. NewFile.type # "FREE"
        BY <3>1
      <4>2. QED
        BY <1>t, <2>0, <3>1, <3>2, <3>5, <3>6, <3>7, <3>8, <3>9, <4>1, NewInodeEntries
    <3>11. ASSUME i \in Lookup(inodeTable', block', par, n) PROVE Named(inodeTable', block', i)
      <4>1. PICK p \in FirstPos(Matches(inodeTable'[par], block', n)) :
                     i = CellAt(inodeTable'[par], block', p).inode
        BY <3>11 DEF Lookup
      <4>2. p \in Positions(inodeTable'[par]) /\ CellAt(inodeTable'[par], block', p).name = n
        BY <4>1 DEF FirstPos, Matches
      <4>3. n \notin {NoName, Dot, DotDot}
        BY NameAssumption DEF Names
      <4>4. p \in Where
        BY <4>2 DEF Positions, Pointers, Where
      <4>5. HasEntry(inodeTable', block', par, p) /\ Target(inodeTable', block', par, p) = i
        BY <3>10, <4>1, <4>2, <4>3 DEF HasEntry, Target
      <4>6. QED
        BY <4>4, <4>5 DEF Named
    <3>12. Handles'
      <4>1. ASSUME NEW j \in opened'
            PROVE  inodeTable'[j].type = "FILE" /\ Named(inodeTable', block', j)
        BY <3>1, <3>8, <3>10, <3>11
      <4>2. writing' = {}
        BY <2>0, <3>8
      <4>3. QED
        BY <4>1, <4>2 DEF Handles
    <3>13. EntryInv'
      BY <1>o, <3>10, <3>12 DEF EntryInv
    <3>14. rc' # "OK" => SameEntries(inodeTable, block, inodeTable', block')
      BY <3>7, <3>8 DEF AddEntryFails
    <3>15. QED
      BY <3>10, <3>13, <3>14 DEF EntryStep
  <2>3. QED
    BY <1>1, <2>1, <2>2 DEF Create
<1>2. ASSUME NEW par \in Inodes, NEW n \in Names, Mkdir(par, n)
      PROVE  EntryStep
  <2>0. inodeTable[par].type = "DIR" /\ writing = {}
    BY <1>2 DEF Mkdir, ReadyIn, Ready
  <2>1. CASE MkdirRefused(par, n)
    BY <2>1, <1>f DEF MkdirRefused
  <2>2. ASSUME NEW i \in FirstFit(Inodes \ inodeBitmap),
               NEW b \in FirstFit(DataBlocks \ blockBitmap), MkdirNew(par, n, i, b)
        PROVE  EntryStep
    <3> DEFINE cell == [inode |-> i, name |-> Stored(n)]
               it == [inodeTable EXCEPT ![i] = NewDir(b)]
               bl == [block EXCEPT ![b] = DotsBlock(i, par)]
               bb == blockBitmap \cup {b}
               s  == TakeInode(TakeBlock(sb))
    <3>1. i \in Inodes \ inodeBitmap /\ b \in DataBlocks \ blockBitmap
      BY DEF FirstFit
    <3>2. cell \in Cell /\ cell.inode = i
      BY <3>1, StoredType DEF Cell
    <3>3. inodeTable[i].type = "FREE"
      BY <3>1 DEF EntryInv, Agrees
    <3>4. /\ NewDir(b) \in Inode /\ NewDir(b).type = "DIR"
          /\ \A k \in Idx : NewDir(b).direct[k] = IF k = 0 THEN b ELSE NoBlock
      BY <3>1, ContentsType, GeometryAssumption DEF NewDir, NoPointers
    <3>5. Apart(i, NewDir(b), i, NewDir(b))
      BY <3>4 DEF Apart
    <3>6. TableApart(it)
      BY <1>t, <3>1, <3>4, <3>5, ReplaceInode
    <3>7. TableCovered(it, bb)
      BY <1>t, <3>1, <3>4 DEF TableCovered, Covered
    <3>8. bl \in [DataBlocks -> [Slots -> Cell]]
      BY <1>2, <1>t, <3>1, ContentsType
    <3>9. SameEntries(inodeTable, block, it, bl)
      BY <1>o, <3>1, <3>3, DotsOnly, NewDirEntries
    <3>10. /\ \/ AddEntry(par, cell, it, bl, bb, s)
              \/ AddEntryFails(par, it, bl, bb, s)
           /\ rc' # "OK" => AddEntryFails(par, it, bl, bb, s)
           /\ inodeBitmap' = inodeBitmap \cup {i}
           /\ UNCHANGED <<opened, writing>>
      BY <2>2 DEF MkdirNew
    <3>11. it = [inodeTable EXCEPT ![i] = NewDir(b)]
      OBVIOUS
    <3> HIDE DEF cell, it, bl, bb, s
    <3>12. /\ Root \in inodeBitmap'
           /\ Agrees(inodeTable', inodeBitmap')
           /\ Resolve(inodeTable', block', inodeBitmap')
           /\ Single(inodeTable', block')
           /\ \A j \in opened : inodeTable'[j].type = "FILE" /\ Named(inodeTable', block', j)
           /\ \A j : Named(inodeTable, block, j) => Named(inodeTable', block', j)
      <4>1. NewDir(b).type # "FREE"
        BY <3>4
      <4>2. QED
        BY <1>2, <2>0, <3>1, <3>2, <3>4, <3>6, <3>7, <3>8, <3>9, <3>10, <3>11, <4>1,
           NewInodeEntries
    <3>13. Handles'
      <4>1. writing' = {} /\ opened' = opened
        BY <2>0, <3>10
      <4>2. QED
        BY <3>12, <4>1 DEF Handles
    <3>14. EntryInv'
      BY <1>o, <3>12, <3>13 DEF EntryInv
    <3>15. rc' # "OK" => SameEntries(inodeTable, block, inodeTable', block')
      BY <3>9, <3>10 DEF AddEntryFails
    <3>16. QED
      BY <3>12, <3>14, <3>15 DEF EntryStep
  <2>3. QED
    BY <1>2, <2>1, <2>2 DEF Mkdir
<1>3. ASSUME NEW par \in Inodes, NEW n \in Names, Unlink(par, n)
      PROVE  EntryStep
  <2>1. ASSUME NEW i \in Lookup(inodeTable, block, par, n), inodeTable[i].type = "FILE",
               i \notin opened, Discard(par, n, i)
        PROVE  EntryStep
    <3>1. Ready /\ inodeTable[par].type = "DIR"
      BY <1>3 DEF Unlink, ReadyIn
    <3>2. \A p \in Where : ~HasEntry(inodeTable, block, i, p)
      BY <2>1 DEF HasEntry
    <3>3. QED
      BY <1>3, <1>o, <2>1, <3>1, <3>2, DiscardEntryInv
  <2>2. QED
    BY <1>3, <1>f, <2>1 DEF Unlink
<1>4. ASSUME NEW par \in Inodes, NEW n \in Names, Rmdir(par, n)
      PROVE  EntryStep
  <2>1. ASSUME NEW i \in Lookup(inodeTable, block, par, n), inodeTable[i].type = "DIR",
               Listed(inodeTable[i], block) = {}, Discard(par, n, i)
        PROVE  EntryStep
    <3>1. Ready /\ inodeTable[par].type = "DIR"
      BY <1>4 DEF Rmdir, ReadyIn
    <3>2. i \notin opened
      BY <1>h, <2>1
    <3>3. i \in Inodes
      BY <1>4, <1>t, LookupType
    <3>4. ASSUME NEW p \in Where, HasEntry(inodeTable, block, i, p) PROVE FALSE
      <4>1. Target(inodeTable, block, i, p) # Root
        BY <3>3, <3>4 DEF EntryInv, Resolve
      <4>2. p \in Listed(inodeTable[i], block)
        BY <3>4, <4>1 DEF HasEntry, Target, Listed
      <4>3. QED
        BY <2>1, <4>2
    <3>5. QED
      BY <1>4, <1>o, <2>1, <3>1, <3>2, <3>4, DiscardEntryInv
  <2>2. QED
    BY <1>4, <1>f, <2>1 DEF Rmdir
<1>5. ASSUME NEW par \in Inodes, NEW n \in Names, Open(par, n)
      PROVE  EntryStep
  <2>1. ASSUME NEW i \in Lookup(inodeTable, block, par, n), inodeTable[i].type = "FILE",
               opened' = opened \cup {i}, UNCHANGED <<disk, writing>>
        PROVE  EntryStep
    <3>1. PICK p \in FirstPos(Matches(inodeTable[par], block, n)) :
                   i = CellAt(inodeTable[par], block, p).inode
      BY DEF Lookup
    <3>2. p \in Positions(inodeTable[par]) /\ CellAt(inodeTable[par], block, p).name = n
      BY <3>1 DEF FirstPos, Matches
    <3>3. n \notin {NoName, Dot, DotDot}
      BY <1>5, NameAssumption DEF Names
    <3>4. p \in Where /\ inodeTable[par].type = "DIR"
      BY <1>5, <1>t, <3>2, PositionWhere DEF Open, ReadyIn
    <3>5. HasEntry(inodeTable, block, par, p) /\ Target(inodeTable, block, par, p) = i
      BY <3>1, <3>2, <3>3, <3>4 DEF HasEntry, Target
    <3>6. Named(inodeTable, block, i)
      BY <1>5, <3>4, <3>5 DEF Named
    <3>7. UNCHANGED <<inodeTable, block, inodeBitmap, writing>>
      BY <2>1 DEF disk
    <3>8. Handles'
      BY <2>1, <3>6, <3>7 DEF EntryInv, Handles
    <3>9. QED
      BY <1>0, <3>7, <3>8
  <2>2. QED
    BY <1>5, <1>f, <2>1 DEF Open, OpenFound
<1>6. ASSUME NEW par \in Inodes, NEW n \in Names, NEW keep \in 0 .. DirectBlocks,
             Truncate(par, n, keep)
      PROVE  EntryStep
  <2> DEFINE drop(i) == {k \in Pointers(inodeTable[i]) : k >= keep}
  <2>1. ASSUME NEW i \in Lookup(inodeTable, block, par, n), inodeTable[i].type = "FILE",
               inodeTable' = [inodeTable EXCEPT ![i] = Shortened(inodeTable[i], drop(i))],
               UNCHANGED <<inodeBitmap, block, opened, writing>>
        PROVE  EntryStep
    <3> DEFINE r == Shortened(inodeTable[i], drop(i))
    <3>1. i \in Inodes
      BY <1>6, <1>t, LookupType
    <3>2. r.type = "FILE"
      BY <1>t, <2>1, <3>1 DEF Shortened, Inode
    <3>3. inodeTable' = [inodeTable EXCEPT ![i] = r]
      BY <2>1
    <3> HIDE DEF r, drop
    <3>4. /\ SameTypes(inodeTable, inodeTable')
          /\ \A d \in Inodes : inodeTable[d].type = "DIR" => inodeTable'[d] = inodeTable[d]
      BY <1>t, <2>1, <3>1, <3>2, <3>3 DEF SameTypes
    <3>5. SameEntries(inodeTable, block, inodeTable', block')
      BY <2>1, <3>4, FileInodeWritten
    <3>6. QED
      BY <1>h, <1>o, <2>1, <3>4, <3>5, SameEntryInv
  <2>2. QED
    BY <1>6, <1>f, <2>1 DEF Truncate, TruncateFound
<1>7. ASSUME NEW i \in Inodes, Release(i)
      PROVE  EntryStep
  <2>1. UNCHANGED <<inodeTable, block, inodeBitmap>> /\ writing' = {} /\ opened' \subseteq opened
    BY <1>7 DEF Release, Ready, disk
  <2>2. Handles'
    BY <2>1 DEF EntryInv, Handles
  <2>3. QED
    BY <1>0, <2>1, <2>2
<1>8. ASSUME NEW i \in Inodes, NEW first, NEW last, WriteBegin(i, first, last)
      PROVE  EntryStep
  <2>1. CASE inodeTable[i].type = "FILE" /\ ~Fail("EISDIR")
    <3>1. /\ writing' = {[ino |-> i, inode |-> inodeTable[i],
                          first |-> first, next |-> first, last |-> last]}
          /\ UNCHANGED <<inodeTable, block, inodeBitmap, opened>> /\ i \in opened
      BY <1>8, <2>1 DEF WriteBegin, disk
    <3>2. Handles'
      BY <2>1, <3>1 DEF EntryInv, Handles
    <3>3. QED
      BY <1>0, <3>1, <3>2
  <2>2. QED
    BY <1>8, <1>f, <2>1 DEF WriteBegin
<1>9. ASSUME NEW w \in writing, NEW b, NEW v, block' = [block EXCEPT ![b] = DataBlock],
             \A d \in Inodes, k \in Idx : inodeTable[d].type = "DIR"
                 /\ inodeTable[d].direct[k] # NoBlock => inodeTable[d].direct[k] # b,
             UNCHANGED <<inodeTable, inodeBitmap, opened>>,
             writing' = {v}, v.ino = w.ino, v.inode.type = "FILE"
      PROVE  EntryStep
  <2>1. SameEntries(inodeTable, block, inodeTable', block')
    BY <1>9, <1>t, OtherBlockWritten
  <2>2. SameTypes(inodeTable, inodeTable')
    BY <1>9 DEF SameTypes
  <2>3. QED
    BY <1>9, <1>h, <1>o, <2>1, <2>2, SameEntryInv
<1>10. ASSUME NEW w \in writing, WriteInPlace(w)
       PROVE  EntryStep
  <2> DEFINE b == w.inode.direct[w.next]
             m == w.next + 1
             v == [w EXCEPT !.next = m]
  <2>1. w.next \in Idx
    BY <1>10, <1>h, GeometryAssumption DEF WriteInPlace, InLoop, WriteLoop
  <2>2. \A d \in Inodes, k \in Idx : inodeTable[d].type = "DIR"
           /\ inodeTable[d].direct[k] # NoBlock => inodeTable[d].direct[k] # b
    BY <1>h, <1>o, <2>1 DEF OwnershipInv, NoSharedBlock, Apart
  <2>3. /\ block' = [block EXCEPT ![b] = DataBlock] /\ writing' = {v}
        /\ UNCHANGED <<inodeTable, inodeBitmap, opened>>
    BY <1>10 DEF WriteInPlace
  <2> HIDE DEF b, m
  <2>4. v.ino = w.ino /\ v.inode.type = "FILE"
    BY <1>h DEF WriteLoop
  <2> HIDE DEF v
  <2>5. QED
    BY <1>9, <2>2, <2>3, <2>4
<1>11. ASSUME NEW w \in writing, WriteAlloc(w)
       PROVE  EntryStep
  <2>1. w.next \in Idx
    BY <1>11, <1>h, GeometryAssumption DEF WriteAlloc, InLoop, WriteLoop
  <2>2. PICK b \in FirstFit(DataBlocks \ blockBitmap) :
           /\ block' = [block EXCEPT ![b] = DataBlock]
           /\ writing' = {[w EXCEPT !.next = @ + 1, !.inode = WithBlock(@, w.next, b)]}
    BY <1>11 DEF WriteAlloc
  <2>3. b \in DataBlocks /\ b \notin blockBitmap
    BY DEF FirstFit
  <2>4. \A d \in Inodes, k \in Idx : inodeTable[d].type = "DIR"
           /\ inodeTable[d].direct[k] # NoBlock => inodeTable[d].direct[k] # b
    BY <1>t, <2>3 DEF TableCovered, Covered
  <2> DEFINE r == WithBlock(w.inode, w.next, b)
             m == w.next + 1
             v == [w EXCEPT !.next = m, !.inode = r]
  <2>5. r.type = "FILE"
    BY <1>h, <2>1, <2>3, WithBlockFields
  <2>6. writing' = {v}
    BY <2>2
  <2> HIDE DEF m, r
  <2>7. v.ino = w.ino /\ v.inode.type = "FILE"
    BY <1>h, <2>5 DEF WriteLoop
  <2> HIDE DEF v
  <2>8. UNCHANGED <<inodeTable, inodeBitmap, opened>>
    BY <1>11 DEF WriteAlloc
  <2>9. QED
    BY <1>9, <2>2, <2>4, <2>6, <2>7, <2>8
<1>12. ASSUME NEW w \in writing, WriteNoSpace(w)
       PROVE  EntryStep
  <2>1. UNCHANGED <<inodeTable, block, inodeBitmap, opened>> /\ writing' = {}
    BY <1>12 DEF WriteNoSpace, disk
  <2>2. Handles'
    BY <2>1 DEF EntryInv, Handles
  <2>3. QED
    BY <1>0, <2>1, <2>2
<1>13. ASSUME NEW w \in writing, WriteEnd(w)
       PROVE  EntryStep
  <2>1. /\ inodeTable' = [inodeTable EXCEPT ![w.ino] = w.inode]
        /\ UNCHANGED <<inodeBitmap, block, opened>> /\ writing' = {}
    BY <1>13 DEF WriteEnd
  <2>2. /\ SameTypes(inodeTable, inodeTable')
        /\ \A d \in Inodes : inodeTable[d].type = "DIR" => inodeTable'[d] = inodeTable[d]
    BY <1>h, <1>t, <2>1 DEF SameTypes
  <2>3. SameEntries(inodeTable, block, inodeTable', block')
    BY <2>1, <2>2, FileInodeWritten
  <2>4. QED
    BY <1>o, <2>1, <2>2, <2>3, SameEntryInv
<1>14. CASE Mount \/ UNCHANGED vars
  <2>1. UNCHANGED <<inodeTable, block, inodeBitmap, opened, writing>>
    BY <1>14 DEF Mount, disk, vars
  <2>2. Handles'
    BY <2>1 DEF EntryInv, Handles
  <2>3. QED
    BY <1>0, <2>1, <2>2
<1>15. CASE Unmount \/ Kill
  <2>1. UNCHANGED <<inodeTable, block, inodeBitmap>> /\ opened' = {} /\ writing' = {}
    BY <1>15 DEF Unmount, Kill, Ready, disk
  <2>2. Handles'
    BY <2>1 DEF Handles
  <2>3. QED
    BY <1>0, <2>1, <2>2
<1>16. QED
  BY <1>1, <1>2, <1>3, <1>4, <1>5, <1>6, <1>7, <1>8, <1>10, <1>11, <1>12, <1>13, <1>14, <1>15
     DEF Next

-----------------------------------------------------------------------------
(* The theorems *)

\* What holds of all paths holds in every reachable state.
LEMMA BitsInvariant == Spec => []BitsInv
<1>1. BitsInv /\ [Next]_vars => BitsInv'
  BY NextBits DEF BitsStep
<1>2. QED
  BY <1>1, InitBits, PTL DEF Spec

\* The invariant holds in every reachable state where every path fits.
LEMMA EntriesInvariant == ~CutPaths /\ Spec => []EntryInv
<1>1. ~CutPaths /\ EntryInv /\ [Next]_vars => EntryInv'
  BY NextEntries DEF EntryStep
<1>2. CASE ~CutPaths
  <2>1. EntryInv /\ [Next]_vars => EntryInv'
    BY <1>1, <1>2
  <2>2. QED
    BY <2>1, InitEntries, PTL DEF Spec
<1>3. QED
  BY <1>2

\* The inode allocator hands out no inode that is still a file or directory,
\* and loses none: bits and types never disagree, also where paths are cut.
THEOREM BitsAndTypesAgree == Spec => []BitmapAgrees
<1>1. BitsInv => BitmapAgrees
  BY DEF BitsInv, Agrees, BitmapAgrees
<1>2. QED
  BY <1>1, BitsInvariant, PTL

\* While no path is cut, every entry of every directory names an inode in use,
\* the root excepted, and no other entry names it: nothing dangles, and no entry
\* comes to alias a new file through the reuse of inode numbers and blocks.
THEOREM EveryEntryResolves == ~CutPaths /\ Spec => []EntriesResolve
  BY EntriesInvariant, EntryImplies, PTL

\* While no path is cut, an open handle, and the write that goes through it, is
\* of a file that is still in a directory.
THEOREM EveryHandleValid == ~CutPaths /\ Spec => []HandlesValid
  BY EntriesInvariant, EntryImplies, PTL

\* While no path is cut, no step takes an entry from an inode that stays, or an
\* inode from an entry that stays.
THEOREM EntriesGoWithInodes == ~CutPaths /\ Spec => EntryAndInodeTogether
<1>1. ~CutPaths /\ EntryInv /\ [Next]_vars => Linked \cap inodeBitmap' = Linked \cap Linked'
  <2> SUFFICES ASSUME ~CutPaths, EntryInv, [Next]_vars, NEW i \in Linked
               PROVE  i \in inodeBitmap' <=> i \in Linked'
    OBVIOUS
  <2>1. EntryStep
    BY NextEntries
  <2>2. ASSUME i \in inodeBitmap' PROVE i \in Linked'
    BY <2>1, <2>2, LinkedIsNamed DEF EntryStep
  <2>3. ASSUME i \in Linked' PROVE i \in inodeBitmap'
    <3>1. Named(inodeTable', block', i)
      BY <2>3, LinkedIsNamed
    <3>2. Resolve(inodeTable', block', inodeBitmap')
      BY <2>1 DEF EntryStep, EntryInv
    <3>3. QED
      BY <3>1, <3>2 DEF Named, Resolve
  <2>4. QED
    BY <2>2, <2>3
<1>2. CASE ~CutPaths
  <2>1. EntryInv /\ [Next]_vars => Linked \cap inodeBitmap' = Linked \cap Linked'
    BY <1>1, <1>2
  <2>2. Spec => []EntryInv
    BY <1>2, EntriesInvariant
  <2>3. QED
    BY <2>1, <2>2, PTL DEF EntryAndInodeTogether, Spec
<1>3. QED
  BY <1>2

\* A callback that returns an error has changed no directory, also where its
\* path was cut.
THEOREM ErrorsChangeNothing == Spec => FailureLeavesTree
<1>1. BitsInv /\ [Next]_vars => (rc' # "OK" => Links' = Links)
  <2> SUFFICES ASSUME BitsInv, [Next]_vars, rc' # "OK", NEW l
               PROVE  l \in Links' <=> l \in Links
    OBVIOUS
  <2>1. SameEntries(inodeTable, block, inodeTable', block')
    BY NextBits DEF BitsStep
  <2>2. QED
    BY <2>1, LinksAreEntries, LinksAreEntriesNext DEF SameEntries
<1>2. QED
  BY <1>1, BitsInvariant, PTL DEF FailureLeavesTree, Spec
=============================================================================
