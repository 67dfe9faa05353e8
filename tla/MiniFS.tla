------------------------------- MODULE MiniFS -------------------------------
(***************************************************************************)
(* The MiniFS driver (src/src/minifs_fuse.c over minifs_core.c) served one *)
(* callback at a time, as with the option -s.  Every FUSE callback is one  *)
(* action with all the disk updates it makes; only mfs_write, whose loop   *)
(* keeps a private copy of the inode from its first to its last block, is  *)
(* taken apart, so that the process can die inside it.  Kill is SIGKILL or *)
(* a power loss with every completed write on disk: what is in memory (the *)
(* superblock, open handles, the write loop) is lost.                      *)
(*                                                                         *)
(* The kernel and libfuse are the environment: the path of a callback      *)
(* names a directory they have found and one last component; libfuse holds *)
(* back the unlink of a file that is open (its hidden rename is not        *)
(* implemented by this driver); every create is followed by a getattr of   *)
(* the same path.                                                          *)
(*                                                                         *)
(* minifs_path_to_ino and parent_dir copy a path into 256 bytes and cut    *)
(* what exceeds them.  A callback whose path fits is an action of its name *)
(* (Create, Unlink, ...); one whose path is cut is the action CutCreate,   *)
(* CutUnlink, ..., on the inodes that the cut path and its parent resolve  *)
(* to.  These are steps where CutPaths says that such paths come.          *)
(***************************************************************************)
EXTENDS MiniFSDisk

CONSTANTS
    CanKill,      \* whether the process may die without unmounting
    CutPaths      \* whether callbacks come with paths of more than PathMax bytes

ASSUME KillAssumption == CanKill \in BOOLEAN
ASSUME CutAssumption  == CutPaths \in BOOLEAN

VARIABLES
    inodeBitmap,   \* block 1
    blockBitmap,   \* block 2, as absolute numbers of data blocks
    inodeTable,    \* blocks 3 .. DataStart - 1
    block,         \* the data blocks
    diskSb,        \* the counters of block 0
    sb,            \* the counters of g_ctx.sb, in memory
    mounted,       \* g_ctx.fd >= 0
    opened,        \* inodes some open handle (fi->fh) names
    writing,       \* the mfs_write in progress, if any
    rc             \* what the last callback returned

disk == <<inodeBitmap, blockBitmap, inodeTable, block>>
vars == <<inodeBitmap, blockBitmap, inodeTable, block, diskSb, sb, mounted,
          opened, writing, rc>>

\* The locals of a write loop: block_index runs from first to last, inode is
\* the copy that is written back after the loop.
WriteLoop == [ino : Inodes, inode : Inode, first : Nat, next : Nat, last : Nat]

NoSb == [free_blocks |-> 0, free_inodes |-> 0]

\* mkfs_mini
Init ==
    /\ inodeBitmap = {Root}
    /\ blockBitmap = {DataStart}
    /\ inodeTable = [i \in Inodes |-> IF i = Root THEN NewDir(DataStart) ELSE FreeInode]
    /\ block = [b \in DataBlocks |-> IF b = DataStart THEN DotsBlock(Root, Root)
                                                      ELSE ZeroBlock]
    /\ diskSb = [free_blocks |-> TotalBlocks - DataStart - 1, free_inodes |-> MaxInodes - 1]
    /\ sb = NoSb
    /\ mounted = FALSE
    /\ opened = {}
    /\ writing = {}
    /\ rc = "OK"

-----------------------------------------------------------------------------
Ready == mounted /\ writing = {}

\* No other callback is running, and the callback's path, which is not cut,
\* names n in directory par.
ReadyIn(par, n) == /\ Ready
                   /\ inodeTable[par].type = "DIR"
                   /\ Fits(inodeTable, block, par, n)

\* An early return: nothing is changed.
Fail(code) ==
    /\ rc' = code
    /\ UNCHANGED <<disk, diskSb, sb, mounted, opened, writing>>

(* minifs_dir_add_entry, on the table, blocks, block bitmap and counters   *)
(* its caller has already updated.                                         *)
FillSlot(par, cell, it, bl, bb, s) ==
    \E p \in FirstPos(FreeSlots(it[par], bl)) :
        /\ block' = [bl EXCEPT ![it[par].direct[p[1]]][p[2]] = cell]
        /\ inodeTable' = it
        /\ blockBitmap' = bb
        /\ sb' = s

\* Mutant: the new block keeps what its last owner left in it.
GrowDir_NotZeroed(par, cell, it, bl, bb, s) ==
    /\ FreeSlots(it[par], bl) = {}
    /\ \E k \in FirstFit(Holes(it[par])), b \in FirstFit(DataBlocks \ bb) :
        /\ block' = [bl EXCEPT ![b][0] = cell]
        /\ inodeTable' = [it EXCEPT ![par] = WithBlock(@, k, b)]
        /\ blockBitmap' = bb \cup {b}
        /\ sb' = TakeBlock(s)

GrowDir(par, cell, it, bl, bb, s) ==
    /\ FreeSlots(it[par], bl) = {}
    /\ \E k \in FirstFit(Holes(it[par])), b \in FirstFit(DataBlocks \ bb) :
        /\ block' = [bl EXCEPT ![b] = [ZeroBlock EXCEPT ![0] = cell]]
        /\ inodeTable' = [it EXCEPT ![par] = WithBlock(@, k, b)]
        /\ blockBitmap' = bb \cup {b}
        /\ sb' = TakeBlock(s)

AddEntry(par, cell, it, bl, bb, s) ==
    \/ FillSlot(par, cell, it, bl, bb, s)
    \/ GrowDir(par, cell, it, bl, bb, s)

\* The entry finds no place; what the caller did before stays done.
AddEntryFails(par, it, bl, bb, s) ==
    /\ FreeSlots(it[par], bl) = {}
    /\ Holes(it[par]) = {} \/ DataBlocks \subseteq bb
    /\ block' = bl
    /\ inodeTable' = it
    /\ blockBitmap' = bb
    /\ sb' = s

-----------------------------------------------------------------------------
(* mfs_create *)

CreateRefused(par, n) ==
    \/ Lookup(inodeTable, block, par, n) # {} /\ Fail("EEXIST")
    \/ /\ Lookup(inodeTable, block, par, n) = {}
       /\ Inodes \subseteq inodeBitmap
       /\ Fail("ENOSPC")

\* The handle exists only if the getattr libfuse sends next finds the name.
CreateNew(par, n, i) ==
    LET it == [inodeTable EXCEPT ![i] = NewFile] IN
    /\ Lookup(inodeTable, block, par, n) = {}
    /\ inodeBitmap' = inodeBitmap \cup {i}
    /\ \/ /\ AddEntry(par, [inode |-> i, name |-> Stored(n)], it, block, blockBitmap, TakeInode(sb))
          /\ diskSb' = sb'
          /\ opened' = IF i \in Lookup(inodeTable', block', par, n)
                       THEN opened \cup {i} ELSE opened
          /\ rc' = "OK"
       \/ /\ AddEntryFails(par, it, block, blockBitmap, TakeInode(sb))
          /\ rc' = "ENOSPC"
          /\ UNCHANGED <<diskSb, opened>>
    /\ UNCHANGED <<mounted, writing>>

Create(par, n) ==
    /\ ReadyIn(par, n)
    /\ \/ CreateRefused(par, n)
       \/ \E i \in FirstFit(Inodes \ inodeBitmap) : CreateNew(par, n, i)

-----------------------------------------------------------------------------
(* mfs_mkdir *)

MkdirRefused(par, n) ==
    \/ Lookup(inodeTable, block, par, n) # {} /\ Fail("EEXIST")
    \/ /\ Lookup(inodeTable, block, par, n) = {}
       /\ Inodes \subseteq inodeBitmap \/ DataBlocks \subseteq blockBitmap
       /\ Fail("ENOSPC")

MkdirNew(par, n, i, b) ==
    LET it == [inodeTable EXCEPT ![i] = NewDir(b)]
        bl == [block EXCEPT ![b] = DotsBlock(i, par)]
        bb == blockBitmap \cup {b}
        s  == TakeInode(TakeBlock(sb))
    IN
    /\ Lookup(inodeTable, block, par, n) = {}
    /\ inodeBitmap' = inodeBitmap \cup {i}
    /\ \/ /\ AddEntry(par, [inode |-> i, name |-> Stored(n)], it, bl, bb, s)
          /\ diskSb' = sb'
          /\ rc' = "OK"
       \/ /\ AddEntryFails(par, it, bl, bb, s)
          /\ rc' = "ENOSPC"
          /\ UNCHANGED diskSb
    /\ UNCHANGED <<mounted, opened, writing>>

Mkdir(par, n) ==
    /\ ReadyIn(par, n)
    /\ \/ MkdirRefused(par, n)
       \/ \E i \in FirstFit(Inodes \ inodeBitmap), b \in FirstFit(DataBlocks \ blockBitmap) :
              MkdirNew(par, n, i, b)

-----------------------------------------------------------------------------
(* mfs_unlink and mfs_rmdir: free the blocks, the inode and its bit, then  *)
(* clear the entry of that name.                                           *)

\* Mutants: the update is computed and never written.
InodeFree_NotWritten(i)           == UNCHANGED inodeBitmap
DirRemoveEntry_NotWritten(par, n) == UNCHANGED block

\* minifs_block_free for the blocks ino.direct[k], k \in K
BlockFree(ino, K) == blockBitmap' = blockBitmap \ {ino.direct[k] : k \in K}

InodeFree(i) == inodeBitmap' = inodeBitmap \ {i}

DirRemoveEntry(par, n) ==
    \E p \in FirstPos(Matches(inodeTable[par], block, n)) :
        block' = [block EXCEPT ![inodeTable[par].direct[p[1]]][p[2]] = FreeCell]

Discard(par, n, i) ==
    /\ BlockFree(inodeTable[i], Pointers(inodeTable[i]))
    /\ inodeTable' = [inodeTable EXCEPT ![i] = FreeInode]
    /\ InodeFree(i)
    /\ DirRemoveEntry(par, n)
    /\ sb' = GiveInode(GiveBlocks(sb, Pointers(inodeTable[i])))
    /\ diskSb' = sb'
    /\ rc' = "OK"
    /\ UNCHANGED <<mounted, opened, writing>>

\* Mutant: the entry goes before the type is looked at.
Unlink_TypeCheckedLate(par, n) ==
    /\ ReadyIn(par, n)
    /\ \E i \in Lookup(inodeTable, block, par, n) :
          \/ /\ inodeTable[i].type # "FILE"
             /\ DirRemoveEntry(par, n)
             /\ rc' = "EISDIR"
             /\ UNCHANGED <<inodeBitmap, blockBitmap, inodeTable, diskSb, sb, mounted,
                            opened, writing>>
          \/ inodeTable[i].type = "FILE" /\ i \notin opened /\ Discard(par, n, i)

Unlink(par, n) ==
    /\ ReadyIn(par, n)
    /\ \/ Lookup(inodeTable, block, par, n) = {} /\ Fail("ENOENT")
       \/ \E i \in Lookup(inodeTable, block, par, n) :
             \/ inodeTable[i].type # "FILE" /\ Fail("EISDIR")
             \/ /\ inodeTable[i].type = "FILE"
                /\ i \notin opened
                /\ Discard(par, n, i)

Rmdir(par, n) ==
    /\ ReadyIn(par, n)
    /\ \/ Lookup(inodeTable, block, par, n) = {} /\ Fail("ENOENT")
       \/ \E i \in Lookup(inodeTable, block, par, n) :
             \/ inodeTable[i].type # "DIR" /\ Fail("ENOTDIR")
             \/ /\ inodeTable[i].type = "DIR"
                /\ Listed(inodeTable[i], block) # {}
                /\ Fail("ENOTEMPTY")
             \/ /\ inodeTable[i].type = "DIR"
                /\ Listed(inodeTable[i], block) = {}
                /\ Discard(par, n, i)

-----------------------------------------------------------------------------
(* mfs_open, and the kernel's release of the last handle *)

\* Mutant: a directory opens like a file.
Open_AnyType(par, n) ==
    /\ ReadyIn(par, n)
    /\ \E i \in Lookup(inodeTable, block, par, n) : opened' = opened \cup {i}
    /\ rc' = "OK"
    /\ UNCHANGED <<disk, diskSb, sb, mounted, writing>>

OpenFound(found) ==
    \/ found = {} /\ Fail("ENOENT")
    \/ \E i \in found :
          \/ inodeTable[i].type # "FILE" /\ Fail("EISDIR")
          \/ /\ inodeTable[i].type = "FILE"
             /\ opened' = opened \cup {i}
             /\ rc' = "OK"
             /\ UNCHANGED <<disk, diskSb, sb, mounted, writing>>

Open(par, n) == ReadyIn(par, n) /\ OpenFound(Lookup(inodeTable, block, par, n))

Release(i) ==
    /\ Ready
    /\ i \in opened
    /\ opened' = opened \ {i}
    /\ rc' = "OK"
    /\ UNCHANGED <<disk, diskSb, sb, mounted, writing>>

-----------------------------------------------------------------------------
(* mfs_truncate to a size of keep blocks, the last one possibly partial *)

\* Mutants: the pointer of the first dropped block stays; blocks_used stays.
Shortened_FirstKept(ino, drop) ==
    [ino EXCEPT !.direct = [k \in Idx |-> IF k \in drop /\ k - 1 \in drop THEN NoBlock ELSE @[k]],
                !.blocks_used = IF @ > Cardinality(drop) THEN @ - Cardinality(drop) ELSE 0]
Shortened_CountKept(ino, drop) ==
    [ino EXCEPT !.direct = [k \in Idx |-> IF k \in drop THEN NoBlock ELSE @[k]]]

Shortened(ino, drop) ==
    [ino EXCEPT !.direct = [k \in Idx |-> IF k \in drop THEN NoBlock ELSE @[k]],
                !.blocks_used = IF @ > Cardinality(drop) THEN @ - Cardinality(drop) ELSE 0]

TruncateFound(found, keep) ==
    \/ found = {} /\ Fail("ENOENT")
    \/ \E i \in found :
          \/ inodeTable[i].type # "FILE" /\ Fail("EISDIR")
          \/ LET ino  == inodeTable[i]
                 drop == {k \in Pointers(ino) : k >= keep}
             IN
             /\ ino.type = "FILE"
             /\ BlockFree(ino, drop)
             /\ inodeTable' = [inodeTable EXCEPT ![i] = Shortened(ino, drop)]
             /\ sb' = GiveBlocks(sb, drop)
             /\ diskSb' = sb'
             /\ rc' = "OK"
             /\ UNCHANGED <<inodeBitmap, block, mounted, opened, writing>>

Truncate(par, n, keep) ==
    /\ ReadyIn(par, n)
    /\ TruncateFound(Lookup(inodeTable, block, par, n), keep)

-----------------------------------------------------------------------------
(* The callbacks whose path is cut after PathMax bytes *)

\* A path of that many bytes names inode i, an entry of directory d.
NamedBy(d, i, bytes) ==
    \E m \in ShortNames : /\ Length[m] < bytes
                          /\ d \in DirsAt(inodeTable, block)[bytes - 1 - Length[m]]
                          /\ i \in Lookup(inodeTable, block, d, m)

\* What is kept of the path names i: it ends in an entry, or in bytes of a name
\* that are an entry's too, or in the '/' after an entry, which is all that
\* parent_dir then removes.  Callbacks come for paths below what the kernel
\* holds for a directory, whatever i is by now.
CutFound(i, d) == \/ NamedBy(d, i, PathMax)
                  \/ d = i /\ \E e \in Inodes : NamedBy(e, i, PathMax - 1)

\* It names nothing, and d is what its parent resolves to: the bytes that are
\* kept of the last name n are no entry's, or the kernel still holds a name
\* whose first bytes, m, were an entry's, or a name of what was a directory.
CutNotFound(n, d) ==
    \/ \E k \in 0 .. PathMax - 2 : /\ d \in DirsAt(inodeTable, block)[k]
                                   /\ k + 1 + Length[n] > PathMax
    \/ \E m \in ShortNames : /\ Length[m] < PathMax
                             /\ d \in DirsAt(inodeTable, block)[PathMax - 1 - Length[m]]
    \/ /\ inodeTable[d].type # "DIR"
       /\ \E e \in Inodes, k \in 1 .. PathMax : NamedBy(e, d, k)

\* What path and parent resolve to, if anything: the kernel may hold a parent
\* that is gone.
CutPlaces(n) ==
    LET atMostOne == {{}} \cup {{i} : i \in Inodes}
    IN  {at \in [ino : atMostOne, par : atMostOne] :
            \/ \E i \in at.ino, d \in at.par : CutFound(i, d)
            \/ at.ino = {} /\ \A d \in at.par : CutNotFound(n, d)}

\* minifs_dir_add_entry into the parent, if there is one; it refuses what is
\* not a directory.
CutAdd(par, cell, it, bl, bb, s) ==
    \/ /\ \E p \in par : it[p].type = "DIR" /\ AddEntry(p, cell, it, bl, bb, s)
       /\ diskSb' = sb'
       /\ rc' = "OK"
    \/ /\ \E p \in par : it[p].type = "DIR" /\ AddEntryFails(p, it, bl, bb, s)
       /\ rc' = "ENOSPC"
       /\ UNCHANGED diskSb
    \/ /\ \A p \in par : it[p].type # "DIR"
       /\ rc' = IF par = {} THEN "ENOENT" ELSE "ENOTDIR"
       /\ inodeTable' = it
       /\ block' = bl
       /\ blockBitmap' = bb
       /\ sb' = s
       /\ UNCHANGED diskSb

\* The inode is allocated before the parent is looked up.  The getattr that
\* follows may find the new entry or not.
CutCreate(n, at) ==
    \/ at.ino # {} /\ Fail("EEXIST")
    \/ at.ino = {} /\ Inodes \subseteq inodeBitmap /\ Fail("ENOSPC")
    \/ \E i \in FirstFit(Inodes \ inodeBitmap) :
          /\ at.ino = {}
          /\ inodeBitmap' = inodeBitmap \cup {i}
          /\ CutAdd(at.par, [inode |-> i, name |-> Stored(n)], [inodeTable EXCEPT ![i] = NewFile],
                    block, blockBitmap, TakeInode(sb))
          /\ opened' \in {opened, IF rc' = "OK" THEN opened \cup {i} ELSE opened}
          /\ UNCHANGED <<mounted, writing>>

\* Without a parent the new directory's block stays without its dots.
CutMkdir(n, at) ==
    \/ at.ino # {} /\ Fail("EEXIST")
    \/ /\ at.ino = {}
       /\ Inodes \subseteq inodeBitmap \/ DataBlocks \subseteq blockBitmap
       /\ Fail("ENOSPC")
    \/ \E i \in FirstFit(Inodes \ inodeBitmap), b \in FirstFit(DataBlocks \ blockBitmap) :
          /\ at.ino = {}
          /\ inodeBitmap' = inodeBitmap \cup {i}
          /\ \E contents \in IF at.par = {} THEN {ZeroBlock} ELSE {DotsBlock(i, p) : p \in at.par} :
                CutAdd(at.par, [inode |-> i, name |-> Stored(n)],
                       [inodeTable EXCEPT ![i] = NewDir(b)], [block EXCEPT ![b] = contents],
                       blockBitmap \cup {b}, TakeInode(TakeBlock(sb)))
          /\ UNCHANGED <<mounted, opened, writing>>

\* minifs_dir_remove_entry after inode i was freed, whose result is ignored:
\* the parent may be gone with it or have no entry n.
CutRemoveEntry(par, n, i) ==
    LET it    == [inodeTable EXCEPT ![i] = FreeInode]
        cells == UNION {{<<it[p].direct[q[1]], q[2]>> : q \in FirstPos(Matches(it[p], block, n))} :
                          p \in par}
    IN  block' = [b \in DataBlocks |-> [s \in Slots |->
                    IF <<b, s>> \in cells THEN FreeCell ELSE block[b][s]]]

\* libfuse holds back no unlink here: it knows open files by their names.
CutDiscard(n, i, par) ==
    /\ BlockFree(inodeTable[i], Pointers(inodeTable[i]))
    /\ inodeTable' = [inodeTable EXCEPT ![i] = FreeInode]
    /\ InodeFree(i)
    /\ CutRemoveEntry(par, n, i)
    /\ sb' = GiveInode(GiveBlocks(sb, Pointers(inodeTable[i])))
    /\ diskSb' = sb'
    /\ rc' = "OK"
    /\ UNCHANGED <<mounted, opened, writing>>

CutUnlink(n, at) ==
    \/ at.ino = {} /\ Fail("ENOENT")
    \/ \E i \in at.ino :
          \/ inodeTable[i].type # "FILE" /\ Fail("EISDIR")
          \/ inodeTable[i].type = "FILE" /\ CutDiscard(n, i, at.par)

CutRmdir(n, at) ==
    \/ at.ino = {} /\ Fail("ENOENT")
    \/ \E i \in at.ino :
          \/ inodeTable[i].type # "DIR" /\ Fail("ENOTDIR")
          \/ /\ inodeTable[i].type = "DIR"
             /\ Listed(inodeTable[i], block) # {}
             /\ Fail("ENOTEMPTY")
          \/ /\ inodeTable[i].type = "DIR"
             /\ Listed(inodeTable[i], block) = {}
             /\ CutDiscard(n, i, at.par)

-----------------------------------------------------------------------------
(* mfs_write through a handle: the loop over the blocks first .. last *)

WriteBegin(i, first, last) ==
    /\ Ready
    /\ i \in opened
    /\ first <= last
    /\ \/ inodeTable[i].type # "FILE" /\ Fail("EISDIR")
       \/ /\ inodeTable[i].type = "FILE"
          /\ writing' = {[ino |-> i, inode |-> inodeTable[i],
                          first |-> first, next |-> first, last |-> last]}
          /\ UNCHANGED <<disk, diskSb, sb, mounted, opened, rc>>

InLoop(w) == w.next <= w.last /\ w.next < DirectBlocks

WriteInPlace(w) ==
    /\ InLoop(w)
    /\ w.inode.direct[w.next] # NoBlock
    /\ block' = [block EXCEPT ![w.inode.direct[w.next]] = DataBlock]
    /\ writing' = {[w EXCEPT !.next = @ + 1]}
    /\ UNCHANGED <<inodeBitmap, blockBitmap, inodeTable, diskSb, sb, mounted, opened, rc>>

\* Mutant: the block is handed out before its bit is set.
WriteAlloc_Unmarked(w) ==
    /\ InLoop(w)
    /\ w.inode.direct[w.next] = NoBlock
    /\ \E b \in FirstFit(DataBlocks \ blockBitmap) :
        /\ block' = [block EXCEPT ![b] = DataBlock]
        /\ sb' = TakeBlock(sb)
        /\ writing' = {[w EXCEPT !.next = @ + 1, !.inode = WithBlock(@, w.next, b)]}
    /\ UNCHANGED <<inodeBitmap, blockBitmap, inodeTable, diskSb, mounted, opened, rc>>

WriteAlloc(w) ==
    /\ InLoop(w)
    /\ w.inode.direct[w.next] = NoBlock
    /\ \E b \in FirstFit(DataBlocks \ blockBitmap) :
        /\ blockBitmap' = blockBitmap \cup {b}
        /\ block' = [block EXCEPT ![b] = DataBlock]
        /\ sb' = TakeBlock(sb)
        /\ writing' = {[w EXCEPT !.next = @ + 1, !.inode = WithBlock(@, w.next, b)]}
    /\ UNCHANGED <<inodeBitmap, inodeTable, diskSb, mounted, opened, rc>>

\* The early return inside the loop: the inode copy is dropped.
WriteNoSpace(w) ==
    /\ InLoop(w)
    /\ w.inode.direct[w.next] = NoBlock
    /\ DataBlocks \subseteq blockBitmap
    /\ rc' = IF w.next > w.first THEN "SHORT" ELSE "ENOSPC"
    /\ writing' = {}
    /\ UNCHANGED <<disk, diskSb, sb, mounted, opened>>

\* Mutant: the private copy of the inode is not written back.
WriteEnd_InodeNotWritten(w) ==
    /\ ~InLoop(w)
    /\ diskSb' = sb
    /\ rc' = "OK"
    /\ writing' = {}
    /\ UNCHANGED <<disk, sb, mounted, opened>>

WriteEnd(w) ==
    /\ ~InLoop(w)
    /\ inodeTable' = [inodeTable EXCEPT ![w.ino] = w.inode]
    /\ diskSb' = sb
    /\ rc' = "OK"
    /\ writing' = {}
    /\ UNCHANGED <<inodeBitmap, blockBitmap, block, sb, mounted, opened>>

-----------------------------------------------------------------------------
(* The life of the process: minifs_open, minifs_close after fuse_main      *)
(* returns, and a death that skips minifs_close.                           *)

Mount ==
    /\ ~mounted
    /\ mounted' = TRUE
    /\ sb' = diskSb
    /\ rc' = "OK"
    /\ UNCHANGED <<disk, diskSb, opened, writing>>

Unmount ==
    /\ Ready
    /\ diskSb' = sb
    /\ sb' = NoSb
    /\ mounted' = FALSE
    /\ opened' = {}
    /\ rc' = "OK"
    /\ UNCHANGED <<disk, writing>>

Kill ==
    /\ CanKill
    /\ mounted
    /\ sb' = NoSb
    /\ mounted' = FALSE
    /\ opened' = {}
    /\ writing' = {}
    /\ rc' = "OK"
    /\ UNCHANGED <<disk, diskSb>>

Next ==
    \/ \E par \in Inodes, n \in Names :
          \/ Create(par, n) \/ Mkdir(par, n) \/ Unlink(par, n) \/ Rmdir(par, n)
          \/ Open(par, n)
          \/ \E keep \in 0 .. DirectBlocks : Truncate(par, n, keep)
    \/ /\ CutPaths /\ Ready
       /\ \E n \in Names : \E at \in CutPlaces(n) :
             \/ CutCreate(n, at) \/ CutMkdir(n, at)
             \/ CutUnlink(n, at) \/ CutRmdir(n, at)
             \/ OpenFound(at.ino)
             \/ \E keep \in 0 .. DirectBlocks : TruncateFound(at.ino, keep)
    \/ \E i \in Inodes :
          \/ Release(i)
          \/ \E first, last \in 0 .. DirectBlocks : WriteBegin(i, first, last)
    \/ \E w \in writing : WriteInPlace(w)
    \/ \E w \in writing : WriteAlloc(w)
    \/ \E w \in writing : WriteNoSpace(w)
    \/ \E w \in writing : WriteEnd(w)
    \/ Mount \/ Unmount \/ Kill

Spec == Init /\ [][Next]_vars

-----------------------------------------------------------------------------
(* Views of a state the properties are stated in *)

DirInodes == {d \in Inodes : inodeTable[d].type = "DIR"}

\* Every named entry of directory d, "." and ".." apart, with its position.
EntriesOf(d) ==
    {p \in Positions(inodeTable[d]) :
        CellAt(inodeTable[d], block, p).name \notin {NoName, Dot, DotDot}}

EntryAt(d, p) == CellAt(inodeTable[d], block, p)

\* The tree as a set of (directory, position, inode) links.
Links == UNION {{<<d, p, EntryAt(d, p).inode>> : p \in EntriesOf(d)} : d \in DirInodes}

Linked == {l[3] : l \in Links}

\* Block pointers on disk or in the private copy of a write loop.
Referenced == (UNION {Refs(inodeTable[i]) : i \in Inodes})
              \cup (UNION {Refs(w.inode) : w \in writing})

\* Marked in a bitmap, but out of reach of every path and write loop.
InTree == {Root} \cup Linked
LeakedInodes == inodeBitmap \ InTree
TreeBlocks   == UNION {Refs(inodeTable[i]) : i \in InTree}
LeakedBlocks == blockBitmap \ (TreeBlocks \cup (UNION {Refs(w.inode) : w \in writing}))

\* No block is pointed to by two slots of inodes i and j.
Apart(i, x, j, y) ==
    \A k, l \in Idx : x.direct[k] # NoBlock /\ x.direct[k] = y.direct[l] => i = j /\ k = l

-----------------------------------------------------------------------------
(* Safety *)

TypeOK ==
    /\ inodeBitmap \subseteq Inodes
    /\ blockBitmap \subseteq DataBlocks
    /\ inodeTable \in [Inodes -> Inode]
    /\ block \in [DataBlocks -> [Slots -> Cell]]
    /\ diskSb \in Counters
    /\ sb \in Counters
    /\ mounted \in BOOLEAN
    /\ opened \subseteq Inodes
    /\ writing \subseteq WriteLoop
    /\ rc \in {"OK", "SHORT", "EEXIST", "ENOENT", "ENOSPC", "EISDIR", "ENOTDIR", "ENOTEMPTY"}

\* A block some inode points to, on disk or in a write loop's copy, is marked
\* in the bitmap: the allocator never hands out a block in use.
PointersAllocated == Referenced \subseteq blockBitmap

\* No block belongs to two files or directories, or twice to one.
NoSharedBlock ==
    /\ \A i, j \in Inodes : Apart(i, inodeTable[i], j, inodeTable[j])
    /\ \A w \in writing : /\ Apart(w.ino, w.inode, w.ino, w.inode)
                         /\ \A j \in Inodes : Apart(w.ino, w.inode, j, inodeTable[j])

\* Every entry of every directory resolves to an allocated inode other than
\* the root, and no inode has two entries (there is no link callback): an
\* entry never survives its inode to alias the next file that reuses it.
EntriesResolve ==
    /\ \A l \in Links : l[3] # Root /\ l[3] \in inodeBitmap /\ inodeTable[l[3]].type # "FREE"
    /\ \A l, m \in Links : l[3] = m[3] => l = m

\* An inode's bit and its type agree: find_free never hands out an inode that
\* getattr still shows.
BitmapAgrees == \A i \in Inodes : i \in inodeBitmap <=> inodeTable[i].type # "FREE"

\* blocks_used, which getattr reports as st_blocks, is the number of pointers,
\* also in the copy a write loop is about to write back.
BlocksUsedExact ==
    /\ \A i \in Inodes : inodeTable[i].blocks_used = Cardinality(Pointers(inodeTable[i]))
    /\ \A w \in writing : w.inode.blocks_used = Cardinality(Pointers(w.inode))

\* Every directory starts with its own "." and a ".." to the directory that
\* holds its entry.  Every entry is in reach of a path that is not cut, so that
\* nothing is lost below a directory of a mkdir that failed half-way, nor below
\* one that no path of PathMax bytes leads to.
TreeConnected ==
    LET reachable == PathDirs(inodeTable, block)
        dot(d, s) == block[inodeTable[d].direct[0]][s]
    IN  /\ \A d \in reachable :
              /\ dot(d, 0) = [inode |-> d, name |-> Dot]
              /\ dot(d, 1).name = DotDot
              /\ \/ d = Root /\ dot(d, 1).inode = Root
                 \/ \E l \in Links : l[1] = dot(d, 1).inode /\ l[3] = d
        /\ \A l \in Links : Fits(inodeTable, block, l[1], EntryAt(l[1], l[2]).name)

\* An open handle names a file that still has its entry: fi->fh is never the
\* number of an inode that was freed or reused.
HandlesValid ==
    /\ \A i \in opened : inodeTable[i].type = "FILE" /\ i \in Linked
    /\ \A w \in writing : w.ino \in opened

FreeBlocks == DataBlocks \ blockBitmap
FreeInodes == Inodes \ inodeBitmap

\* Whatever the process dies of, the counters never say less than what is
\* free, and exceed it by what has leaked at most.
FreeCountsBounded ==
    \A s \in {diskSb} \cup (IF mounted THEN {sb} ELSE {}) :
        /\ Cardinality(FreeBlocks) <= s.free_blocks
        /\ s.free_blocks <= Cardinality(DataBlocks \ TreeBlocks)
        /\ Cardinality(FreeInodes) <= s.free_inodes
        /\ s.free_inodes <= Cardinality(FreeInodes \cup LeakedInodes)

-----------------------------------------------------------------------------
(* Action properties *)

\* The name mfs_create was given resolves to the new file once it returned 0.
CreatedIsFound ==
    [][rc' = "OK" /\ inodeBitmap' # inodeBitmap =>
          \A par \in Inodes, n \in Names : Create(par, n) =>
              \E i \in Lookup(inodeTable, block, par, n)' :
                  i \notin inodeBitmap /\ inodeTable'[i].type = "FILE"]_vars

\* A callback that returns an error has changed no directory.
FailureLeavesTree == [][rc' # "OK" => Links' = Links]_vars

\* A block or an inode leaks only when a callback fails half-way for want of
\* space, or when the process dies: no successful callback loses one.
LeaksOnlyOnFailure ==
    [][\/ rc' \in {"ENOSPC", "SHORT"}
       \/ Kill
       \/ LeakedBlocks' \subseteq LeakedBlocks /\ LeakedInodes' \subseteq LeakedInodes]_vars

\* An entry leaves a directory only together with its inode, and an inode
\* that has an entry is freed only together with it.
EntryAndInodeTogether ==
    [][LET linked == Linked
       IN  linked \cap inodeBitmap' = linked \cap Linked']_vars

\* minifs_path_to_ino resolves an absolute path: the directory that mfs_rmdir
\* deletes is the one that the last name of its path has in the directory the
\* rest of the path names.
PathsResolve ==
    [][\A n \in Names : \A at \in CutPlaces(n) :
          CutRmdir(n, at) /\ rc' = "OK" =>
              \E d \in at.par : at.ino = Lookup(inodeTable, block, d, n)]_vars

-----------------------------------------------------------------------------
(* The tree of module Namespace as this module keeps it: the entries of the *)
(* directories a path reaches.                                              *)

TreeEntries ==
    LET links == Links
        tree  == {Root} \cup {l[3] : l \in links}
    IN  {[dir |-> l[1], name |-> EntryAt(l[1], l[2]).name, id |-> l[3]] :
            l \in {m \in links : m[1] \in tree}}

TreeDirs == InTree \cap DirInodes

Tree == INSTANCE Namespace WITH Ids <- Inodes, Top <- Root, Labels <- ShortNames,
                                entries <- TreeEntries, dirs <- TreeDirs

\* With names that fit a slot the driver implements the abstract tree: no name
\* is twice in a directory (the test for EEXIST and the search for a place are
\* two scans), and what leaks in a failed create or mkdir, and a process that
\* dies, never show.
ImplementsNamespace == Tree!Names_Spec
=============================================================================
