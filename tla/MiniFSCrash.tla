---------------------------- MODULE MiniFSCrash -----------------------------
(***************************************************************************)
(* The same callbacks one block write at a time.  A callback is the        *)
(* sequence of block writes it issues, in the order of the code; the       *)
(* process can die between any two of them (SIGKILL, or a crash of a       *)
(* kernel that had already taken the writes: nothing in the driver calls   *)
(* fsync, and a reordering of the writes below it is not modelled).        *)
(*                                                                         *)
(* Nothing repairs an image of this driver: what a dead process leaves is  *)
(* what the next mount serves.  So the order of the writes is all that     *)
(* protects the tree, and this module says of each callback which damage   *)
(* its order excludes and which it does not.                               *)
(*                                                                         *)
(* A write callback covers one block here; loops over several, and handles *)
(* that outlive a callback, are in module MiniFS.  So are the callbacks    *)
(* whose path exceeds PathMax bytes and is cut: they damage the tree       *)
(* without any death, and the properties below are of the others.          *)
(***************************************************************************)
EXTENDS MiniFSDisk, Sequences

CONSTANT MaxDeaths    \* how often the process dies: each death adds to the counters' drift

ASSUME DeathAssumption == MaxDeaths \in Nat

VARIABLES
    inodeBitmap, blockBitmap, inodeTable, block, diskSb,     \* the image
    sb,        \* g_ctx.sb
    mounted,
    pending,   \* the block writes the running callback has still to issue
    deleting,  \* the inode the running callback frees or shortens, if any
    torn,      \* inodes whose deletion or truncation a death cut short
    deaths

image == <<inodeBitmap, blockBitmap, inodeTable, block, diskSb>>
vars  == <<inodeBitmap, blockBitmap, inodeTable, block, diskSb, sb, mounted,
           pending, deleting, torn, deaths>>

(* The block writes.  Each rewrites one block from a fresh read of it, so  *)
(* with one callback at a time it changes just this.                       *)
InodeBit(i, used)  == [to |-> "inode bitmap", i |-> i, used |-> used]
BlockBits(B, used) == [to |-> "block bitmap", B |-> B, used |-> used]
InodeRec(i, r)     == [to |-> "inode table", i |-> i, r |-> r]
Content(b, c)      == [to |-> "data", b |-> b, c |-> c]
Superblock         == [to |-> "superblock"]

Init ==
    /\ inodeBitmap = {Root}
    /\ blockBitmap = {DataStart}
    /\ inodeTable = [i \in Inodes |-> IF i = Root THEN NewDir(DataStart) ELSE FreeInode]
    /\ block = [b \in DataBlocks |-> IF b = DataStart THEN DotsBlock(Root, Root)
                                                      ELSE ZeroBlock]
    /\ diskSb = [free_blocks |-> TotalBlocks - DataStart - 1, free_inodes |-> MaxInodes - 1]
    /\ sb = diskSb
    /\ mounted = TRUE
    /\ pending = <<>>
    /\ deleting = {}
    /\ torn = {}
    /\ deaths = 0

-----------------------------------------------------------------------------
(* One write reaches the image. *)

WriteInodeBitmap ==
    LET w == Head(pending) IN
    /\ w.to = "inode bitmap"
    /\ inodeBitmap' = IF w.used THEN inodeBitmap \cup {w.i} ELSE inodeBitmap \ {w.i}
    /\ UNCHANGED <<blockBitmap, inodeTable, block, diskSb>>

WriteBlockBitmap ==
    LET w == Head(pending) IN
    /\ w.to = "block bitmap"
    /\ blockBitmap' = IF w.used THEN blockBitmap \cup w.B ELSE blockBitmap \ w.B
    /\ UNCHANGED <<inodeBitmap, inodeTable, block, diskSb>>

WriteInodeTable ==
    LET w == Head(pending) IN
    /\ w.to = "inode table"
    /\ inodeTable' = [inodeTable EXCEPT ![w.i] = w.r]
    /\ UNCHANGED <<inodeBitmap, blockBitmap, block, diskSb>>

WriteData ==
    LET w == Head(pending) IN
    /\ w.to = "data"
    /\ block' = [block EXCEPT ![w.b] = w.c]
    /\ UNCHANGED <<inodeBitmap, blockBitmap, inodeTable, diskSb>>

WriteSuperblock ==
    /\ Head(pending).to = "superblock"
    /\ diskSb' = sb
    /\ UNCHANGED <<inodeBitmap, blockBitmap, inodeTable, block>>

Step ==
    /\ pending # <<>>
    /\ WriteInodeBitmap \/ WriteBlockBitmap \/ WriteInodeTable \/ WriteData \/ WriteSuperblock
    /\ pending' = Tail(pending)
    /\ deleting' = IF Len(pending) = 1 THEN {} ELSE deleting
    /\ UNCHANGED <<sb, mounted, torn, deaths>>

-----------------------------------------------------------------------------
(* The callbacks, as the writes they will issue. *)

Start(writes, counters, victim) ==
    /\ pending' = writes
    /\ sb' = counters
    /\ deleting' = victim
    /\ UNCHANGED <<image, mounted, torn, deaths>>

\* No other callback is running, and the callback's path, which is not cut,
\* names n in directory par.
ReadyIn(par, n) == /\ mounted /\ pending = <<>>
                   /\ inodeTable[par].type = "DIR"
                   /\ Fits(inodeTable, block, par, n)

\* minifs_block_alloc marks the block, then zeroes it.
Allocation(b) == <<BlockBits({b}, TRUE), Content(b, ZeroBlock)>>

\* Mutant: a directory points to its new block before the block is written.
EntryWrites_PointerFirst(par, cell, it, bl, bb, s) ==
    {[writes |-> LET db == it[par].direct[p[1]]
                 IN  <<Content(db, [bl[db] EXCEPT ![p[2]] = cell])>>, sb |-> s] :
        p \in FirstPos(FreeSlots(it[par], bl))}
    \cup
    {[writes |-> <<BlockBits({kb[2]}, TRUE), InodeRec(par, WithBlock(it[par], kb[1], kb[2])),
                   Content(kb[2], [ZeroBlock EXCEPT ![0] = cell])>>,
      sb |-> TakeBlock(s)] :
        kb \in {x \in FirstFit(Holes(it[par])) \X FirstFit(DataBlocks \ bb) :
                  FreeSlots(it[par], bl) = {}}}

\* What minifs_dir_add_entry writes when the entry fits (a set of at most one),
\* given the table, blocks, bitmap and counters its caller leaves.
EntryWrites(par, cell, it, bl, bb, s) ==
    {[writes |-> LET db == it[par].direct[p[1]]
                 IN  <<Content(db, [bl[db] EXCEPT ![p[2]] = cell])>>, sb |-> s] :
        p \in FirstPos(FreeSlots(it[par], bl))}
    \cup
    {[writes |-> Allocation(kb[2]) \o
                 <<Content(kb[2], [ZeroBlock EXCEPT ![0] = cell]),
                   InodeRec(par, WithBlock(it[par], kb[1], kb[2]))>>,
      sb |-> TakeBlock(s)] :
        kb \in {x \in FirstFit(Holes(it[par])) \X FirstFit(DataBlocks \ bb) :
                  FreeSlots(it[par], bl) = {}}}

\* Mutant: the entry is written before the inode it names.
Create_EntryFirst(par, n) ==
    /\ ReadyIn(par, n)
    /\ Lookup(inodeTable, block, par, n) = {}
    /\ \E i \in FirstFit(Inodes \ inodeBitmap) :
       LET fits == EntryWrites(par, [inode |-> i, name |-> Stored(n)], inodeTable, block,
                               blockBitmap, TakeInode(sb))
       IN  \E e \in fits : Start(e.writes \o <<InodeRec(i, NewFile), InodeBit(i, TRUE),
                                               Superblock>>, e.sb, {})

\* mfs_create
Create(par, n) ==
    /\ ReadyIn(par, n)
    /\ Lookup(inodeTable, block, par, n) = {}
    /\ \E i \in FirstFit(Inodes \ inodeBitmap) :
       LET it   == [inodeTable EXCEPT ![i] = NewFile]
           new  == <<InodeRec(i, NewFile), InodeBit(i, TRUE)>>
           fits == EntryWrites(par, [inode |-> i, name |-> Stored(n)], it, block,
                               blockBitmap, TakeInode(sb))
       IN  \/ \E e \in fits : Start(new \o e.writes \o <<Superblock>>, e.sb, {})
           \/ fits = {} /\ Start(new, TakeInode(sb), {})

\* Mutants: "." and ".." are written after the parent's entry; the parent grows
\* from the bitmap as it was before the directory's own block was marked.
Mkdir_DotsLast(par, n) ==
    /\ ReadyIn(par, n)
    /\ Lookup(inodeTable, block, par, n) = {}
    /\ \E i \in FirstFit(Inodes \ inodeBitmap), b \in FirstFit(DataBlocks \ blockBitmap) :
       LET it   == [inodeTable EXCEPT ![i] = NewDir(b)]
           fits == EntryWrites(par, [inode |-> i, name |-> Stored(n)], it, block,
                               blockBitmap \cup {b}, TakeInode(TakeBlock(sb)))
       IN  \E e \in fits :
              Start(Allocation(b) \o <<InodeRec(i, NewDir(b)), InodeBit(i, TRUE)>> \o e.writes
                      \o <<Content(b, DotsBlock(i, par)), Superblock>>, e.sb, {})

Mkdir_StaleBitmap(par, n) ==
    /\ ReadyIn(par, n)
    /\ Lookup(inodeTable, block, par, n) = {}
    /\ \E i \in FirstFit(Inodes \ inodeBitmap), b \in FirstFit(DataBlocks \ blockBitmap) :
       LET it   == [inodeTable EXCEPT ![i] = NewDir(b)]
           fits == EntryWrites(par, [inode |-> i, name |-> Stored(n)], it, block,
                               blockBitmap, TakeInode(TakeBlock(sb)))
       IN  \E e \in fits :
              Start(Allocation(b) \o <<InodeRec(i, NewDir(b)), InodeBit(i, TRUE),
                                       Content(b, DotsBlock(i, par))>> \o e.writes
                      \o <<Superblock>>, e.sb, {})

\* mfs_mkdir
Mkdir(par, n) ==
    /\ ReadyIn(par, n)
    /\ Lookup(inodeTable, block, par, n) = {}
    /\ \E i \in FirstFit(Inodes \ inodeBitmap), b \in FirstFit(DataBlocks \ blockBitmap) :
       LET it   == [inodeTable EXCEPT ![i] = NewDir(b)]
           bl   == [block EXCEPT ![b] = DotsBlock(i, par)]
           s    == TakeInode(TakeBlock(sb))
           new  == Allocation(b) \o <<InodeRec(i, NewDir(b)), InodeBit(i, TRUE),
                                      Content(b, DotsBlock(i, par))>>
           fits == EntryWrites(par, [inode |-> i, name |-> Stored(n)], it, bl,
                               blockBitmap \cup {b}, s)
       IN  \/ \E e \in fits : Start(new \o e.writes \o <<Superblock>>, e.sb, {})
           \/ fits = {} /\ Start(new, s, {})

\* minifs_block_free, one bitmap write for each pointer in ascending order
Freeing(ino, K) ==
    LET nth(m) == CHOOSE k \in K : Cardinality({j \in K : j < k}) = m - 1
    IN  [m \in 1 .. Cardinality(K) |-> BlockBits({ino.direct[nth(m)]}, FALSE)]

\* minifs_dir_remove_entry
RemovalWrites(par, n) ==
    {LET db == inodeTable[par].direct[p[1]]
     IN  <<Content(db, [block[db] EXCEPT ![p[2]] = FreeCell])>> :
        p \in FirstPos(Matches(inodeTable[par], block, n))}

\* mfs_unlink of a file, mfs_rmdir of an empty directory
Delete(par, n) ==
    /\ ReadyIn(par, n)
    /\ \E i \in Lookup(inodeTable, block, par, n), rm \in RemovalWrites(par, n) :
        LET ino == inodeTable[i]
            K   == Pointers(ino)
        IN  /\ ino.type = "FILE" \/ (ino.type = "DIR" /\ Listed(ino, block) = {})
            /\ Start(Freeing(ino, K) \o <<InodeRec(i, FreeInode), InodeBit(i, FALSE)>>
                       \o rm \o <<Superblock>>,
                     GiveInode(GiveBlocks(sb, K)), {i})

\* mfs_truncate to keep blocks
Truncate(par, n, keep) ==
    /\ ReadyIn(par, n)
    /\ \E i \in Lookup(inodeTable, block, par, n) :
        LET ino  == inodeTable[i]
            drop == {k \in Pointers(ino) : k >= keep}
            r    == [ino EXCEPT !.direct = [k \in Idx |-> IF k \in drop THEN NoBlock ELSE @[k]],
                                !.blocks_used = @ - Cardinality(drop)]
        IN  /\ ino.type = "FILE"
            /\ Start(Freeing(ino, drop) \o <<InodeRec(i, r), Superblock>>,
                     GiveBlocks(sb, drop), {i})

\* Mutant: the inode is written before the block it now points to is marked.
Write_InodeFirst(par, n, k) ==
    /\ ReadyIn(par, n)
    /\ \E i \in Lookup(inodeTable, block, par, n) :
        LET ino == inodeTable[i] IN
        /\ ino.type = "FILE"
        /\ ino.direct[k] = NoBlock
        /\ \E b \in FirstFit(DataBlocks \ blockBitmap) :
              Start(<<InodeRec(i, WithBlock(ino, k, b))>> \o Allocation(b)
                      \o <<Content(b, DataBlock), Superblock>>, TakeBlock(sb), {})

\* mfs_write of block k; at a full disk it returns before the first write
Write(par, n, k) ==
    /\ ReadyIn(par, n)
    /\ \E i \in Lookup(inodeTable, block, par, n) :
        LET ino == inodeTable[i] IN
        /\ ino.type = "FILE"
        /\ \/ /\ ino.direct[k] # NoBlock
              /\ Start(<<Content(ino.direct[k], DataBlock), InodeRec(i, ino), Superblock>>, sb, {})
           \/ /\ ino.direct[k] = NoBlock
              /\ \E b \in FirstFit(DataBlocks \ blockBitmap) :
                    Start(Allocation(b) \o <<Content(b, DataBlock),
                                             InodeRec(i, WithBlock(ino, k, b)), Superblock>>,
                          TakeBlock(sb), {})

-----------------------------------------------------------------------------
(* The process dies and the image is mounted again. *)

Kill ==
    /\ mounted
    /\ deaths < MaxDeaths
    /\ deaths' = deaths + 1
    /\ mounted' = FALSE
    /\ pending' = <<>>
    /\ torn' = torn \cup deleting
    /\ deleting' = {}
    /\ sb' = [free_blocks |-> 0, free_inodes |-> 0]
    /\ UNCHANGED image

Mount ==
    /\ ~mounted
    /\ mounted' = TRUE
    /\ sb' = diskSb
    /\ UNCHANGED <<image, pending, deleting, torn, deaths>>

Next ==
    \/ Step
    \/ \E par \in Inodes, n \in Names :
          \/ Create(par, n) \/ Mkdir(par, n) \/ Delete(par, n)
          \/ \E keep \in 0 .. DirectBlocks : Truncate(par, n, keep)
          \/ \E k \in Idx : Write(par, n, k)
    \/ Kill \/ Mount

Spec == Init /\ [][Next]_vars

\* An image with a cut deletion is looked at, and what the next mount makes of
\* it is not: from there on the damage spreads to whatever reuses the blocks.
BeforeReuse == ~(mounted /\ torn # {})

\* The executions up to the first mount of such an image.
SpecBeforeReuse == Init /\ [][BeforeReuse /\ Next]_vars

-----------------------------------------------------------------------------
(* Views of the image *)

Hurt  == deleting \cup torn
Sound == Inodes \ Hurt

DirInodes == {d \in Inodes : inodeTable[d].type = "DIR"}

\* The named entries of all directories, each with its place.
Links ==
    UNION {{[dir |-> d, at |-> p, id |-> CellAt(inodeTable[d], block, p).inode,
             name |-> CellAt(inodeTable[d], block, p).name] :
               p \in {q \in Positions(inodeTable[d]) :
                        CellAt(inodeTable[d], block, q).name \notin {NoName, Dot, DotDot}}} :
           d \in DirInodes}

-----------------------------------------------------------------------------
(* Safety, at every point the process can die                              *)

TypeOK ==
    /\ inodeBitmap \subseteq Inodes
    /\ blockBitmap \subseteq DataBlocks
    /\ inodeTable \in [Inodes -> Inode]
    /\ block \in [DataBlocks -> [Slots -> Cell]]
    /\ diskSb \in Counters
    /\ sb \in Counters
    /\ mounted \in BOOLEAN
    /\ deleting \subseteq Inodes
    /\ torn \subseteq Inodes
    /\ deaths \in 0 .. MaxDeaths

\* A death never leaves a name without its inode, save the name that was being
\* removed: create and mkdir write the inode and its bit before the entry.  No
\* inode ever has two names.
NamesResolve ==
    /\ \A l \in Links :
          l.id \in Sound => /\ l.id # Root /\ l.id \in inodeBitmap
                           /\ inodeTable[l.id].type # "FREE"
    /\ \A l, m \in Links : l.id = m.id => l = m

\* A death never leaves a pointer to a block the next mount can hand out, save
\* in the one inode that was being removed or shortened: every growing callback
\* marks the block before it writes the pointer.
PointersMarked == \A i \in Sound : Refs(inodeTable[i]) \subseteq blockBitmap

\* Nor two pointers to one block.
NoSharedBlock ==
    \A i, j \in Inodes : \A k, l \in Idx :
        /\ inodeTable[i].direct[k] # NoBlock
        /\ inodeTable[i].direct[k] = inodeTable[j].direct[l]
        => i = j /\ k = l

\* A directory that has a name starts with its own "." and the ".." of the
\* directory that holds the name, and no block of it holds a file's bytes or a
\* removed directory's entries.
DirsServable ==
    /\ \A d \in DirInodes \cap Sound : \A p \in Positions(inodeTable[d]) :
          CellAt(inodeTable[d], block, p).name # FileBytes
    /\ \A l \in Links : l.id \in DirInodes \cap Sound =>
          LET cells == block[inodeTable[l.id].direct[0]] IN
          /\ cells[0] = [inode |-> l.id, name |-> Dot]
          /\ cells[1] = [inode |-> l.dir, name |-> DotDot]

\* While no deletion was cut, the counters on disk are never less than what is
\* free: a death makes statfs promise too much, never too little, and the
\* guard of the decrements never hides a lost count.
CountersNeverShort ==
    Hurt = {} => /\ diskSb.free_blocks >= Cardinality(DataBlocks \ blockBitmap)
                 /\ diskSb.free_inodes >= Cardinality(Inodes \ inodeBitmap)

-----------------------------------------------------------------------------
(* A name whose inode is zeroed is gone: the deletion takes effect with the *)
(* write of the inode.                                                      *)

TreeLinks == {l \in Links : inodeTable[l.id].type # "FREE"}
TreeDirs  == {d \in {Root} \cup {l.id : l \in TreeLinks} : d \in DirInodes}
TreeEntries == {[dir |-> l.dir, name |-> l.name, id |-> l.id] : l \in TreeLinks}

Tree == INSTANCE Namespace WITH
            Ids <- Inodes, Top <- Root, Labels <- ShortNames,
            entries <- TreeEntries, dirs <- TreeDirs

\* Every callback is atomic for the tree, wherever the process dies: one of its
\* block writes makes the whole change, and the others change nothing a path
\* shows.
CallbacksAtomic == Tree!Names_Spec
=============================================================================
