------------------------------- MODULE FuseFS --------------------------------
(***************************************************************************)
(* minifs-fuse: one flat root directory, bitmaps and superblock kept in    *)
(* memory from mount to unmount under one mutex, callbacks served by       *)
(* several threads.  A step is one section under the mutex, or one pread   *)
(* or pwrite that another thread or a death of the process can tell from   *)
(* the next.  Transfers name their offset (pread, pwrite) and inodes are   *)
(* transferred one by one, so that only what is listed here is shared.     *)
(*                                                                         *)
(* Names longer than an entry are refused and leave nothing behind; they   *)
(* are left out.                                                           *)
(*                                                                         *)
(* The kernel and libfuse are the environment: the root directory's lock   *)
(* keeps creates and unlinks apart, a file's lock its writes; reads take   *)
(* no lock; a file in use is not unlinked (libfuse holds its path, and an  *)
(* open file would first be renamed, which this driver does not offer).    *)
(***************************************************************************)
EXTENDS Integers, FiniteSets

CONSTANTS
    Names,          \* file names of at most MINIFS_MAX_FILENAME characters
    Workers,        \* the threads of the FUSE loop
    TotalInodes,    \* sb.total_inodes
    DataStart,      \* sb.data_block_start
    TotalBlocks,    \* sb.total_blocks
    DirectBlocks,   \* MINIFS_DIRECT_BLOCKS
    Extents         \* bound: the first and last blocks that writes are issued for

ASSUME FuseGeometryAssumption ==
    /\ TotalInodes \in Nat /\ TotalInodes > 2
    /\ DataStart \in Nat \ {0}
    /\ TotalBlocks \in Nat /\ TotalBlocks > DataStart
    /\ DirectBlocks \in Nat \ {0}
    /\ \A x \in Extents : x[1] \in Nat /\ x[2] \in Nat /\ x[1] <= x[2]

Root       == 1
Inodes     == 0 .. TotalInodes - 1
DataBlocks == DataStart .. TotalBlocks - 1
NoBlock    == 0
Idx        == 0 .. DirectBlocks - 1

\* An inode: its size in blocks and its direct pointers.  indirect_block stays
\* 0 and links_count 1 for ever: nothing sets them.
Inode      == [size : Nat, block : [Idx -> DataBlocks \cup {NoBlock}]]
EmptyInode == [size |-> 0, block |-> [k \in Idx |-> NoBlock]]

\* A block holds the root's dots, one entry of the root, or something else:
\* an entry's rec_len reaches the end of its block, so that a second one never
\* fits, and the dots fill theirs.  A removed entry (inode 0) ends every scan,
\* as a zeroed block does.
Dots == [kind |-> "dots"]
Hole == [kind |-> "hole"]
Data == [kind |-> "data"]
EntryOf(n, i) == [kind |-> "entry", name |-> n, inode |-> i]

VARIABLES
    saved,      \* superblock and bitmaps on the image
    table,      \* the inode table, on the image
    content,    \* the data blocks, on the image
    ctx,        \* superblock and bitmaps in memory
    phase,      \* down, up, or how far minifs_sync has come: sb, inodes
    call,       \* the callback each thread serves, with its locals
    lost        \* history: a death has lost bits that were not written back

vars == <<saved, table, content, ctx, phase, call, lost>>
image == <<saved, table, content>>
life == <<phase, lost>>

Idle == [op |-> "none"]

Started(op, n, i, at) ==
    [op |-> op, name |-> n, ino |-> i, at |-> at, inode |-> EmptyInode, k |-> 0, to |-> 0, blk |-> NoBlock]

Init ==
    /\ saved = [inodes |-> {0, Root}, blocks |-> {DataStart},
                free_inodes |-> TotalInodes - 1, free_blocks |-> TotalBlocks - DataStart - 1]
    /\ table = [i \in Inodes |-> IF i = Root
                                 THEN [size |-> 1, block |-> [EmptyInode.block EXCEPT ![0] = DataStart]]
                                 ELSE EmptyInode]
    /\ content = [b \in DataBlocks |-> IF b = DataStart THEN Dots ELSE Hole]
    /\ ctx = saved
    /\ phase = "down"
    /\ call = [t \in Workers |-> Idle]
    /\ lost = FALSE

-----------------------------------------------------------------------------
(* Bitmaps and directory *)

\* minifs_find_first_zero_bit
FirstZero(S, marked) == {x \in S \ marked : \A y \in S \ marked : x <= y}

\* minifs_alloc_inode, minifs_alloc_block: what they return, no element if 0.
FreeInode == {i \in FirstZero(Inodes, ctx.inodes) : ctx.free_inodes > 0 /\ i # 0}
FreeBlock == {b \in FirstZero(DataBlocks, ctx.blocks) : ctx.free_blocks > 0}

\* Mutant: the bit is cleared and the counter stays.
WithoutInode_CounterKept(m, i) == [m EXCEPT !.inodes = @ \ {i}]

WithInode(m, i)    == [m EXCEPT !.inodes = @ \cup {i}, !.free_inodes = @ - 1]
WithoutInode(m, i) == [m EXCEPT !.inodes = @ \ {i}, !.free_inodes = @ + 1]
WithBlock(m, b)    == [m EXCEPT !.blocks = @ \cup {b}, !.free_blocks = @ - 1]
WithoutBlock(m, b) == [m EXCEPT !.blocks = @ \ {b}, !.free_blocks = @ + 1]

\* The indices of the root directory that are scanned, and what is there.
DirIdx    == {k \in Idx : k < table[Root].size /\ table[Root].block[k] # NoBlock}
DirCell(k) == content[table[Root].block[k]]
Entries   == {DirCell(k) : k \in {j \in DirIdx : DirCell(j).kind = "entry"}}

First(K) == {k \in K : \A j \in K : k <= j}

\* Mutant: a block with an entry is taken for one with room.
Holes_Taken == First({k \in DirIdx : DirCell(k).kind # "dots"})

\* minifs_lookup and the scans of add and remove: the first block that fits.
Lookup(n) == First({k \in DirIdx : DirCell(k).kind = "entry" /\ DirCell(k).name = n})
Holes     == First({k \in DirIdx : DirCell(k).kind = "hole"})

Busy(t)    == call[t].op # "none"
At(t, op, at) == call[t].op = op /\ call[t].at = at
DirBusy    == \E t \in Workers : call[t].op \in {"create", "unlink"}
Using(n)   == {t \in Workers : Busy(t) /\ call[t].name = n}
Writing(n) == \E t \in Using(n) : call[t].op = "write"

Return(t) == call' = [call EXCEPT ![t] = Idle]

-----------------------------------------------------------------------------
(* create *)

\* minifs_create_file up to minifs_write_inode; nobody else reads the inode
\* before it has a name.
Create(t, n) ==
    /\ phase = "up" /\ ~Busy(t) /\ ~DirBusy
    /\ Lookup(n) = {}
    /\ \/ \E i \in FreeInode :
              /\ ctx' = WithInode(ctx, i)
              /\ table' = [table EXCEPT ![i] = EmptyInode]
              /\ call' = [call EXCEPT ![t] = Started("create", n, i, "entry")]
       \/ /\ FreeInode = {}
          /\ Return(t)       \* -ENOSPC
          /\ UNCHANGED <<table, ctx>>
    /\ UNCHANGED <<saved, content, life>>

\* Mutant: room for one block more than there are pointers.
AddDirEntry_Unbounded(t) ==
    LET c == call[t] IN
    /\ At(t, "create", "entry")
    /\ \E b \in FreeBlock :
           /\ Holes = {}
           /\ ctx' = WithBlock(ctx, b)
           /\ content' = [content EXCEPT ![b] = EntryOf(c.name, c.ino)]
           /\ call' = [call EXCEPT ![t].blk = b, ![t].at =
                          IF table[Root].size <= DirectBlocks THEN "link" ELSE "undo"]
    /\ UNCHANGED <<saved, table, life>>

\* minifs_add_dir_entry: into the first emptied block, or else into a new one,
\* which is written before its index is tested.  When an emptied block was
\* filled, the rewrite of the root's inode that follows changes its mtime only.
AddDirEntry(t) ==
    LET c == call[t] IN
    /\ At(t, "create", "entry")
    /\ \/ \E k \in Holes :
              /\ content' = [content EXCEPT ![table[Root].block[k]] = EntryOf(c.name, c.ino)]
              /\ Return(t)
              /\ UNCHANGED ctx
       \/ \E b \in FreeBlock :
              /\ Holes = {}
              /\ ctx' = WithBlock(ctx, b)
              /\ content' = [content EXCEPT ![b] = EntryOf(c.name, c.ino)]
              /\ call' = [call EXCEPT ![t].blk = b, ![t].at =
                             IF table[Root].size < DirectBlocks THEN "link" ELSE "undo"]
       \/ /\ Holes = {} /\ FreeBlock = {}
          /\ call' = [call EXCEPT ![t].at = "undo"]
          /\ UNCHANGED <<content, ctx>>
    /\ UNCHANGED <<saved, table, life>>

LinkDirBlock(t) ==
    /\ At(t, "create", "link")
    /\ table' = [table EXCEPT ![Root].block[table[Root].size] = call[t].blk, ![Root].size = @ + 1]
    /\ Return(t)
    /\ UNCHANGED <<saved, content, ctx, life>>

\* Every failure of add_dir_entry ends here, as -EIO.
UndoCreate(t) ==
    /\ At(t, "create", "undo")
    /\ ctx' = WithoutInode(ctx, call[t].ino)
    /\ Return(t)       \* -EIO
    /\ UNCHANGED <<image, life>>

-----------------------------------------------------------------------------
(* unlink *)

\* minifs_remove_dir_entry, then minifs_read_inode.
Unlink(t, n) ==
    /\ phase = "up" /\ ~Busy(t) /\ ~DirBusy /\ Using(n) = {}
    /\ \E k \in Lookup(n) :
           LET i == DirCell(k).inode IN
           /\ content' = [content EXCEPT ![table[Root].block[k]] = Hole]
           /\ call' = [call EXCEPT ![t] = [Started("unlink", n, i, "free") EXCEPT !.inode = table[i]]]
    /\ UNCHANGED <<saved, table, ctx, life>>

\* Mutant: the loop over the pointers ends after the first that is set.
FreeFile_FirstOnly(t) ==
    LET c   == call[t]
        set == {k \in Idx : c.inode.block[k] # NoBlock}
    IN  /\ At(t, "unlink", "free")
        /\ \/ \E k \in First(set) :
                  /\ ctx' = WithoutInode(WithoutBlock(ctx, c.inode.block[k]), c.ino)
                  /\ Return(t)
           \/ /\ set = {}
              /\ ctx' = WithoutInode(ctx, c.ino)
              /\ Return(t)
        /\ UNCHANGED <<image, life>>

\* One call of minifs_free_block for each pointer that is set, then
\* minifs_free_inode; the inode on the image keeps its pointers.
FreeFile(t) ==
    LET c   == call[t]
        set == {k \in Idx : c.inode.block[k] # NoBlock}
    IN  /\ At(t, "unlink", "free")
        /\ \/ \E k \in First(set) :
                  /\ ctx' = WithoutBlock(ctx, c.inode.block[k])
                  /\ call' = [call EXCEPT ![t].inode.block[k] = NoBlock]
           \/ /\ set = {}
              /\ ctx' = WithoutInode(ctx, c.ino)
              /\ Return(t)
        /\ UNCHANGED <<image, life>>

-----------------------------------------------------------------------------
(* write and read *)

\* The blocks from .. to of a file; minifs_get_block answers 0 for those past
\* the direct ones.
Write(t, n, from, to) ==
    /\ phase = "up" /\ ~Busy(t) /\ ~Writing(n)
    /\ \E k \in Lookup(n) :
           LET i == DirCell(k).inode IN
           call' = [call EXCEPT ![t] = [Started("write", n, i, "block")
                                          EXCEPT !.inode = table[i], !.k = from, !.to = to]]
    /\ UNCHANGED <<image, ctx, life>>

BlockAt(c) == IF c.k \in Idx THEN c.inode.block[c.k] ELSE NoBlock

\* Mutant: the block is used without being marked.
WriteBlock_Unmarked(t) ==
    LET c == call[t]
        next == IF c.k = c.to THEN [c EXCEPT !.at = "record"] ELSE [c EXCEPT !.k = @ + 1]
    IN  /\ At(t, "write", "block")
        /\ \E b \in FreeBlock \cup ({BlockAt(c)} \ {NoBlock}) :
               /\ content' = [content EXCEPT ![b] = Data]
               /\ call' = [call EXCEPT ![t] =
                              IF c.k \in Idx THEN [next EXCEPT !.inode.block[c.k] = b] ELSE Idle]
        /\ UNCHANGED <<saved, table, ctx, life>>

\* One round of the loop of minifs_write_file.  A hole of the file gets a block,
\* which is this thread's alone until the inode is written.  Both failures
\* return without writing the inode, the second after the block was taken.
WriteBlock(t) ==
    LET c == call[t]
        next == IF c.k = c.to THEN [c EXCEPT !.at = "record"] ELSE [c EXCEPT !.k = @ + 1]
    IN  /\ At(t, "write", "block")
        /\ \/ /\ BlockAt(c) # NoBlock
              /\ content' = [content EXCEPT ![BlockAt(c)] = Data]
              /\ call' = [call EXCEPT ![t] = next]
              /\ UNCHANGED ctx
           \/ \E b \in FreeBlock :
                  /\ BlockAt(c) = NoBlock /\ c.k \in Idx
                  /\ ctx' = WithBlock(ctx, b)
                  /\ content' = [content EXCEPT ![b] = Data]
                  /\ call' = [call EXCEPT ![t] = [next EXCEPT !.inode.block[c.k] = b]]
           \/ \E b \in FreeBlock :
                  /\ BlockAt(c) = NoBlock /\ c.k \notin Idx
                  /\ ctx' = WithBlock(ctx, b)
                  /\ content' = [content EXCEPT ![b] = Hole]
                  /\ Return(t)       \* -ENOSPC
           \/ /\ BlockAt(c) = NoBlock /\ FreeBlock = {}
              /\ Return(t)       \* -ENOSPC
              /\ UNCHANGED <<content, ctx>>
        /\ UNCHANGED <<saved, table, life>>

RecordWrite(t) ==
    LET c == call[t] IN
    /\ At(t, "write", "record")
    /\ table' = [table EXCEPT ![c.ino] =
                    [c.inode EXCEPT !.size = IF c.to + 1 > @ THEN c.to + 1 ELSE @]]
    /\ Return(t)
    /\ UNCHANGED <<saved, content, ctx, life>>

\* A read below the end of the file; any other ends before it changes anything.
Read(t, n) ==
    /\ phase = "up" /\ ~Busy(t)
    /\ \E k \in Lookup(n) :
           LET i == DirCell(k).inode IN
           /\ table[i].size > 0
           /\ call' = [call EXCEPT ![t] = [Started("read", n, i, "record") EXCEPT !.inode = table[i]]]
    /\ UNCHANGED <<image, ctx, life>>

\* The whole inode is written back, as it was read, for its new atime.
RecordRead(t) ==
    /\ At(t, "read", "record")
    /\ table' = [table EXCEPT ![call[t].ino] = call[t].inode]
    /\ Return(t)
    /\ UNCHANGED <<saved, content, ctx, life>>

-----------------------------------------------------------------------------
(* The life of the process *)

\* Bound: what a mount makes of an image whose bitmaps miss blocks in use is
\* left out, for from there on the damage spreads to all that reuses them.
Mount ==
    /\ phase = "down" /\ ~lost
    /\ ctx' = saved
    /\ phase' = "up"
    /\ UNCHANGED <<image, call, lost>>

\* minifs_unmount, once libfuse's threads are gone: minifs_sync writes the
\* superblock, the inode bitmap and the block bitmap.
Unmount ==
    /\ phase = "up" /\ \A t \in Workers : ~Busy(t)
    /\ saved' = [saved EXCEPT !.free_inodes = ctx.free_inodes, !.free_blocks = ctx.free_blocks]
    /\ phase' = "sb"
    /\ UNCHANGED <<table, content, ctx, call, lost>>

SyncInodes ==
    /\ phase = "sb"
    /\ saved' = [saved EXCEPT !.inodes = ctx.inodes]
    /\ phase' = "inodes"
    /\ UNCHANGED <<table, content, ctx, call, lost>>

\* Mutant: the block bitmap is not written back.
SyncBlocks_Skipped ==
    /\ phase = "inodes"
    /\ phase' = "down"
    /\ UNCHANGED <<image, ctx, call, lost>>

SyncBlocks ==
    /\ phase = "inodes"
    /\ saved' = [saved EXCEPT !.blocks = ctx.blocks]
    /\ phase' = "down"
    /\ UNCHANGED <<table, content, ctx, call, lost>>

\* The callbacks under way and all that is in memory are gone.
Death ==
    /\ phase # "down"
    /\ phase' = "down"
    /\ lost' = (saved.inodes # ctx.inodes \/ saved.blocks # ctx.blocks)
    /\ call' = [t \in Workers |-> Idle]
    /\ ctx' = saved
    /\ UNCHANGED image

\* fsck.minifs: recounts free_inodes, from the bitmap, and writes back.
Fsck ==
    /\ phase = "down"
    /\ saved' = [saved EXCEPT !.free_inodes = Cardinality(Inodes \ saved.inodes)]
    /\ UNCHANGED <<table, content, ctx, phase, call, lost>>

Next ==
    \/ \E t \in Workers, n \in Names :
           \/ Create(t, n)
           \/ Unlink(t, n)
           \/ Read(t, n)
           \/ \E x \in Extents : Write(t, n, x[1], x[2])
    \/ \E t \in Workers :
           \/ AddDirEntry(t) \/ LinkDirBlock(t) \/ UndoCreate(t)
           \/ FreeFile(t)
           \/ WriteBlock(t) \/ RecordWrite(t)
           \/ RecordRead(t)
    \/ Mount \/ Unmount \/ SyncInodes \/ SyncBlocks
    \/ Death
    \/ Fsck

Spec == Init /\ [][Next]_vars

-----------------------------------------------------------------------------
(* What makes the driver correct *)

Metadata == [inodes : SUBSET Inodes, blocks : SUBSET DataBlocks,
             free_inodes : 0 .. TotalInodes, free_blocks : 0 .. Cardinality(DataBlocks)]
Cell     == {Dots, Hole, Data} \cup [kind : {"entry"}, name : Names, inode : Inodes]
Call     == {Idle}
            \cup [op : {"create", "unlink", "write", "read"}, name : Names, ino : Inodes,
                  at : {"entry", "link", "undo", "free", "block", "record"},
                  inode : Inode, k : Nat, to : Nat,
                  blk : DataBlocks \cup {NoBlock}]

\* Types; in particular no counter passes the size of its bitmap and the root
\* directory never has a block more than it has pointers.
TypeOK ==
    /\ saved \in Metadata /\ ctx \in Metadata
    /\ table \in [Inodes -> Inode] /\ table[Root].size <= DirectBlocks
    /\ \A i \in Inodes : table[i].size <= DirectBlocks
    /\ content \in [DataBlocks -> Cell]
    /\ phase \in {"down", "up", "sb", "inodes"}
    /\ call \in [Workers -> Call]
    /\ lost \in BOOLEAN

\* The bitmaps and counters that the next allocation goes by.
Current == IF phase = "down" THEN saved ELSE ctx

Live == {e.inode : e \in Entries}

\* Who has which block, through which pointer: the root, a file with a name, or
\* the callback that works on it, which writes its copy of the inode back.
Changing == {t \in Workers : Busy(t) /\ call[t].op # "read"}
Pointers(i, inode) == {<<i, k, inode.block[k]>> : k \in Idx}
Holdings ==
    (UNION {Pointers(i, table[i]) : i \in ({Root} \cup Live) \ {call[t].ino : t \in Changing}})
    \cup (UNION {Pointers(call[t].ino, call[t].inode) : t \in Changing})
    \cup {<<Root, table[Root].size, call[t].blk>> : t \in Changing}

\* All pointers, those that a write is about to replace and the copies of reads
\* among them.
Claims ==
    Holdings \cup (UNION {Pointers(i, table[i]) : i \in Live})
             \cup (UNION {Pointers(call[t].ino, call[t].inode) : t \in {u \in Workers : Busy(u)}})

InUse       == {p[3] : p \in Claims} \ {NoBlock}
InodesInUse == {0, Root} \cup Live \cup {call[t].ino : t \in {u \in Workers : Busy(u)}}

\* What a directory, a file or a callback uses is marked: in memory while the
\* driver runs, on the image when it does not; through concurrent callbacks,
\* unmounts and deaths that find the bits written back.
InUseIsMarked ==
    ~lost => InUse \subseteq Current.blocks /\ InodesInUse \subseteq Current.inodes

\* No block is reached through two pointers, of files, of the directory or of
\* callbacks under way in different threads.
NoSharedBlock ==
    ~lost => \A p, q \in Claims : p[3] = q[3] /\ p[3] # NoBlock => p = q

\* free_blocks counts the clear bits; free_inodes counts the clear bits, and
\* inode 0 too until fsck.minifs has recounted (minifs_format marks 0 and 1 and
\* subtracts one).
CountersTrackBits ==
    ~lost => /\ Current.free_blocks = Cardinality(DataBlocks \ Current.blocks)
             /\ Current.free_inodes - Cardinality(Inodes \ Current.inodes) \in {0, 1}

Leaked       == Current.blocks \ {p[3] : p \in Holdings}
LeakedInodes == Current.inodes \ InodesInUse

\* Space is lost by a create or a write that returns an error, by a read that
\* writes an old inode back, or by a death, and never by anything that succeeds.
SuccessLosesNothing ==
    [][\/ Leaked' \subseteq Leaked /\ LeakedInodes' \subseteq LeakedInodes
       \/ Death
       \/ \E t \in Workers :
             /\ Busy(t)
             /\ call'[t] = Idle
             /\ call[t].at \in {"undo", "block"} \/ call[t].op = "read"]_vars

\* The root directory is a set of names that changes by one name at a time, at
\* one step of a create or an unlink; a new name has an inode that no other
\* name has.  No other callback, failure, unmount or death changes it.
Tree == INSTANCE Namespace WITH
    Ids <- Inodes, Top <- Root, Labels <- Names, dirs <- {Root},
    entries <- {[dir |-> Root, name |-> e.name, id |-> e.inode] : e \in Entries}

ImplementsNamespace == Tree!Names_Spec

\* minifs_read_file changes nothing of the file but its atime.
ReadsKeepFiles == [][\A t \in Workers : RecordRead(t) => table' = table]_vars

\* After fsck.minifs, nothing that is in use is marked free on the image.
FsckRepairs ==
    [][Fsck => InUse \subseteq saved'.blocks /\ InodesInUse \subseteq saved'.inodes]_vars
=============================================================================
