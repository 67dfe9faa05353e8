------------------------------- MODULE Format -------------------------------
(***************************************************************************)
(* The two formatters of the repository, mkfs_mini (src/src/mkfs_mini.c)   *)
(* and minifs_format (src/minifs/minifs-fuse/src/filesystem.c), and what   *)
(* the two drivers find in the images they make.  Either may be run at any *)
(* time on the same file, whatever it holds, and may die between two       *)
(* writes.                                                                 *)
(*                                                                         *)
(* A block holds a part of one structure (what) of the geometry (of) it    *)
(* was written for, or zeroes.  Counters of the superblock, names and      *)
(* times are left out.                                                     *)
(***************************************************************************)
EXTENDS Integers, Sequences

CONSTANTS
    BlockSize,      \* MINIFS_BLOCK_SIZE, of both
    MiniInodes,     \* MINIFS_MAX_INODES
    MiniInodeSize,  \* MINIFS_INODE_SIZE
    FuseInodeSize,  \* sizeof(minifs_inode_t) of minifs-fuse
    BlocksPerMB,    \* 1024 * 1024 / MINIFS_BLOCK_SIZE
    MaxMB,          \* 1024: the largest image mkfs_mini makes
    Megabytes,      \* bound: the sizes mkfs_mini is called with
    InodeCounts,    \* bound: the --inodes of mkfs.minifs
    Lengths         \* bound: the blocks of the file before the first format

ASSUME SizeAssumption ==
    /\ {BlockSize, MiniInodes, MiniInodeSize, FuseInodeSize, BlocksPerMB, MaxMB} \subseteq Nat \ {0}
    /\ (MiniInodes * MiniInodeSize) % BlockSize = 0
    /\ MiniInodes <= 8 * BlockSize           \* one block of inode bits
    /\ Megabytes \subseteq Nat
    /\ InodeCounts \subseteq Nat \ {0, 1}    \* minifs_format fills in inode 1
    /\ Lengths \subseteq Nat

VARIABLES
    image,      \* the blocks that were written since the file was empty
    length,     \* the blocks of the file
    todo,       \* the writes the formatter under way has still to do
    goal,       \* the geometry it writes, or wrote last
    fresh       \* history: it started from a file of zeroes

vars == <<image, length, todo, goal, fresh>>

-----------------------------------------------------------------------------
(* Geometry *)

BitsPerBlock == 8 * BlockSize
Bytes(bits)  == (bits + 7) \div 8
Blocks(n)    == (n + BlockSize - 1) \div BlockSize

Region(at, n) == [at |-> at, blocks |-> n]

MiniTableBlocks == (MiniInodes * MiniInodeSize) \div BlockSize
MiniDataStart   == 3 + MiniTableBlocks

MiniLayout == [sb    |-> Region(0, 1),
               ibits |-> Region(1, 1),
               bbits |-> Region(2, 1),
               table |-> Region(3, MiniTableBlocks),
               dir   |-> Region(MiniDataStart, 1)]

\* Mutant: the table is rounded down to whole blocks.
FuseLayout_Floor(g) ==
    LET inode_bitmap_blocks == Blocks(Bytes(g.inodes))
        inode_table_blocks  == (g.inodes * FuseInodeSize) \div BlockSize
        block_bitmap_blocks == Blocks(Bytes(g.total))
        inode_table_block   == 1 + inode_bitmap_blocks
        block_bitmap_block  == inode_table_block + inode_table_blocks
    IN  [sb    |-> Region(0, 1),
         ibits |-> Region(1, inode_bitmap_blocks),
         table |-> Region(inode_table_block, inode_table_blocks),
         bbits |-> Region(block_bitmap_block, block_bitmap_blocks),
         dir   |-> Region(block_bitmap_block + block_bitmap_blocks, 1)]

FuseLayout(g) ==
    LET inode_bitmap_blocks == Blocks(Bytes(g.inodes))
        inode_table_blocks  == Blocks(g.inodes * FuseInodeSize)
        block_bitmap_blocks == Blocks(Bytes(g.total))
        inode_table_block   == 1 + inode_bitmap_blocks
        block_bitmap_block  == inode_table_block + inode_table_blocks
    IN  [sb    |-> Region(0, 1),
         ibits |-> Region(1, inode_bitmap_blocks),
         table |-> Region(inode_table_block, inode_table_blocks),
         bbits |-> Region(block_bitmap_block, block_bitmap_blocks),
         dir   |-> Region(block_bitmap_block + block_bitmap_blocks, 1)]

Layout(g)    == IF g.tool = "mini" THEN MiniLayout ELSE FuseLayout(g)
DataStart(g) == Layout(g).dir.at
RootInode(g) == IF g.tool = "mini" THEN 0 ELSE 1

\* The bits that are set in a new bitmap.  Bits of blocks count from the first
\* data block in mkfs_mini, from block 0 in minifs_format.
InodesMarked(g) == IF g.tool = "mini" THEN {0} ELSE {0, 1}

BlocksMarked(g) == IF g.tool = "mini" THEN {0} ELSE 0 .. DataStart(g)

-----------------------------------------------------------------------------
(* Writes *)

NoGoal           == [tool |-> "none", total |-> 0, inodes |-> 0]
Zeroes           == [what |-> "zeroes", part |-> 0, of |-> NoGoal]
Part(what, k, g) == [what |-> what, part |-> k, of |-> g]
At(b)            == IF b \in DOMAIN image THEN image[b] ELSE Zeroes

\* A write of blocks first .. first + n - 1 of a structure.
Transfer(what, first, n) == [what |-> what, first |-> first, n |-> n]

\* Mutant: the table before the bitmaps.
MiniWrites_TableFirst ==
    <<Transfer("sb", 0, 1)>>
    \o [k \in 1 .. MiniTableBlocks |-> Transfer("table", k - 1, 1)]
    \o <<Transfer("ibits", 0, 1), Transfer("bbits", 0, 1), Transfer("dir", 0, 1)>>

\* mkfs_mini writes block by block.
MiniWrites ==
    <<Transfer("sb", 0, 1), Transfer("ibits", 0, 1), Transfer("bbits", 0, 1)>>
    \o [k \in 1 .. MiniTableBlocks |-> Transfer("table", k - 1, 1)]
    \o <<Transfer("dir", 0, 1)>>

\* minifs_format writes each structure with one pwrite.  Behind the last inode
\* the table's last block gets what is behind the buffer; no inode is there.
FuseWrites(g) ==
    [k \in 1 .. 5 |-> LET what == <<"sb", "ibits", "table", "bbits", "dir">>[k]
                      IN  Transfer(what, 0, FuseLayout(g)[what].blocks)]

Init ==
    /\ image = <<>>
    /\ length \in Lengths
    /\ todo = <<>>
    /\ goal = NoGoal
    /\ fresh = TRUE

\* open with O_TRUNC and ftruncate: all old content is gone.
StartMini(mb) ==
    LET total == mb * BlocksPerMB IN
    /\ todo = <<>>
    /\ 0 < mb /\ mb <= MaxMB
    /\ total > MiniDataStart + 1
    /\ image' = <<>>
    /\ length' = total
    /\ goal' = [tool |-> "mini", total |-> total, inodes |-> MiniInodes]
    /\ todo' = MiniWrites
    /\ fresh' = TRUE

\* The file keeps its content and says how many blocks there are.  Bound: the
\* bits to set are within the bitmap; minifs_format does not look.
StartFuse(inodes) ==
    LET g == [tool |-> "fuse", total |-> length, inodes |-> inodes] IN
    /\ todo = <<>>
    /\ DataStart(g) < FuseLayout(g).bbits.blocks * BitsPerBlock
    /\ goal' = g
    /\ todo' = FuseWrites(g)
    /\ fresh' = (image = <<>>)
    /\ UNCHANGED <<image, length>>

\* A write behind the end makes the file longer.
Write ==
    LET w     == Head(todo)
        first == Layout(goal)[w.what].at + w.first
        here  == first .. first + w.n - 1
    IN  /\ todo # <<>>
        /\ image' = [b \in here \cup DOMAIN image |->
                        IF b \in here THEN Part(w.what, w.first + b - first, goal) ELSE image[b]]
        /\ length' = IF first + w.n > length THEN first + w.n ELSE length
        /\ todo' = Tail(todo)
        /\ UNCHANGED <<goal, fresh>>

\* The formatter dies: what it has not written stays as it was.
Death ==
    /\ todo # <<>>
    /\ todo' = <<>>
    /\ goal' = NoGoal
    /\ UNCHANGED <<image, length, fresh>>

-----------------------------------------------------------------------------
(* What the drivers find: mount looks at the magic (and version) only *)

Mountable == At(0).what = "sb"
Found     == At(0).of

\* minifs_mount and minifs_sync compute the places of the bitmaps again, and
\* the core layer of MiniFS has them as constants.
InodeBitmapAt(g) == 1
BlockBitmapAt(g) ==
    IF g.tool = "mini" THEN 2
    ELSE FuseLayout(g).table.at + (g.inodes * FuseInodeSize + BlockSize - 1) \div BlockSize

\* Block k of a structure is where it is looked for.
Reads(at, what, k, g) == At(at + k) = Part(what, k, g)

\* The blocks that hold inode i, counted from the start of the table.
InodeBlocks(g, i) ==
    LET size == IF g.tool = "mini" THEN MiniInodeSize ELSE FuseInodeSize
    IN  (i * size) \div BlockSize .. (i * size + size - 1) \div BlockSize

ReadsInode(g, i) == \A k \in InodeBlocks(g, i) : Reads(Layout(g).table.at, "table", k, g)

\* Bit n of a bitmap at this place is set.
BitSet(at, what, n, marked, g) == Reads(at, what, n \div BitsPerBlock, g) /\ n \in marked

InodeBit(g, i) == BitSet(InodeBitmapAt(g), "ibits", i, InodesMarked(g), g)
BlockBit(g, n) == BitSet(BlockBitmapAt(g), "bbits", n, BlocksMarked(g), g)

\* The numbers that the allocators may give out, now or when those before are
\* taken.  minifs-fuse takes 0 for none: while bit 0 is clear it finds no other.
\* MiniFS has one block of bits and looks behind it for more: what it sees there
\* is whatever its stack holds.
InodesOffered(g) ==
    IF g.tool = "fuse" /\ ~InodeBit(g, 0) THEN {}
    ELSE {i \in 0 .. g.inodes - 1 : ~InodeBit(g, i)}

BlocksOffered(g) ==
    IF g.tool = "mini"
    THEN {MiniDataStart + n : n \in {m \in 0 .. g.total - MiniDataStart - 1 :
                                        m >= BitsPerBlock \/ ~BlockBit(g, m)}}
    ELSE IF ~BlockBit(g, 0) THEN {}
    ELSE {b \in 0 .. g.total - 1 : ~BlockBit(g, b)}

-----------------------------------------------------------------------------

Next ==
    \/ \E mb \in Megabytes : StartMini(mb)
    \/ \E inodes \in InodeCounts : StartFuse(inodes)
    \/ Write
    \/ Death

Spec == Init /\ [][Next]_vars

-----------------------------------------------------------------------------
(* Properties *)

Done   == todo = <<>> /\ goal # NoGoal
Serves == Mountable /\ ReadsInode(Found, RootInode(Found))

\* A driver finds every inode, every bit and the root directory where the
\* formatter put them, whatever the file held before: no structure reaches into
\* the next, at no size and no number of inodes, and nothing older shows.
FormatReadsBack ==
    Done =>
        /\ Mountable /\ Found = goal
        /\ \A i \in 0 .. goal.inodes - 1 :
              /\ ReadsInode(goal, i)
              /\ Reads(InodeBitmapAt(goal), "ibits", i \div BitsPerBlock, goal)
        /\ goal.tool = "fuse" => \A b \in 0 .. goal.total - 1 :
              Reads(BlockBitmapAt(goal), "bbits", b \div BitsPerBlock, goal)
        /\ Reads(BlockBitmapAt(goal), "bbits", 0, goal)
        /\ Reads(DataStart(goal), "dir", 0, goal)

\* Where there is a root directory to serve, the allocators offer neither it nor
\* anything that is not a data block of the image, and its block holds nothing
\* old: also when a first format was cut short, for what is written before the
\* table makes the image safe.  A whole format offers all blocks but the root's,
\* none if the image is too small for its own tables (free_blocks wraps below 0
\* there).
AllocatorsAvoidRoot ==
    Serves /\ (fresh \/ Done) =>
        /\ RootInode(Found) \notin InodesOffered(Found)
        /\ BlocksOffered(Found) \subseteq DataStart(Found) + 1 .. Found.total - 1
        /\ At(DataStart(Found)) \in {Zeroes, Part("dir", 0, Found)}
        /\ Done => BlocksOffered(Found) = DataStart(Found) + 1 .. Found.total - 1

\* mkfs_mini.c:97: bit i says whether data block i is taken.  So the bit of
\* every data block lies in the bitmap.
EveryBlockHasItsBit ==
    Done /\ goal.tool = "mini" =>
        \A n \in 0 .. goal.total - MiniDataStart - 1 :
            Reads(BlockBitmapAt(goal), "bbits", n \div BitsPerBlock, goal)
=============================================================================
