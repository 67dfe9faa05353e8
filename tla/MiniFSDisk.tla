----------------------------- MODULE MiniFSDisk -----------------------------
(***************************************************************************)
(* The on-disk structures of MiniFS (src/src/minifs.h) and the pure part   *)
(* of src/src/minifs_core.c: first-fit search of a bitmap, the scan of a   *)
(* directory's slots, name comparison, the superblock's counters.          *)
(*                                                                         *)
(* Abstractions.  A bitmap is the set of its one bits.  A block is a       *)
(* function from slots to directory cells; the bytes of a file fill it     *)
(* with FileBytes.  Of an inode the type, the block pointers and           *)
(* blocks_used are kept: sizes and times are in module FileData.  A name   *)
(* is an atom: ShortNames fit the 27 characters a cell stores, LongNames   *)
(* do not, and Cut gives the 27 characters that are stored of a long one.  *)
(* A path is known by the directories on its way and by its bytes, which   *)
(* Length counts: the code copies a path into 256 bytes and cuts the rest. *)
(*                                                                         *)
(* A search that stops at the first hit is a set of at most one element,   *)
(* empty when the search fails, so that callers write "\E b \in FirstFit". *)
(***************************************************************************)
EXTENDS Integers, FiniteSets

CONSTANTS
    MaxInodes,        \* MINIFS_MAX_INODES
    DataStart,        \* MINIFS_DATA_START, absolute number of the first data block
    TotalBlocks,      \* superblock.total_blocks
    DirectBlocks,     \* MINIFS_DIRECT_BLOCKS
    DirentsPerBlock,  \* MINIFS_DIRENTS_PER_BLOCK
    ShortNames,       \* names of at most MINIFS_NAME_MAX - 1 characters
    LongNames,        \* longer names
    Cut,              \* a long name's first MINIFS_NAME_MAX - 1 characters
    Length,           \* the bytes of a name
    PathMax,          \* sizeof(tmp) - 1: the bytes of a path that are kept
    Dot, DotDot,      \* "." and ".."
    NoName,           \* name[0] = '\0', a free slot
    FileBytes         \* what a slot of a file's block holds

(* What mkfs_mini guarantees: more than one data block, a root inode, and  *)
(* room for "." and ".." in a block.                                       *)
ASSUME GeometryAssumption ==
    /\ MaxInodes \in Nat \ {0}
    /\ DataStart \in Nat \ {0}
    /\ TotalBlocks \in Nat
    /\ TotalBlocks > DataStart + 1
    /\ DirectBlocks \in Nat \ {0}
    /\ DirentsPerBlock \in Nat
    /\ DirentsPerBlock >= 2

ASSUME NameAssumption ==
    /\ Cut \in [LongNames -> ShortNames]
    /\ ShortNames \cap LongNames = {}
    /\ {Dot, DotDot, NoName, FileBytes} \cap (ShortNames \cup LongNames) = {}
    /\ Dot # DotDot /\ Dot # NoName /\ Dot # FileBytes
    /\ DotDot # NoName /\ DotDot # FileBytes /\ NoName # FileBytes

ASSUME PathAssumption ==
    /\ PathMax \in Nat
    /\ Length \in [ShortNames \cup LongNames -> Nat \ {0}]

Inodes     == 0 .. MaxInodes - 1
Root       == 0
DataBlocks == DataStart .. TotalBlocks - 1
NoBlock    == 0                      \* a direct pointer that is not set
Idx        == 0 .. DirectBlocks - 1
Slots      == 0 .. DirentsPerBlock - 1
Names      == ShortNames \cup LongNames

Cell      == [inode : Inodes, name : ShortNames \cup {Dot, DotDot, NoName, FileBytes}]
Inode     == [type : {"FREE", "FILE", "DIR"}, blocks_used : Nat,
              direct : [Idx -> DataBlocks \cup {NoBlock}]]
Counters  == [free_blocks : Nat, free_inodes : Nat]

NoPointers == [k \in Idx |-> NoBlock]
FreeInode  == [type |-> "FREE", blocks_used |-> 0, direct |-> NoPointers]
NewFile    == [type |-> "FILE", blocks_used |-> 0, direct |-> NoPointers]
NewDir(b)  == [type |-> "DIR", blocks_used |-> 1, direct |-> [NoPointers EXCEPT ![0] = b]]

\* inode.direct[k] = b; inode.blocks_used++
WithBlock(ino, k, b) == [ino EXCEPT !.direct[k] = b, !.blocks_used = @ + 1]

FreeCell   == [inode |-> Root, name |-> NoName]     \* memset(&entry, 0, ...)
ZeroBlock  == [s \in Slots |-> FreeCell]
DataBlock  == [s \in Slots |-> [inode |-> Root, name |-> FileBytes]]
\* Mutant: both dots name the new directory.
DotsBlock_SelfParent(self, parent) ==
    [ZeroBlock EXCEPT ![0] = [inode |-> self, name |-> Dot],
                      ![1] = [inode |-> self, name |-> DotDot]]

DotsBlock(self, parent) ==
    [ZeroBlock EXCEPT ![0] = [inode |-> self, name |-> Dot],
                      ![1] = [inode |-> parent, name |-> DotDot]]

-----------------------------------------------------------------------------
(* Searches *)

FirstFit(S) == {x \in S : \A y \in S : x <= y}

Before(p, q)   == p[1] < q[1] \/ (p[1] = q[1] /\ p[2] <= q[2])
FirstPos(P)    == {p \in P : \A q \in P : Before(p, q)}

Holes(dir)     == {k \in Idx : dir.direct[k] = NoBlock}
Pointers(ino)  == {k \in Idx : ino.direct[k] # NoBlock}
Refs(ino)      == {ino.direct[k] : k \in Pointers(ino)}

\* Mutant: the scan of a directory stops before its last pointer.
Positions_LastSkipped(dir) == {k \in Pointers(dir) : k < DirectBlocks - 1} \X Slots

\* The slots the scans visit: a pointer that is not set is skipped.
Positions(dir)      == Pointers(dir) \X Slots
CellAt(dir, bl, p)  == bl[dir.direct[p[1]]][p[2]]

\* A slot is free for lookup, add and remove when its name is empty.
FreeSlots(dir, bl)  == {p \in Positions(dir) : CellAt(dir, bl, p).name = NoName}

\* strncmp(stored, name, MINIFS_NAME_MAX): a stored name ends within its 28
\* bytes, so it never equals a name that does not.
Matches(dir, bl, n) == {p \in Positions(dir) : CellAt(dir, bl, p).name = n}

\* What add_entry stores: strncpy of MINIFS_NAME_MAX - 1 characters.
Stored(n) == IF n \in LongNames THEN Cut[n] ELSE n

\* readdir and rmdir, unlike lookup, take inode 0 for a free slot.
Listed(dir, bl) == {p \in Positions(dir) : /\ CellAt(dir, bl, p).inode # 0
                                           /\ CellAt(dir, bl, p).name \notin {Dot, DotDot}}

\* Mutant: lookup reads the directory's first block only.
Lookup_FirstBlock(it, bl, d, n) ==
    {CellAt(it[d], bl, p).inode :
        p \in {q \in FirstPos(Matches(it[d], bl, n)) : q[1] = 0}}

Lookup(it, bl, d, n) ==
    {CellAt(it[d], bl, p).inode : p \in FirstPos(Matches(it[d], bl, n))}

\* The directories an absolute path of exactly k bytes resolves to, one lookup
\* per component: a '/' and the bytes of a name.  The root's path counts none,
\* as it ends in the '/' of its first component.
DirsAt(it, bl) ==
    LET found[k \in 0 .. PathMax] ==
          IF k = 0 THEN {Root}
          ELSE LET named(n) == UNION {Lookup(it, bl, d, n) : d \in found[k - 1 - Length[n]]}
                   fits     == {n \in ShortNames : Length[n] < k}
               IN  {i \in UNION {named(n) : n \in fits} : it[i].type = "DIR"}
    IN  found

\* The directories that paths which are not cut resolve to.
PathDirs(it, bl) == UNION {DirsAt(it, bl)[k] : k \in 0 .. PathMax}

\* Name n of directory d has a path that is not cut.
Fits(it, bl, d, n) == \E k \in 0 .. PathMax - 1 - Length[n] : d \in DirsAt(it, bl)[k]

-----------------------------------------------------------------------------
(* Superblock counters: a decrement is guarded, an increment is not. *)

Taken(n) == IF n > 0 THEN n - 1 ELSE n

\* Mutants: a block counted twice; an increment that decrements.
TakeBlock_Twice(sb)     == [sb EXCEPT !.free_blocks = Taken(Taken(@))]
GiveInode_Taken(sb)     == [sb EXCEPT !.free_inodes = @ - 1]

TakeBlock(sb)       == [sb EXCEPT !.free_blocks = Taken(@)]
TakeInode(sb)       == [sb EXCEPT !.free_inodes = Taken(@)]
GiveBlocks(sb, K)   == [sb EXCEPT !.free_blocks = @ + Cardinality(K)]
GiveInode(sb)       == [sb EXCEPT !.free_inodes = @ + 1]
=============================================================================
