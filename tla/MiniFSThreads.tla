--------------------------- MODULE MiniFSThreads ----------------------------
(***************************************************************************)
(* The driver under the multithreaded loop of fuse_main, which main starts *)
(* unless the user passes -s.  Each worker thread serves one callback at a *)
(* time; a callback is the block transfers of minifs_core.c it makes, and  *)
(* a transfer is two system calls, lseek and then read or write, on the    *)
(* one descriptor g_ctx.fd and so on one file offset.  There is no lock.   *)
(*                                                                         *)
(* A file has at most one block; the callbacks are create, read, write,    *)
(* truncate (to 0) and unlink, on the two bitmap blocks, the blocks of the *)
(* inode table and the data blocks.  The kernel lets one write, truncate   *)
(* or unlink at a time at a file, and reads at any time but no unlink of   *)
(* an open file; creates are in different directories.  Directory blocks   *)
(* and the counters of the superblock are left out, and so is block 0.     *)
(***************************************************************************)
EXTENDS Integers, FiniteSets

CONSTANTS
    Workers,          \* the threads of the FUSE loop
    TableBlocks,      \* the blocks of the inode table (2 in minifs.h)
    InodesPerBlock,   \* the inodes each of them holds (64)
    BitsPerBlock,     \* the bits of a block (32768)
    LastBlock         \* the last block of the image

InodeBitmap == 1
BlockBitmap == 2
TableStart  == 3
DataStart   == TableStart + TableBlocks   \* holds the root directory
TableArea   == TableStart .. DataStart - 1
DataBlocks  == DataStart .. LastBlock
Blocks      == InodeBitmap .. LastBlock
Root        == 0
MaxInodes   == TableBlocks * InodesPerBlock
Inodes      == 0 .. MaxInodes - 1
Files       == Inodes \ {Root}
NoBlock     == 0          \* a direct pointer that is not set
NotAFile    == -1         \* for the pointer of an inode whose type is not FILE
Pointers    == DataBlocks \cup {NoBlock, NotAFile}

\* Where minifs_read_inode and minifs_write_inode find inode i.
TableOf(i) == TableStart + i \div InodesPerBlock
Slot(i)    == i % InodesPerBlock
Slots      == 0 .. InodesPerBlock - 1

\* The root and its block are there, and each bitmap fits its one block (a larger
\* image: SmallImagesHaveTheirBits of FormatProofs).
ASSUME SizeAssumption ==
    /\ TableBlocks \in Nat \ {0} /\ InodesPerBlock \in Nat \ {0}
    /\ BitsPerBlock \in Nat \ {0} /\ LastBlock \in Nat
    /\ DataStart <= LastBlock
    /\ MaxInodes <= BitsPerBlock
    /\ LastBlock - DataStart < BitsPerBlock

VARIABLES
    image,     \* what each block holds
    pos,       \* the file offset of g_ctx.fd, in blocks
    call,      \* the callback each worker serves, with its locals
    made,      \* the files that have a name
    stored     \* history: the files whose last completed callback was a write

vars == <<image, pos, call, made, stored>>

Bits(B)  == [kind |-> "bitmap", bits |-> B]
Inos(d)  == [kind |-> "table", direct |-> d]
Bytes(f) == [kind |-> "data", of |-> {f}]
Zeros    == [kind |-> "data", of |-> {}]

\* What a block reads as that is not the one that was meant: zeroes are a bitmap
\* with no bit set and free inodes, anything else is taken for any bits and any
\* inodes.
AsBits(c)  == CASE c.kind = "bitmap" -> {c.bits}
                [] c = Zeros         -> {{}}
                [] OTHER             -> SUBSET (0 .. BitsPerBlock - 1)

AsTable(c) == CASE c.kind = "table" -> {c.direct}
                [] c = Zeros        -> {[s \in Slots |-> NotAFile]}
                [] OTHER            -> [Slots -> Pointers]

\* Bit n of the block bitmap is for the n-th data block.
Bit(b)    == b - DataStart
DataBits  == {Bit(b) : b \in DataBlocks}

\* The locals: op and file, the point reached (at), whether its lseek is done,
\* block_buf (buf), inode.direct[0] (direct).
Idle == [op |-> "none"]
Started(op, f) == [op |-> op, f |-> f, at |-> "inode", sought |-> FALSE,
                   buf |-> Zeros, direct |-> NoBlock]

\* The image mkfs_mini makes.
Init ==
    /\ image = [b \in Blocks |-> CASE b = InodeBitmap -> Bits({Root})
                                   [] b = BlockBitmap -> Bits({Bit(DataStart)})
                                   [] b \in TableArea -> Inos([s \in Slots |-> NotAFile])
                                   [] b = DataStart   -> Bytes(Root)
                                   [] OTHER           -> Zeros]
    /\ pos = InodeBitmap     \* behind the superblock, which mounting has read
    /\ call = [t \in Workers |-> Idle]
    /\ made = {}
    /\ stored = {}

Busy(t) == call[t].op # "none"

\* A create of a file, whose inode it has still to find.
StartCreate(t) ==
    /\ ~Busy(t)
    /\ call' = [call EXCEPT ![t] = [Started("create", Root) EXCEPT !.at = "number"]]
    /\ UNCHANGED <<image, pos, made, stored>>

\* What the kernel lets run beside each other at one file.
Admitted(op, f) ==
    \A u \in Workers : Busy(u) /\ call[u].op # "create" /\ call[u].f = f =>
        \/ op = "read" /\ call[u].op # "unlink"
        \/ op # "unlink" /\ call[u].op = "read"

Start(t, op, f) ==
    /\ ~Busy(t)
    /\ f \in made
    /\ Admitted(op, f)
    /\ call' = [call EXCEPT ![t] = Started(op, f)]
    /\ stored' = IF op = "read" THEN stored ELSE stored \ {f}
    /\ UNCHANGED <<image, pos, made>>

-----------------------------------------------------------------------------
(* The block a callback addresses at each point, and what it writes there. *)

Target(c) ==
    CASE c.at \in {"inode", "table", "record"} -> TableOf(c.f)
      [] c.at \in {"find", "mark", "look", "unmark"} -> BlockBitmap
      [] c.at \in {"number", "ibits", "iwrite"} -> InodeBitmap
      [] c.at \in {"zero", "data", "store"} -> c.direct

Reading(c) == c.at \in {"number", "inode", "find", "look", "data", "table", "ibits"}

\* minifs_block_alloc, minifs_block_free, minifs_inode_alloc and
\* minifs_inode_free write the bitmap they have read with one bit changed,
\* minifs_write_inode the table block with one inode.
Payload(c) ==
    CASE c.at = "mark"   -> Bits(c.buf.bits \cup {Bit(c.direct)})
      [] c.at = "unmark" -> Bits(c.buf.bits \ {Bit(c.direct)})
      [] c.at = "iwrite" -> Bits(IF c.op = "create" THEN c.buf.bits \cup {c.f}
                                                    ELSE c.buf.bits \ {c.f})
      [] c.at = "zero"   -> Zeros
      [] c.at = "store"  -> Bytes(c.f)
      [] c.at = "record" -> Inos([c.buf.direct EXCEPT ![Slot(c.f)] =
                                    CASE c.op \in {"truncate", "create"} -> NoBlock
                                      [] c.op = "unlink" -> NotAFile
                                      [] OTHER -> c.direct])

-----------------------------------------------------------------------------
(* The transfers *)

\* Mutant: a block is read or written where the descriptor happens to be.
Seek_Skipped(t) ==
    /\ Busy(t) /\ ~call[t].sought
    /\ call' = [call EXCEPT ![t].sought = TRUE]
    /\ UNCHANGED <<image, pos, made, stored>>

Seek(t) ==
    /\ Busy(t) /\ ~call[t].sought
    /\ pos' = Target(call[t])
    /\ call' = [call EXCEPT ![t].sought = TRUE]
    /\ UNCHANGED <<image, made, stored>>

\* What a worker does with the block it has read: it takes it for what it meant
\* to read, and goes on to its next transfer or returns.
AfterInode(c, d) ==
    LET p  == d[Slot(c.f)]
        to(point) == {[c EXCEPT !.at = point, !.direct = p]}
    IN  CASE p = NotAFile                     -> {Idle}         \* -EISDIR
          [] p \in DataBlocks /\ c.op \in {"truncate", "unlink"} -> to("look")
          [] p \in DataBlocks /\ c.op \in {"read", "write"} -> to("data")
          [] p = NoBlock /\ c.op = "write"    -> to("find")
          [] p = NoBlock /\ c.op \in {"truncate", "unlink"} -> to("table")
          [] p = NoBlock /\ c.op = "read"     -> {Idle}         \* offset >= size

FirstFit(S) == {x \in S : \A y \in S : x <= y}

\* minifs_inode_find_free: the first clear bit, or -ENOSPC
AfterNumber(c, B) ==
    IF Inodes \subseteq B THEN {Idle}
    ELSE {[c EXCEPT !.at = "table", !.f = i] : i \in FirstFit(Inodes \ B)}

\* Mutants of minifs_block_alloc: it hands the block out before its bit is
\* written; the last bit is never looked at and taken for clear.
AfterFind_Unmarked(c, B) ==
    IF DataBits \subseteq B THEN {Idle}
    ELSE {[c EXCEPT !.at = "zero", !.direct = DataStart + n] : n \in FirstFit(DataBits \ B)}

AfterFind_LastUnseen(c, B) ==
    {[c EXCEPT !.at = "mark", !.buf = Bits(B), !.direct = DataStart + n] :
        n \in FirstFit((DataBits \ B) \cup {Bit(LastBlock)})}

\* minifs_block_alloc: the first clear bit of the bitmap as it was read.
AfterFind(c, B) ==
    IF DataBits \subseteq B THEN {Idle}
    ELSE {[c EXCEPT !.at = "mark", !.buf = Bits(B), !.direct = DataStart + n] :
             n \in FirstFit(DataBits \ B)}

AfterRead(c, content) ==
    CASE c.at = "number" -> UNION {AfterNumber(c, B) : B \in AsBits(content)}
      [] c.at = "inode" -> UNION {AfterInode(c, d) : d \in AsTable(content)}
      [] c.at = "find"  -> UNION {AfterFind(c, B) : B \in AsBits(content)}
      [] c.at = "look"  -> {[c EXCEPT !.at = "unmark", !.buf = Bits(B)] : B \in AsBits(content)}
      [] c.at = "ibits" -> {[c EXCEPT !.at = "iwrite", !.buf = Bits(B)] : B \in AsBits(content)}
      [] c.at = "table" -> {[c EXCEPT !.at = "record", !.buf = Inos(d)] : d \in AsTable(content)}
      [] c.at = "data"  -> {[c EXCEPT !.at = IF c.op = "read" THEN "table" ELSE "store"]}

\* Mutant: a create leaves its inode's bit for later.
AfterWrite_NotMarked(c) ==
    CASE c.at = "mark"   -> [c EXCEPT !.at = "zero"]
      [] c.at = "zero"   -> [c EXCEPT !.at = "data"]
      [] c.at \in {"store", "unmark"} -> [c EXCEPT !.at = "table"]
      [] c.at = "record" /\ c.op = "unlink" -> [c EXCEPT !.at = "ibits"]
      [] OTHER -> Idle

\* After minifs_write_inode the callback is over, save create and unlink,
\* which change the inode bitmap last.
AfterWrite(c) ==
    CASE c.at = "mark"   -> [c EXCEPT !.at = "zero"]
      [] c.at = "zero"   -> [c EXCEPT !.at = "data"]
      [] c.at \in {"store", "unmark"} -> [c EXCEPT !.at = "table"]
      [] c.at = "record" /\ c.op \in {"create", "unlink"} -> [c EXCEPT !.at = "ibits"]
      [] OTHER -> Idle

Sought(c) == IF c = Idle THEN c ELSE [c EXCEPT !.sought = FALSE]

\* A transfer leaves the offset behind the block; a read past the end of the
\* image fails, and the callback with it.
Read(t) ==
    LET c == call[t] IN
    /\ Busy(t) /\ c.sought /\ Reading(c)
    /\ \/ /\ pos \in Blocks
          /\ \E next \in AfterRead(c, image[pos]) : call' = [call EXCEPT ![t] = Sought(next)]
          /\ pos' = pos + 1
       \/ /\ pos \notin Blocks
          /\ call' = [call EXCEPT ![t] = Idle]
          /\ UNCHANGED pos
    /\ UNCHANGED <<image, made, stored>>

\* A callback that ends with a write ends with success.
Write(t) ==
    LET c == call[t] IN
    /\ Busy(t) /\ c.sought /\ ~Reading(c)
    /\ image' = [b \in Blocks |-> IF b = pos THEN Payload(c) ELSE image[b]]
    /\ pos' = pos + 1
    /\ call' = [call EXCEPT ![t] = Sought(AfterWrite(c))]
    /\ made' = CASE AfterWrite(c) = Idle /\ c.op = "create" -> made \cup {c.f}
                 [] AfterWrite(c) = Idle /\ c.op = "unlink" -> made \ {c.f}
                 [] OTHER -> made
    /\ stored' = IF c.at = "record" /\ c.op = "write" THEN stored \cup {c.f} ELSE stored

Next ==
    \E t \in Workers :
        \/ StartCreate(t)
        \/ \E op \in {"read", "write", "truncate", "unlink"}, f \in Files : Start(t, op, f)
        \/ Seek(t)
        \/ Read(t)
        \/ Write(t)

Spec == Init /\ [][Next]_vars

-----------------------------------------------------------------------------
(* What holds with one worker (-s), and not with two *)

Points == {"number", "inode", "find", "mark", "zero", "data", "store", "look", "unmark",
           "table", "record", "ibits", "iwrite"}

TypeOK ==
    /\ pos \in InodeBitmap .. LastBlock + 1
    /\ made \subseteq Files /\ stored \subseteq Files
    /\ image[InodeBitmap].kind = "bitmap" /\ image[InodeBitmap].bits \subseteq Inodes
    /\ image[BlockBitmap].kind = "bitmap" /\ image[BlockBitmap].bits \subseteq DataBits
    /\ \A b \in TableArea : image[b].kind = "table" /\ image[b].direct \in [Slots -> Pointers]
    /\ \A b \in DataBlocks : image[b].kind = "data" /\ image[b].of \subseteq Inodes
    /\ \A t \in Workers : Busy(t) => call[t].at \in Points /\ call[t].f \in Inodes

\* The pointer of inode i as the table has it.
Pointer(i) == image[TableOf(i)].direct[Slot(i)]

\* minifs_block_alloc hands out a block that nobody has: no other callback
\* that writes, and no file.
AllocatedIsFree ==
    \A t \in Workers : Busy(t) /\ call[t].at \in {"mark", "zero"} =>
        /\ \A u \in Workers \ {t} :
              Busy(u) /\ call[u].op = "write" => call[u].direct # call[t].direct
        /\ \A i \in Inodes : image[TableOf(i)].kind = "table" => Pointer(i) # call[t].direct

\* mfs_create gives a new file an inode number that nobody has: no other
\* create under way, and no file that has a name, wherever numbers were given
\* back before.
NewInodeIsFree ==
    \A t \in Workers : Busy(t) /\ call[t].op = "create" /\ call[t].at # "number" =>
        /\ call[t].f \notin made
        /\ \A u \in Workers \ {t} :
              Busy(u) /\ call[u].op = "create" /\ call[u].at # "number"
              => call[u].f # call[t].f

\* A write that has returned stays: until the file is written, truncated or
\* removed, its pointer leads to a marked block that holds its bytes, whatever
\* is created, read, written, truncated and removed meanwhile.
WritesStay ==
    \A f \in stored :
        LET b == Pointer(f) IN
        /\ b \in DataBlocks /\ Bit(b) \in image[BlockBitmap].bits
        /\ image[b] = Bytes(f)
=============================================================================
