---------------------------- MODULE FuseFSProofs -----------------------------
(***************************************************************************)
(* What minifs-fuse keeps through concurrent callbacks, unmounts and       *)
(* deaths that find the bitmaps written back, proved for every set of      *)
(* threads and names and every geometry.                                   *)
(*                                                                         *)
(* The invariant has four parts.  Claims: who has which block through      *)
(* which pointer, be it on the image or in the copy a callback works on;   *)
(* they are marked and no two are of one block.  Directory: names and      *)
(* inodes are not twice in it.  Calls: what a callback knows at the point  *)
(* it has reached.  Counters: which of the two copies of the counters are  *)
(* true in which phase of a mount.  The first three are about values: m    *)
(* the bitmaps, tb the inode table, ct the content of the blocks, cl the   *)
(* callbacks.  So all but the last part of that proof is free of primes.   *)
(*                                                                         *)
(* Space is not lost by what succeeds: a marked block or inode that        *)
(* somebody holds (Held, Used) is held or unmarked after the step.         *)
(***************************************************************************)
EXTENDS FuseFS, FiniteSetTheorems, WellFoundedInduction, TLAPS

USE FuseGeometryAssumption DEF Root, NoBlock

-----------------------------------------------------------------------------
(* The directory *)

\* Block k of the directory has the entry of name n and inode i.
Slot(tb, ct, k, n, i) ==
    /\ k \in Idx /\ k < tb[Root].size /\ tb[Root].block[k] # NoBlock
    /\ ct[tb[Root].block[k]] = EntryOf(n, i)

Entry(tb, ct, n, i) == \E k \in Idx : Slot(tb, ct, k, n, i)

DirInv(m, tb, ct) ==
    /\ {0, Root} \subseteq m.inodes
    /\ \A k \in Idx, n \in Names, i \in Inodes :
          Slot(tb, ct, k, n, i) => i \notin {0, Root} /\ i \in m.inodes
    /\ \A k, l \in Idx, n, p \in Names, i, j \in Inodes :
          Slot(tb, ct, k, n, i) /\ Slot(tb, ct, l, p, j) /\ (n = p \/ i = j) => k = l

-----------------------------------------------------------------------------
(* Claims *)

Runs(c) == c.op # "none"

\* Pointer k of inode i is b: on the image, or in the copy of a callback, or
\* it will be once a create has linked its new directory block.
OnImage(tb, ct, i, k, b) ==
    /\ i = Root \/ \E n \in Names : Entry(tb, ct, n, i)
    /\ k \in Idx /\ tb[i].block[k] = b
InCopy(c, i, k, b) == Runs(c) /\ c.ino = i /\ k \in Idx /\ c.inode.block[k] = b
NewInDir(tb, c, i, k, b) ==
    Runs(c) /\ c.op # "read" /\ i = Root /\ k = tb[Root].size /\ c.blk = b
CallClaim(tb, c, i, k, b) == InCopy(c, i, k, b) \/ NewInDir(tb, c, i, k, b)

Claim(tb, ct, cl, i, k, b) ==
    OnImage(tb, ct, i, k, b) \/ \E t \in Workers : CallClaim(tb, cl[t], i, k, b)

ClaimsInv(m, tb, ct, cl) ==
    /\ \A i \in Inodes, k \in Nat, b \in DataBlocks :
          Claim(tb, ct, cl, i, k, b) => b \in m.blocks
    /\ \A i, j \in Inodes, k, l \in Nat, b \in DataBlocks :
          Claim(tb, ct, cl, i, k, b) /\ Claim(tb, ct, cl, j, l, b) => i = j /\ k = l

-----------------------------------------------------------------------------
(* The callbacks under way *)

CreateInv(tb, ct, c) ==
    /\ c.at \in {"entry", "link", "undo"}
    /\ \A n \in Names, i \in Inodes : Entry(tb, ct, n, i) => n # c.name /\ i # c.ino
    /\ tb[c.ino] = EmptyInode /\ c.inode = EmptyInode
    /\ c.at = "entry" => c.blk = NoBlock
    /\ c.at = "link" => /\ tb[Root].size < DirectBlocks
                        /\ c.blk \in DataBlocks /\ ct[c.blk] = EntryOf(c.name, c.ino)

UnlinkInv(tb, ct, c) ==
    /\ c.at = "free" /\ c.blk = NoBlock
    /\ \A n \in Names, i \in Inodes : Entry(tb, ct, n, i) => i # c.ino

WriteInv(tb, ct, c) ==
    /\ c.at \in {"block", "record"} /\ c.blk = NoBlock
    /\ Entry(tb, ct, c.name, c.ino)
    /\ c.at = "block" => c.k <= c.to
    /\ c.at = "record" => c.to \in Idx

ReadInv(tb, ct, c) == c.at = "record" /\ c.blk = NoBlock /\ Entry(tb, ct, c.name, c.ino)

OneCallInv(m, tb, ct, c) ==
    /\ c.ino \notin {0, Root} /\ c.ino \in m.inodes
    /\ c.inode.size <= DirectBlocks
    /\ c.op = "create" => CreateInv(tb, ct, c)
    /\ c.op = "unlink" => UnlinkInv(tb, ct, c)
    /\ c.op = "write"  => WriteInv(tb, ct, c)
    /\ c.op = "read"   => ReadInv(tb, ct, c)

\* One create or unlink at a time, and one write of a file.
Exclude(c, d) ==
    \/ c.op \in {"create", "unlink"} /\ d.op \in {"create", "unlink"}
    \/ c.op = "write" /\ d.op = "write" /\ c.name = d.name

CallsInv(m, tb, ct, cl) ==
    /\ \A t \in Workers : Runs(cl[t]) => OneCallInv(m, tb, ct, cl[t])
    /\ \A t, u \in Workers : Exclude(cl[t], cl[u]) => t = u

Sound(m, tb, ct, cl) == ClaimsInv(m, tb, ct, cl) /\ DirInv(m, tb, ct) /\ CallsInv(m, tb, ct, cl)

-----------------------------------------------------------------------------
(* Counters and phases *)

Tracks(m) ==
    /\ m.free_blocks = Cardinality(DataBlocks \ m.blocks)
    /\ m.free_inodes - Cardinality(Inodes \ m.inodes) \in {0, 1}

\* Which counters are true, and how far an unmount has made the two alike.
PhaseInv ==
    /\ phase \in {"down", "up"} => Tracks(saved)
    /\ phase # "down" => Tracks(ctx)
    /\ phase \in {"sb", "inodes"} =>
          saved.free_blocks = ctx.free_blocks /\ saved.free_inodes = ctx.free_inodes
    /\ phase = "inodes" => saved.inodes = ctx.inodes
    /\ phase # "up" => \A t \in Workers : ~Busy(t)

FuseInv ==
    /\ TypeOK
    /\ lost => phase = "down" /\ \A t \in Workers : ~Busy(t)
    /\ ~lost => Sound(Current, table, content, call) /\ PhaseInv

-----------------------------------------------------------------------------
(* Types *)

Running == [op : {"create", "unlink", "write", "read"}, name : Names, ino : Inodes,
            at : {"entry", "link", "undo", "free", "block", "record"},
            inode : Inode, k : Nat, to : Nat, blk : DataBlocks \cup {NoBlock}]

Types(m, tb, ct, cl) ==
    /\ m \in Metadata
    /\ tb \in [Inodes -> Inode] /\ \A i \in Inodes : tb[i].size <= DirectBlocks
    /\ ct \in [DataBlocks -> Cell]
    /\ cl \in [Workers -> Call]

\* The sets are what the geometry makes them.
LEMMA Sets ==
    /\ Root \in Inodes /\ 0 \in Inodes
    /\ DataStart \in DataBlocks /\ NoBlock \notin DataBlocks
    /\ 0 \in Idx /\ Idx \subseteq Nat /\ DirectBlocks \in Nat /\ DirectBlocks \notin Idx
    /\ \A k \in Nat : k < DirectBlocks => k \in Idx
    /\ IsFiniteSet(Inodes) /\ IsFiniteSet(DataBlocks)
    /\ Cardinality(Inodes) = TotalInodes
<1>1. IsFiniteSet(Inodes) /\ Cardinality(Inodes) = TotalInodes
  BY FS_Interval DEF Inodes
<1>2. IsFiniteSet(DataBlocks)
  BY FS_Interval DEF DataBlocks
<1> QED BY <1>1, <1>2 DEF Inodes, DataBlocks, Idx

LEMMA CallIs ==
    /\ Call = {Idle} \cup Running
    /\ ~Runs(Idle) /\ Idle \notin Running
    /\ \A c \in Running : Runs(c)
  BY DEF Call, Running, Idle, Runs

LEMMA EmptyIs ==
    EmptyInode \in Inode /\ EmptyInode.size = 0 /\ \A k \in Idx : EmptyInode.block[k] = NoBlock
  BY DEF EmptyInode, Inode

LEMMA EntryIs ==
    ASSUME NEW n \in Names, NEW i \in Inodes
    PROVE  /\ EntryOf(n, i) \in Cell /\ EntryOf(n, i) \notin {Dots, Hole, Data}
           /\ \A p, j : EntryOf(n, i) = EntryOf(p, j) => n = p /\ i = j
  BY DEF EntryOf, Cell, Dots, Hole, Data

LEMMA CellIs ==
    ASSUME NEW c \in Cell
    PROVE  /\ c.kind = "entry" => c.name \in Names /\ c.inode \in Inodes /\ c = EntryOf(c.name, c.inode)
           /\ c.kind = "hole" <=> c = Hole
<1>1. CASE c \in {Dots, Hole, Data}
  BY <1>1 DEF Dots, Hole, Data, EntryOf
<1>2. CASE c \in [kind : {"entry"}, name : Names, inode : Inodes]
  <2>1. c.kind = "entry" /\ c.name \in Names /\ c.inode \in Inodes
    BY <1>2
  <2>2. c = EntryOf(c.name, c.inode)
    BY <1>2, <2>1 DEF EntryOf
  <2>3. c # Hole
    BY <2>1 DEF Hole
  <2> QED BY <2>1, <2>2, <2>3
<1> QED BY <1>1, <1>2 DEF Cell

LEMMA StartedIs ==
    ASSUME NEW op \in {"create", "unlink", "write", "read"}, NEW n \in Names, NEW i \in Inodes,
           NEW at \in {"entry", "free", "block", "record"}
    PROVE  LET c == Started(op, n, i, at)
           IN  /\ c \in Running /\ c.op = op /\ c.name = n /\ c.ino = i /\ c.at = at
               /\ c.inode = EmptyInode /\ c.blk = NoBlock
  BY EmptyIs DEF Started, Running

-----------------------------------------------------------------------------
(* Counters *)

LEMMA CountTaken ==
    ASSUME NEW S, IsFiniteSet(S), NEW M \in SUBSET S, NEW x \in S \ M
    PROVE  /\ Cardinality(S \ M) \in Nat /\ Cardinality(S \ M) > 0
           /\ Cardinality(S \ (M \cup {x})) = Cardinality(S \ M) - 1
<1>1. IsFiniteSet(S \ M)
  BY FS_Difference
<1>2. S \ (M \cup {x}) = (S \ M) \ {x}
  OBVIOUS
<1>3. Cardinality((S \ M) \ {x}) = Cardinality(S \ M) - 1
  BY <1>1, FS_RemoveElement
<1>4. Cardinality(S \ M) \in Nat /\ Cardinality(S \ M) # 0
  BY <1>1, FS_CardinalityType, FS_EmptySet
<1>5. Cardinality(S \ M) > 0
  BY <1>4
<1> QED BY <1>2, <1>3, <1>4, <1>5

LEMMA CountGiven ==
    ASSUME NEW S, IsFiniteSet(S), NEW M \in SUBSET S, NEW x \in M
    PROVE  /\ Cardinality(S \ M) \in Nat
           /\ Cardinality(S \ (M \ {x})) = Cardinality(S \ M) + 1
<1>1. IsFiniteSet(S \ M)
  BY FS_Difference
<1>2. S \ (M \ {x}) = (S \ M) \cup {x}
  OBVIOUS
<1>3. Cardinality((S \ M) \cup {x}) = Cardinality(S \ M) + 1
  BY <1>1, FS_AddElement
<1> QED BY <1>1, <1>2, <1>3, FS_CardinalityType

LEMMA CountBound ==
    ASSUME NEW S, IsFiniteSet(S), NEW M
    PROVE  Cardinality(S \ M) \in Nat /\ Cardinality(S \ M) <= Cardinality(S)
  BY FS_Difference, FS_Subset, FS_CardinalityType

\* Each allocation and each free moves its bit and its counter together.
LEMMA InodeTaken ==
    ASSUME NEW m \in Metadata, Tracks(m), {0, Root} \subseteq m.inodes, NEW i \in Inodes \ m.inodes
    PROVE  /\ WithInode(m, i) \in Metadata /\ Tracks(WithInode(m, i))
           /\ WithInode(m, i).inodes = m.inodes \cup {i} /\ WithInode(m, i).blocks = m.blocks
<1>1. /\ Cardinality(Inodes \ m.inodes) \in Nat /\ Cardinality(Inodes \ m.inodes) > 0
      /\ Cardinality(Inodes \ (m.inodes \cup {i})) = Cardinality(Inodes \ m.inodes) - 1
  BY Sets, CountTaken DEF Metadata
<1>2. /\ WithInode(m, i).inodes = m.inodes \cup {i} /\ WithInode(m, i).blocks = m.blocks
      /\ WithInode(m, i).free_inodes = m.free_inodes - 1
      /\ WithInode(m, i).free_blocks = m.free_blocks
  BY DEF WithInode, Metadata
<1>3. Tracks(WithInode(m, i))
  BY <1>1, <1>2 DEF Tracks, Metadata
<1>4. m.free_inodes - 1 \in 0 .. TotalInodes
  BY <1>1 DEF Tracks, Metadata
<1>5. WithInode(m, i) \in Metadata
  BY <1>4 DEF WithInode, Metadata
<1> QED BY <1>2, <1>3, <1>5

LEMMA InodeGiven ==
    ASSUME NEW m \in Metadata, Tracks(m), {0, Root} \subseteq m.inodes,
           NEW i \in m.inodes, i \notin {0, Root}
    PROVE  /\ WithoutInode(m, i) \in Metadata /\ Tracks(WithoutInode(m, i))
           /\ WithoutInode(m, i).inodes = m.inodes \ {i} /\ WithoutInode(m, i).blocks = m.blocks
<1>1. /\ Cardinality(Inodes \ m.inodes) \in Nat
      /\ Cardinality(Inodes \ (m.inodes \ {i})) = Cardinality(Inodes \ m.inodes) + 1
  BY Sets, CountGiven DEF Metadata
<1>2. /\ WithoutInode(m, i).inodes = m.inodes \ {i} /\ WithoutInode(m, i).blocks = m.blocks
      /\ WithoutInode(m, i).free_inodes = m.free_inodes + 1
      /\ WithoutInode(m, i).free_blocks = m.free_blocks
  BY DEF WithoutInode, Metadata
<1>3. Tracks(WithoutInode(m, i))
  BY <1>1, <1>2 DEF Tracks, Metadata
<1>4. Cardinality(Inodes \ (m.inodes \ {i})) <= TotalInodes - 1
  <2>1. Inodes \ (m.inodes \ {i}) \subseteq Inodes \ {0}
    BY DEF Metadata
  <2>2. IsFiniteSet(Inodes \ {0}) /\ Cardinality(Inodes \ {0}) = TotalInodes - 1
    BY Sets, FS_RemoveElement
  <2> QED BY <2>1, <2>2, FS_Subset
<1>5. m.free_inodes + 1 \in 0 .. TotalInodes
  BY <1>1, <1>4 DEF Tracks, Metadata
<1>6. WithoutInode(m, i) \in Metadata
  BY <1>5 DEF WithoutInode, Metadata
<1> QED BY <1>2, <1>3, <1>6

LEMMA BlockTaken ==
    ASSUME NEW m \in Metadata, Tracks(m), NEW b \in DataBlocks \ m.blocks
    PROVE  /\ WithBlock(m, b) \in Metadata /\ Tracks(WithBlock(m, b))
           /\ WithBlock(m, b).blocks = m.blocks \cup {b} /\ WithBlock(m, b).inodes = m.inodes
<1>1. /\ Cardinality(DataBlocks \ m.blocks) \in Nat /\ Cardinality(DataBlocks \ m.blocks) > 0
      /\ Cardinality(DataBlocks \ (m.blocks \cup {b})) = Cardinality(DataBlocks \ m.blocks) - 1
  BY Sets, CountTaken DEF Metadata
<1>2. /\ WithBlock(m, b).blocks = m.blocks \cup {b} /\ WithBlock(m, b).inodes = m.inodes
      /\ WithBlock(m, b).free_blocks = m.free_blocks - 1
      /\ WithBlock(m, b).free_inodes = m.free_inodes
  BY DEF WithBlock, Metadata
<1>3. Tracks(WithBlock(m, b))
  BY <1>1, <1>2 DEF Tracks, Metadata
<1>4. m.free_blocks - 1 \in 0 .. Cardinality(DataBlocks)
  BY <1>1, Sets, FS_CardinalityType DEF Tracks, Metadata
<1>5. WithBlock(m, b) \in Metadata
  BY <1>4 DEF WithBlock, Metadata
<1> QED BY <1>2, <1>3, <1>5

LEMMA BlockGiven ==
    ASSUME NEW m \in Metadata, Tracks(m), NEW b \in m.blocks
    PROVE  /\ WithoutBlock(m, b) \in Metadata /\ Tracks(WithoutBlock(m, b))
           /\ WithoutBlock(m, b).blocks = m.blocks \ {b} /\ WithoutBlock(m, b).inodes = m.inodes
<1>1. /\ Cardinality(DataBlocks \ m.blocks) \in Nat
      /\ Cardinality(DataBlocks \ (m.blocks \ {b})) = Cardinality(DataBlocks \ m.blocks) + 1
  BY Sets, CountGiven DEF Metadata
<1>2. /\ WithoutBlock(m, b).blocks = m.blocks \ {b} /\ WithoutBlock(m, b).inodes = m.inodes
      /\ WithoutBlock(m, b).free_blocks = m.free_blocks + 1
      /\ WithoutBlock(m, b).free_inodes = m.free_inodes
  BY DEF WithoutBlock, Metadata
<1>3. Tracks(WithoutBlock(m, b))
  BY <1>1, <1>2 DEF Tracks, Metadata
<1>4. m.free_blocks + 1 \in 0 .. Cardinality(DataBlocks)
  <2>1. Cardinality(DataBlocks \ (m.blocks \ {b})) <= Cardinality(DataBlocks)
    BY Sets, CountBound
  <2> QED BY <1>1, <2>1, Sets, FS_CardinalityType DEF Tracks, Metadata
<1>5. WithoutBlock(m, b) \in Metadata
  BY <1>4 DEF WithoutBlock, Metadata
<1> QED BY <1>2, <1>3, <1>5

-----------------------------------------------------------------------------
(* What a step has to keep *)

Good(m, tb, ct, cl) == Types(m, tb, ct, cl) /\ Sound(m, tb, ct, cl) /\ Tracks(m)

\* The root's inode and the blocks of the directory stay as they are.
SameDir(tb, ct, tb2, ct2) ==
    /\ tb2[Root] = tb[Root]
    /\ \A k \in Idx : tb[Root].block[k] # NoBlock =>
                         ct2[tb[Root].block[k]] = ct[tb[Root].block[k]]

LEMMA SlotsKept ==
    ASSUME NEW tb, NEW ct, NEW tb2, NEW ct2, SameDir(tb, ct, tb2, ct2)
    PROVE  /\ \A k, n, i : Slot(tb2, ct2, k, n, i) <=> Slot(tb, ct, k, n, i)
           /\ \A n, i : Entry(tb2, ct2, n, i) <=> Entry(tb, ct, n, i)
<1>1. \A k, n, i : Slot(tb2, ct2, k, n, i) <=> Slot(tb, ct, k, n, i)
  BY DEF SameDir, Slot
<1> QED BY <1>1 DEF Entry

LEMMA DirKept ==
    ASSUME NEW m, NEW tb, NEW ct, NEW m2, NEW tb2, NEW ct2, SameDir(tb, ct, tb2, ct2),
           DirInv(m, tb, ct), {0, Root} \subseteq m2.inodes,
           \A n \in Names, i \in Inodes : Entry(tb, ct, n, i) => i \in m2.inodes
    PROVE  DirInv(m2, tb2, ct2)
  BY SlotsKept DEF DirInv, Entry

LEMMA CallKept ==
    ASSUME NEW m, NEW tb, NEW ct, NEW m2, NEW tb2, NEW ct2, SameDir(tb, ct, tb2, ct2),
           NEW c, OneCallInv(m, tb, ct, c), c.ino \in m2.inodes,
           c.op = "create" => /\ tb2[c.ino] = tb[c.ino]
                              /\ c.blk # NoBlock => ct2[c.blk] = ct[c.blk]
    PROVE  OneCallInv(m2, tb2, ct2, c)
<1>1. \A n, i : Entry(tb2, ct2, n, i) <=> Entry(tb, ct, n, i)
  BY SlotsKept
<1>2. tb2[Root].size = tb[Root].size
  BY DEF SameDir
<1>3. c.op = "create" => CreateInv(tb2, ct2, c)
  BY <1>1, <1>2, Sets DEF OneCallInv, CreateInv
<1>4. c.op = "unlink" => UnlinkInv(tb2, ct2, c)
  BY <1>1 DEF OneCallInv, UnlinkInv
<1>5. c.op = "write" => WriteInv(tb2, ct2, c)
  BY <1>1 DEF OneCallInv, WriteInv
<1>6. c.op = "read" => ReadInv(tb2, ct2, c)
  BY <1>1 DEF OneCallInv, ReadInv
<1> QED BY <1>3, <1>4, <1>5, <1>6 DEF OneCallInv

\* One callback is replaced.
LEMMA CallReplaced ==
    ASSUME NEW m2, NEW tb2, NEW ct2, NEW cl, cl \in [Workers -> Call],
           NEW t \in Workers, NEW x \in Call,
           \A u \in Workers \ {t} : /\ ~Exclude(x, cl[u]) /\ ~Exclude(cl[u], x)
                                    /\ Runs(cl[u]) => OneCallInv(m2, tb2, ct2, cl[u]),
           \A u, v \in Workers : Exclude(cl[u], cl[v]) => u = v,
           Runs(x) => OneCallInv(m2, tb2, ct2, x)
    PROVE  CallsInv(m2, tb2, ct2, [cl EXCEPT ![t] = x])
<1> DEFINE cl2 == [cl EXCEPT ![t] = x]
<1>1. cl2[t] = x /\ \A u \in Workers \ {t} : cl2[u] = cl[u]
  OBVIOUS
<1> HIDE DEF cl2
<1>2. \A u \in Workers : Runs(cl2[u]) => OneCallInv(m2, tb2, ct2, cl2[u])
  <2> TAKE u \in Workers
  <2>1. CASE u = t
    BY <2>1, <1>1
  <2>2. CASE u # t
    BY <2>2, <1>1
  <2> QED BY <2>1, <2>2
<1>3. \A u, v \in Workers : Exclude(cl2[u], cl2[v]) => u = v
  <2> TAKE u, v \in Workers
  <2>1. CASE u = t \/ v = t
    BY <2>1, <1>1
  <2>2. CASE u # t /\ v # t
    BY <2>2, <1>1
  <2> QED BY <2>1, <2>2
<1> QED BY <1>2, <1>3 DEF CallsInv, cl2

\* What a callback's successor must be for the others to stay apart from it.
LEMMA StillApart ==
    ASSUME NEW m, NEW tb, NEW ct, NEW cl, CallsInv(m, tb, ct, cl), NEW t \in Workers, NEW x,
           x = Idle \/ x.op = "read" \/ (x.op = cl[t].op /\ x.name = cl[t].name)
    PROVE  \A u \in Workers \ {t} : ~Exclude(x, cl[u]) /\ ~Exclude(cl[u], x)
<1> TAKE u \in Workers \ {t}
<1>1. ~Exclude(cl[t], cl[u]) /\ ~Exclude(cl[u], cl[t])
  BY DEF CallsInv
<1>2. CASE x = Idle \/ x.op = "read"
  BY <1>2 DEF Exclude, Idle
<1>3. CASE x.op = cl[t].op /\ x.name = cl[t].name
  BY <1>1, <1>3 DEF Exclude
<1> QED BY <1>2, <1>3

\* Claims after one callback is replaced.
LEMMA ClaimCases ==
    ASSUME NEW tb2, NEW ct2, NEW cl, cl \in [Workers -> Call], NEW t \in Workers, NEW x \in Call,
           NEW i, NEW k, NEW b, Claim(tb2, ct2, [cl EXCEPT ![t] = x], i, k, b)
    PROVE  \/ OnImage(tb2, ct2, i, k, b)
           \/ CallClaim(tb2, x, i, k, b)
           \/ \E u \in Workers \ {t} : CallClaim(tb2, cl[u], i, k, b)
  BY DEF Claim

\* The claims stay, shrink, or grow by one on a block that was clear.
OneMore(tb, ct, cl, tb2, ct2, cl2, i0, k0, b0) ==
    \A i \in Inodes, k \in Nat, b \in DataBlocks : Claim(tb2, ct2, cl2, i, k, b) =>
        Claim(tb, ct, cl, i, k, b) \/ (i = i0 /\ k = k0 /\ b = b0)

LEMMA ClaimsStep ==
    ASSUME NEW m, NEW tb, NEW ct, NEW cl, NEW m2, NEW tb2, NEW ct2, NEW cl2,
           ClaimsInv(m, tb, ct, cl), NEW i0, NEW k0, NEW b0,
           m.blocks \subseteq m2.blocks,
           b0 # NoBlock => b0 \in m2.blocks /\ b0 \notin m.blocks,
           OneMore(tb, ct, cl, tb2, ct2, cl2, i0, k0, b0)
    PROVE  ClaimsInv(m2, tb2, ct2, cl2)
<1> USE DEF OneMore
<1>1. \A i \in Inodes, k \in Nat, b \in DataBlocks :
          Claim(tb2, ct2, cl2, i, k, b) => b \in m2.blocks
  BY Sets DEF ClaimsInv
<1>2. ASSUME NEW i \in Inodes, NEW j \in Inodes, NEW k \in Nat, NEW l \in Nat, NEW b \in DataBlocks,
             Claim(tb2, ct2, cl2, i, k, b), Claim(tb2, ct2, cl2, j, l, b)
      PROVE  i = j /\ k = l
  <2>1. CASE b = b0
    <3>1. ~Claim(tb, ct, cl, i, k, b) /\ ~Claim(tb, ct, cl, j, l, b)
      BY <2>1, Sets DEF ClaimsInv
    <3> QED BY <3>1, <1>2
  <2>2. CASE b # b0
    <3>1. Claim(tb, ct, cl, i, k, b) /\ Claim(tb, ct, cl, j, l, b)
      BY <2>2, <1>2
    <3> QED BY <3>1 DEF ClaimsInv
  <2> QED BY <2>1, <2>2
<1> QED BY <1>1, <1>2 DEF ClaimsInv

\* The same for a step of one callback that keeps the directory.
BlocksMore(m, m2, b0) ==
    /\ m.blocks \subseteq m2.blocks
    /\ b0 # NoBlock => b0 \in m2.blocks /\ b0 \notin m.blocks

OneMoreBy(tb, ct, cl, tb2, ct2, x, i0, k0, b0) ==
    \A i \in Inodes, k \in Nat, b \in DataBlocks :
        OnImage(tb2, ct2, i, k, b) \/ CallClaim(tb2, x, i, k, b) =>
            Claim(tb, ct, cl, i, k, b) \/ (i = i0 /\ k = k0 /\ b = b0)

LEMMA ClaimsQuiet ==
    ASSUME NEW m, NEW tb, NEW ct, NEW cl, NEW m2, NEW tb2, NEW ct2, cl \in [Workers -> Call],
           NEW t \in Workers, NEW x \in Call,
           ClaimsInv(m, tb, ct, cl), SameDir(tb, ct, tb2, ct2), NEW i0, NEW k0, NEW b0,
           BlocksMore(m, m2, b0),
           OneMoreBy(tb, ct, cl, tb2, ct2, x, i0, k0, b0)
    PROVE  ClaimsInv(m2, tb2, ct2, [cl EXCEPT ![t] = x])
<1>1. ASSUME NEW i \in Inodes, NEW k \in Nat, NEW b \in DataBlocks,
             Claim(tb2, ct2, [cl EXCEPT ![t] = x], i, k, b)
      PROVE  Claim(tb, ct, cl, i, k, b) \/ (i = i0 /\ k = k0 /\ b = b0)
  <2>1. CASE \E u \in Workers \ {t} : CallClaim(tb2, cl[u], i, k, b)
    BY <2>1 DEF Claim, CallClaim, NewInDir, SameDir
  <2>2. CASE OnImage(tb2, ct2, i, k, b) \/ CallClaim(tb2, x, i, k, b)
    BY <2>2 DEF OneMoreBy
  <2> QED BY <1>1, <2>1, <2>2, ClaimCases
<1> DEFINE cl2 == [cl EXCEPT ![t] = x]
<1>2. OneMore(tb, ct, cl, tb2, ct2, cl2, i0, k0, b0)
  BY <1>1 DEF OneMore
<1> HIDE DEF cl2
<1>3. ClaimsInv(m2, tb2, ct2, cl2)
  BY <1>2, ClaimsStep DEF BlocksMore
<1> QED BY <1>3 DEF cl2

\* What a step keeps of the table and the blocks for the others' sake.
OthersKept(tb, ct, cl, t, tb2, ct2) ==
    \A u \in Workers \ {t} : cl[u].op = "create" =>
        /\ tb2[cl[u].ino] = tb[cl[u].ino]
        /\ cl[u].blk # NoBlock => ct2[cl[u].blk] = ct[cl[u].blk]

InodesKept(m2, tb, ct, cl, t) ==
    /\ {0, Root} \subseteq m2.inodes
    /\ \A n \in Names, i \in Inodes : Entry(tb, ct, n, i) => i \in m2.inodes
    /\ \A u \in Workers \ {t} : Runs(cl[u]) => cl[u].ino \in m2.inodes

Apart(cl, t, x) == \A u \in Workers \ {t} : ~Exclude(x, cl[u]) /\ ~Exclude(cl[u], x)

LEMMA InodesGrow ==
    ASSUME NEW m, NEW tb, NEW ct, NEW cl, Sound(m, tb, ct, cl), NEW m2, NEW t,
           m.inodes \subseteq m2.inodes
    PROVE  InodesKept(m2, tb, ct, cl, t)
<1>1. DirInv(m, tb, ct) /\ CallsInv(m, tb, ct, cl)
  BY DEF Sound
<1>2. \A n \in Names, i \in Inodes : Entry(tb, ct, n, i) => i \in m.inodes
  BY <1>1 DEF DirInv, Entry
<1> QED BY <1>1, <1>2 DEF InodesKept, DirInv, CallsInv, OneCallInv

LEMMA QuietCalls ==
    ASSUME NEW m, NEW tb, NEW ct, NEW cl, Good(m, tb, ct, cl), NEW m2, NEW tb2, NEW ct2,
           NEW t \in Workers, NEW x \in Call, SameDir(tb, ct, tb2, ct2),
           InodesKept(m2, tb, ct, cl, t), OthersKept(tb, ct, cl, t, tb2, ct2), Apart(cl, t, x),
           Runs(x) => OneCallInv(m2, tb2, ct2, x)
    PROVE  DirInv(m2, tb2, ct2) /\ CallsInv(m2, tb2, ct2, [cl EXCEPT ![t] = x])
<1>1. DirInv(m, tb, ct) /\ CallsInv(m, tb, ct, cl) /\ cl \in [Workers -> Call]
  BY DEF Good, Sound, Types
<1>2. DirInv(m2, tb2, ct2)
  BY <1>1, DirKept DEF InodesKept
<1>3. ASSUME NEW u \in Workers \ {t}, Runs(cl[u])
      PROVE  OneCallInv(m2, tb2, ct2, cl[u])
  <2>1. OneCallInv(m, tb, ct, cl[u])
    BY <1>1, <1>3 DEF CallsInv
  <2>2. cl[u].ino \in m2.inodes
    BY <1>3 DEF InodesKept
  <2>3. cl[u].op = "create" => /\ tb2[cl[u].ino] = tb[cl[u].ino]
                               /\ cl[u].blk # NoBlock => ct2[cl[u].blk] = ct[cl[u].blk]
    BY DEF OthersKept
  <2> QED BY <2>1, <2>2, <2>3, CallKept
<1>4. \A u, v \in Workers : Exclude(cl[u], cl[v]) => u = v
  BY <1>1 DEF CallsInv
<1>5. \A u \in Workers \ {t} : /\ ~Exclude(x, cl[u]) /\ ~Exclude(cl[u], x)
                               /\ Runs(cl[u]) => OneCallInv(m2, tb2, ct2, cl[u])
  BY <1>3 DEF Apart
<1>6. CallsInv(m2, tb2, ct2, [cl EXCEPT ![t] = x])
  BY <1>1, <1>4, <1>5, CallReplaced
<1> QED BY <1>2, <1>6

\* Claims of the directory and of a create's new block, spelled out.
LEMMA RootClaims ==
    ASSUME NEW m, NEW tb, NEW ct, NEW cl, Good(m, tb, ct, cl)
    PROVE  /\ \A k \in Idx : Claim(tb, ct, cl, Root, k, tb[Root].block[k])
           /\ \A u \in Workers : Runs(cl[u]) /\ cl[u].op # "read" =>
                  Claim(tb, ct, cl, Root, tb[Root].size, cl[u].blk)
           /\ tb[Root].size \in Nat
           /\ \A k \in Idx : tb[Root].block[k] \in DataBlocks \cup {NoBlock}
           /\ \A u \in Workers : Runs(cl[u]) => cl[u] \in Running
  BY Sets, CallIs DEF Claim, OnImage, CallClaim, NewInDir, Good, Types, Inode

\* A block that is clear, or that somebody but the root claims, is neither in
\* the directory nor about to be.
Elsewhere(m, tb, ct, cl, b) ==
    \/ b \notin m.blocks
    \/ \E i \in Inodes \ {Root}, k \in Nat : Claim(tb, ct, cl, i, k, b)

LEMMA WrittenElsewhere ==
    ASSUME NEW m, NEW tb, NEW ct, NEW cl, Good(m, tb, ct, cl), NEW t, NEW v,
           NEW b \in DataBlocks, Elsewhere(m, tb, ct, cl, b)
    PROVE  /\ SameDir(tb, ct, tb, [ct EXCEPT ![b] = v])
           /\ OthersKept(tb, ct, cl, t, tb, [ct EXCEPT ![b] = v])
<1>1. ClaimsInv(m, tb, ct, cl) /\ ct \in [DataBlocks -> Cell]
  BY DEF Good, Sound, Types
<1>2. \A k \in Nat : ~Claim(tb, ct, cl, Root, k, b)
  BY <1>1, Sets DEF Elsewhere, ClaimsInv
<1>3. \A k \in Idx : tb[Root].block[k] # b
  BY <1>2, RootClaims, Sets
<1>4. SameDir(tb, ct, tb, [ct EXCEPT ![b] = v])
  BY <1>1, <1>3, RootClaims DEF SameDir
<1>5. \A u \in Workers : Runs(cl[u]) /\ cl[u].op # "read" => cl[u].blk # b
  BY <1>2, RootClaims
<1>6. \A u \in Workers : cl[u].op = "create" => cl[u].blk # b /\ cl[u].blk \in DataBlocks \cup {NoBlock}
  BY <1>5, RootClaims DEF Runs, Running
<1>7. OthersKept(tb, ct, cl, t, tb, [ct EXCEPT ![b] = v])
  BY <1>1, <1>6 DEF OthersKept
<1> QED BY <1>4, <1>7

LEMMA Nothing ==
    ASSUME NEW tb, NEW ct, NEW cl, NEW t
    PROVE  SameDir(tb, ct, tb, ct) /\ OthersKept(tb, ct, cl, t, tb, ct)
  BY DEF SameDir, OthersKept

LEMMA IdleApart ==
    ASSUME NEW cl, NEW t
    PROVE  Apart(cl, t, Idle)
  BY DEF Apart, Exclude, Idle

LEMMA SameApart ==
    ASSUME NEW m, NEW tb, NEW ct, NEW cl, Good(m, tb, ct, cl), NEW t \in Workers, NEW x,
           x.op = cl[t].op, x.name = cl[t].name
    PROVE  Apart(cl, t, x)
  BY StillApart DEF Apart, Good, Sound

-----------------------------------------------------------------------------
(* The steps that keep the directory *)

\* Bits are only set, and b0's is one of them.
MarksMore(m, m2, b0) ==
    /\ m2 \in Metadata /\ Tracks(m2)
    /\ m.inodes \subseteq m2.inodes /\ m.blocks \subseteq m2.blocks
    /\ b0 # NoBlock => b0 \in m2.blocks /\ b0 \notin m.blocks

ImageTypes(tb, ct) ==
    /\ tb \in [Inodes -> Inode] /\ \A i \in Inodes : tb[i].size <= DirectBlocks
    /\ ct \in [DataBlocks -> Cell]

LEMMA QuietStep ==
    ASSUME NEW m, NEW tb, NEW ct, NEW cl, Good(m, tb, ct, cl), NEW m2, NEW tb2, NEW ct2,
           NEW t \in Workers, NEW x \in Call, NEW i0, NEW k0, NEW b0,
           MarksMore(m, m2, b0), ImageTypes(tb2, ct2), SameDir(tb, ct, tb2, ct2),
           OthersKept(tb, ct, cl, t, tb2, ct2), Apart(cl, t, x),
           Runs(x) => OneCallInv(m2, tb2, ct2, x),
           OneMoreBy(tb, ct, cl, tb2, ct2, x, i0, k0, b0)
    PROVE  Good(m2, tb2, ct2, [cl EXCEPT ![t] = x])
<1>1. ClaimsInv(m, tb, ct, cl) /\ cl \in [Workers -> Call] /\ Sound(m, tb, ct, cl)
  BY DEF Good, Sound, Types
<1>2. InodesKept(m2, tb, ct, cl, t)
  BY <1>1, InodesGrow DEF MarksMore
<1>3. DirInv(m2, tb2, ct2) /\ CallsInv(m2, tb2, ct2, [cl EXCEPT ![t] = x])
  BY <1>2, QuietCalls
<1>4. BlocksMore(m, m2, b0)
  BY DEF MarksMore, BlocksMore
<1>6. ClaimsInv(m2, tb2, ct2, [cl EXCEPT ![t] = x])
  BY <1>1, <1>4, ClaimsQuiet
<1>7. Types(m2, tb2, ct2, [cl EXCEPT ![t] = x]) /\ Tracks(m2)
  BY <1>1 DEF Types, ImageTypes, MarksMore
<1> QED BY <1>3, <1>6, <1>7 DEF Good, Sound

LEMMA MarksSame ==
    ASSUME NEW m, NEW tb, NEW ct, NEW cl, Good(m, tb, ct, cl)
    PROVE  MarksMore(m, m, NoBlock) /\ ImageTypes(tb, ct)
  BY DEF Good, Types, MarksMore, ImageTypes

LEMMA MarksBlock ==
    ASSUME NEW m, NEW tb, NEW ct, NEW cl, Good(m, tb, ct, cl), NEW b \in DataBlocks \ m.blocks
    PROVE  MarksMore(m, WithBlock(m, b), b)
  BY BlockTaken DEF Good, Types, MarksMore

LEMMA MarksInode ==
    ASSUME NEW m, NEW tb, NEW ct, NEW cl, Good(m, tb, ct, cl), NEW i \in Inodes \ m.inodes
    PROVE  MarksMore(m, WithInode(m, i), NoBlock)
<1>1. m \in Metadata /\ Tracks(m) /\ {0, Root} \subseteq m.inodes
  BY DEF Good, Types, Sound, DirInv
<1> QED BY <1>1, InodeTaken DEF MarksMore

LEMMA WrittenTypes ==
    ASSUME NEW m, NEW tb, NEW ct, NEW cl, Good(m, tb, ct, cl), NEW b, NEW v \in Cell
    PROVE  ImageTypes(tb, [ct EXCEPT ![b] = v])
  BY DEF Good, Types, ImageTypes

LEMMA IdleStep ==
    ASSUME NEW m, NEW tb, NEW ct, NEW cl, Good(m, tb, ct, cl), NEW t \in Workers
    PROVE  Good(m, tb, ct, [cl EXCEPT ![t] = Idle])
<1>1. Idle \in Call /\ ~Runs(Idle)
  BY CallIs
<1>2. OneMoreBy(tb, ct, cl, tb, ct, Idle, 0, 0, NoBlock)
  BY <1>1 DEF OneMoreBy, Claim, CallClaim, InCopy, NewInDir
<1> QED BY <1>1, <1>2, Nothing, IdleApart, MarksSame, QuietStep

\* The directory does not look at who has an inode that no entry has.
LEMMA CreateStep ==
    ASSUME NEW m, NEW tb, NEW ct, NEW cl, Good(m, tb, ct, cl), NEW t \in Workers, NEW n \in Names,
           \A u \in Workers : cl[u].op \notin {"create", "unlink"},
           \A i \in Inodes : ~Entry(tb, ct, n, i), NEW i \in Inodes \ m.inodes
    PROVE  /\ Good(WithInode(m, i), [tb EXCEPT ![i] = EmptyInode], ct,
                   [cl EXCEPT ![t] = Started("create", n, i, "entry")])
           /\ SameDir(tb, ct, [tb EXCEPT ![i] = EmptyInode], ct)
<1> DEFINE x   == Started("create", n, i, "entry")
           tb2 == [tb EXCEPT ![i] = EmptyInode]
           m2  == WithInode(m, i)
<1>1. /\ x \in Running /\ x \in Call /\ Runs(x) /\ x.op = "create" /\ x.name = n /\ x.ino = i
      /\ x.at = "entry" /\ x.inode = EmptyInode /\ x.blk = NoBlock
  BY StartedIs, CallIs
<1>2. i \notin {0, Root} /\ \A p \in Names : ~Entry(tb, ct, p, i)
  <2>1. DirInv(m, tb, ct)
    BY DEF Good, Sound
  <2> QED BY <2>1 DEF DirInv, Entry
<1>3. tb \in [Inodes -> Inode] /\ ImageTypes(tb2, ct)
  BY EmptyIs DEF Good, Types, ImageTypes
<1>4. tb2[i] = EmptyInode /\ \A j \in Inodes \ {i} : tb2[j] = tb[j]
  BY <1>3
<1>5. MarksMore(m, m2, NoBlock) /\ i \in m2.inodes
  BY MarksInode DEF WithInode, Good, Types, Metadata
<1> HIDE DEF x, tb2, m2
<1>6. SameDir(tb, ct, tb2, ct)
  BY <1>2, <1>4, Sets DEF SameDir
<1>7. OthersKept(tb, ct, cl, t, tb2, ct)
  BY DEF OthersKept
<1>8. Apart(cl, t, x)
  BY <1>1 DEF Apart, Exclude
<1>9. OneCallInv(m2, tb2, ct, x)
  <2>1. \A p \in Names, j \in Inodes : Entry(tb2, ct, p, j) => p # n /\ j # i
    BY <1>2, <1>6, SlotsKept
  <2>2. CreateInv(tb2, ct, x)
    BY <2>1, <1>1, <1>4 DEF CreateInv
  <2> QED BY <2>2, <1>1, <1>2, <1>5, EmptyIs, Sets DEF OneCallInv
<1>10. OneMoreBy(tb, ct, cl, tb2, ct, x, 0, 0, NoBlock)
  <2> SUFFICES ASSUME NEW j \in Inodes, NEW k \in Nat, NEW b \in DataBlocks,
                      OnImage(tb2, ct, j, k, b) \/ CallClaim(tb2, x, j, k, b)
               PROVE  Claim(tb, ct, cl, j, k, b)
    BY DEF OneMoreBy
  <2>1. ~CallClaim(tb2, x, j, k, b)
    BY <1>1, EmptyIs, Sets DEF CallClaim, InCopy, NewInDir
  <2>2. j = Root \/ \E p \in Names : Entry(tb, ct, p, j)
    BY <2>1, <1>6, SlotsKept DEF OnImage
  <2>3. tb2[j] = tb[j]
    BY <2>2, <1>2, <1>4
  <2> QED BY <2>1, <2>2, <2>3 DEF OnImage, Claim
<1>11. Good(m2, tb2, ct, [cl EXCEPT ![t] = x])
  BY <1>1, <1>3, <1>5, <1>6, <1>7, <1>8, <1>9, <1>10, QuietStep
<1> QED BY <1>6, <1>11 DEF x, tb2, m2

\* write and read begin: a copy of the inode is taken.
LEMMA OpenStep ==
    ASSUME NEW m, NEW tb, NEW ct, NEW cl, Good(m, tb, ct, cl), NEW t \in Workers,
           NEW n \in Names, NEW i \in Inodes, Entry(tb, ct, n, i), NEW x \in Running,
           x.name = n, x.ino = i, x.inode = tb[i], x.blk = NoBlock,
           \/ x.op = "read" /\ x.at = "record"
           \/ x.op = "write" /\ x.at = "block" /\ x.k <= x.to,
           Apart(cl, t, x)
    PROVE  Good(m, tb, ct, [cl EXCEPT ![t] = x])
<1>1. x \in Call /\ Runs(x)
  BY CallIs
<1>2. i \notin {0, Root} /\ i \in m.inodes
  <2>1. DirInv(m, tb, ct)
    BY DEF Good, Sound
  <2> QED BY <2>1 DEF DirInv, Entry
<1>3. OneCallInv(m, tb, ct, x)
  BY <1>1, <1>2 DEF OneCallInv, WriteInv, ReadInv, Good, Types
<1>4. OneMoreBy(tb, ct, cl, tb, ct, x, 0, 0, NoBlock)
  BY Sets DEF OneMoreBy, Claim, OnImage, CallClaim, InCopy, NewInDir
<1> QED BY <1>1, <1>3, <1>4, Nothing, MarksSame, QuietStep

\* One round of the loop of a write: the copy's pointer k0 may now be b0.
AdvanceOf(c, x, k0, b0) ==
    /\ x \in Running /\ x.op = "write" /\ x.name = c.name /\ x.ino = c.ino /\ x.blk = NoBlock
    /\ \/ x.at = "block" /\ x.k <= x.to
       \/ x.at = "record" /\ x.to \in Idx
    /\ x.inode.size = c.inode.size
    /\ \A k \in Idx : x.inode.block[k] = c.inode.block[k] \/ (k = k0 /\ x.inode.block[k] = b0)

LEMMA AdvanceStep ==
    ASSUME NEW m, NEW tb, NEW ct, NEW cl, Good(m, tb, ct, cl), NEW t \in Workers,
           Runs(cl[t]), cl[t].op = "write", NEW x, NEW k0, NEW b0, AdvanceOf(cl[t], x, k0, b0),
           NEW m2, MarksMore(m, m2, b0),
           NEW b \in DataBlocks, Elsewhere(m, tb, ct, cl, b)
    PROVE  /\ Good(m2, tb, [ct EXCEPT ![b] = Data], [cl EXCEPT ![t] = x])
           /\ SameDir(tb, ct, tb, [ct EXCEPT ![b] = Data])
<1> DEFINE ct2 == [ct EXCEPT ![b] = Data]
<1> USE DEF AdvanceOf
<1>1. x \in Call /\ Runs(x) /\ Data \in Cell
  BY CallIs DEF Cell
<1>2. OneCallInv(m, tb, ct, cl[t]) /\ WriteInv(tb, ct, cl[t])
  BY DEF Good, Sound, CallsInv, OneCallInv
<1>3. SameDir(tb, ct, tb, ct2) /\ OthersKept(tb, ct, cl, t, tb, ct2) /\ ImageTypes(tb, ct2)
  BY <1>1, WrittenElsewhere, WrittenTypes
<1> HIDE DEF ct2
<1>4. \A p, j : Entry(tb, ct2, p, j) <=> Entry(tb, ct, p, j)
  BY <1>3, SlotsKept
<1>5. OneCallInv(m2, tb, ct2, x)
  <2>1. x.ino \notin {0, Root} /\ x.ino \in m2.inodes /\ x.inode.size <= DirectBlocks
    BY <1>2 DEF OneCallInv, MarksMore
  <2>2. WriteInv(tb, ct2, x)
    BY <1>2, <1>4 DEF WriteInv
  <2> QED BY <2>1, <2>2 DEF OneCallInv
<1>6. OneMoreBy(tb, ct, cl, tb, ct2, x, x.ino, k0, b0)
  <2> SUFFICES ASSUME NEW j \in Inodes, NEW k \in Nat, NEW d \in DataBlocks,
                      OnImage(tb, ct2, j, k, d) \/ CallClaim(tb, x, j, k, d)
               PROVE  Claim(tb, ct, cl, j, k, d) \/ (j = x.ino /\ k = k0 /\ d = b0)
    BY DEF OneMoreBy
  <2>1. CASE OnImage(tb, ct2, j, k, d)
    BY <2>1, <1>4 DEF OnImage, Claim
  <2>2. CASE InCopy(x, j, k, d)
    BY <2>2 DEF InCopy, CallClaim, Claim
  <2>3. ~NewInDir(tb, x, j, k, d)
    BY Sets DEF NewInDir
  <2> QED BY <2>1, <2>2, <2>3 DEF CallClaim
<1>7. Apart(cl, t, x)
  BY SameApart
<1>8. Good(m2, tb, ct2, [cl EXCEPT ![t] = x])
  BY <1>1, <1>3, <1>5, <1>6, <1>7, QuietStep
<1> QED BY <1>3, <1>8 DEF ct2

\* A write that ends for want of a pointer leaves a marked, empty block.
LEMMA StrandStep ==
    ASSUME NEW m, NEW tb, NEW ct, NEW cl, Good(m, tb, ct, cl), NEW t \in Workers,
           NEW b \in DataBlocks \ m.blocks
    PROVE  /\ Good(WithBlock(m, b), tb, [ct EXCEPT ![b] = Hole], [cl EXCEPT ![t] = Idle])
           /\ SameDir(tb, ct, tb, [ct EXCEPT ![b] = Hole])
<1> DEFINE ct2 == [ct EXCEPT ![b] = Hole]
           m2  == WithBlock(m, b)
<1>1. Idle \in Call /\ ~Runs(Idle) /\ Hole \in Cell
  BY CallIs DEF Cell
<1>2. MarksMore(m, m2, b)
  BY MarksBlock
<1>3. SameDir(tb, ct, tb, ct2) /\ OthersKept(tb, ct, cl, t, tb, ct2) /\ ImageTypes(tb, ct2)
  BY <1>1, WrittenElsewhere, WrittenTypes DEF Elsewhere
<1> HIDE DEF ct2, m2
<1>4. OneMoreBy(tb, ct, cl, tb, ct2, Idle, 0, 0, b)
  BY <1>1, <1>3, SlotsKept DEF OneMoreBy, Claim, OnImage, CallClaim, InCopy, NewInDir
<1>5. Good(m2, tb, ct2, [cl EXCEPT ![t] = Idle])
  BY <1>1, <1>2, <1>3, <1>4, IdleApart, QuietStep
<1> QED BY <1>3, <1>5 DEF ct2, m2

\* The copy of the inode, with another size at most, goes to the table.
LEMMA RecordStep ==
    ASSUME NEW m, NEW tb, NEW ct, NEW cl, Good(m, tb, ct, cl), NEW t \in Workers,
           Runs(cl[t]), cl[t].op \in {"write", "read"},
           NEW v \in Inode, v.block = cl[t].inode.block, v.size <= DirectBlocks
    PROVE  /\ Good(m, [tb EXCEPT ![cl[t].ino] = v], ct, [cl EXCEPT ![t] = Idle])
           /\ SameDir(tb, ct, [tb EXCEPT ![cl[t].ino] = v], ct)
<1> DEFINE c   == cl[t]
           i   == c.ino
           tb2 == [tb EXCEPT ![i] = v]
<1>1. Idle \in Call /\ ~Runs(Idle)
  BY CallIs
<1>2. OneCallInv(m, tb, ct, c) /\ Entry(tb, ct, c.name, i) /\ i \notin {0, Root}
  BY DEF Good, Sound, CallsInv, OneCallInv, WriteInv, ReadInv
<1>3. c \in Running /\ i \in Inodes /\ c.name \in Names
  BY RootClaims DEF Running
<1>4. tb \in [Inodes -> Inode] /\ ImageTypes(tb2, ct)
  BY DEF Good, Types, ImageTypes
<1>5. tb2[i] = v /\ \A j \in Inodes \ {i} : tb2[j] = tb[j]
  BY <1>3, <1>4
<1> HIDE DEF tb2
<1>6. SameDir(tb, ct, tb2, ct)
  BY <1>2, <1>5, Sets DEF SameDir
<1>7. OthersKept(tb, ct, cl, t, tb2, ct)
  <2> SUFFICES ASSUME NEW u \in Workers \ {t}, cl[u].op = "create"
               PROVE  tb2[cl[u].ino] = tb[cl[u].ino]
    BY DEF OthersKept
  <2>1. cl[u] \in Running /\ CreateInv(tb, ct, cl[u])
    BY RootClaims DEF Runs, Good, Sound, CallsInv, OneCallInv
  <2>2. cl[u].ino # i /\ cl[u].ino \in Inodes
    BY <2>1, <1>2, <1>3 DEF CreateInv, Running
  <2> QED BY <2>2, <1>5
<1>8. OneMoreBy(tb, ct, cl, tb2, ct, Idle, 0, 0, NoBlock)
  <2> SUFFICES ASSUME NEW j \in Inodes, NEW k \in Nat, NEW d \in DataBlocks,
                      OnImage(tb2, ct, j, k, d) \/ CallClaim(tb2, Idle, j, k, d)
               PROVE  Claim(tb, ct, cl, j, k, d)
    BY DEF OneMoreBy
  <2>1. OnImage(tb2, ct, j, k, d)
    BY <1>1 DEF CallClaim, InCopy, NewInDir
  <2>2. CASE j = i
    <3>1. InCopy(c, j, k, d)
      BY <2>1, <2>2, <1>5 DEF InCopy, OnImage
    <3> QED BY <3>1 DEF CallClaim, Claim
  <2>3. CASE j # i
    <3>1. OnImage(tb, ct, j, k, d)
      BY <2>1, <2>3, <1>5, <1>6, SlotsKept DEF OnImage
    <3> QED BY <3>1 DEF Claim
  <2> QED BY <2>2, <2>3
<1>9. Good(m, tb2, ct, [cl EXCEPT ![t] = Idle])
  BY <1>1, <1>4, <1>6, <1>7, <1>8, IdleApart, MarksSame, QuietStep
<1> QED BY <1>6, <1>9 DEF tb2

\* minifs_add_dir_entry past the search of an emptied block: the entry is in a
\* block that no directory has yet, or nowhere.
LEMMA AddBlockStep ==
    ASSUME NEW m, NEW tb, NEW ct, NEW cl, Good(m, tb, ct, cl), NEW t \in Workers,
           cl[t].op = "create", cl[t].at = "entry", NEW b \in DataBlocks \ m.blocks,
           NEW x \in Running, x.op = "create", x.name = cl[t].name, x.ino = cl[t].ino,
           x.inode = cl[t].inode, x.blk = b,
           x.at = "undo" \/ (x.at = "link" /\ tb[Root].size < DirectBlocks)
    PROVE  /\ Good(WithBlock(m, b), tb, [ct EXCEPT ![b] = EntryOf(cl[t].name, cl[t].ino)],
                   [cl EXCEPT ![t] = x])
           /\ SameDir(tb, ct, tb, [ct EXCEPT ![b] = EntryOf(cl[t].name, cl[t].ino)])
<1> DEFINE c   == cl[t]
           ct2 == [ct EXCEPT ![b] = EntryOf(c.name, c.ino)]
           m2  == WithBlock(m, b)
<1>1. x \in Call /\ Runs(x)
  BY CallIs
<1>2. Runs(c) /\ c \in Running
  BY RootClaims DEF Runs
<1>3. OneCallInv(m, tb, ct, c) /\ CreateInv(tb, ct, c)
  BY <1>2 DEF Good, Sound, CallsInv, OneCallInv
<1>4. EntryOf(c.name, c.ino) \in Cell
  BY <1>2, EntryIs DEF Running
<1>5. MarksMore(m, m2, b)
  BY MarksBlock
<1>6. SameDir(tb, ct, tb, ct2) /\ OthersKept(tb, ct, cl, t, tb, ct2) /\ ImageTypes(tb, ct2)
  BY <1>4, WrittenElsewhere, WrittenTypes DEF Elsewhere
<1>7. ct2[b] = EntryOf(c.name, c.ino)
  BY DEF Good, Types
<1> HIDE DEF ct2, m2
<1>8. \A p, j : Entry(tb, ct2, p, j) <=> Entry(tb, ct, p, j)
  BY <1>6, SlotsKept
<1>9. OneCallInv(m2, tb, ct2, x)
  <2>1. CreateInv(tb, ct2, x)
    BY <1>3, <1>7, <1>8 DEF CreateInv
  <2>2. x.ino \notin {0, Root} /\ x.ino \in m2.inodes /\ x.inode.size <= DirectBlocks
    BY <1>3, <1>5 DEF OneCallInv, MarksMore
  <2> QED BY <2>1, <2>2 DEF OneCallInv
<1>10. OneMoreBy(tb, ct, cl, tb, ct2, x, Root, tb[Root].size, b)
  <2> SUFFICES ASSUME NEW j \in Inodes, NEW k \in Nat, NEW d \in DataBlocks,
                      OnImage(tb, ct2, j, k, d) \/ CallClaim(tb, x, j, k, d)
               PROVE  Claim(tb, ct, cl, j, k, d) \/ (j = Root /\ k = tb[Root].size /\ d = b)
    BY DEF OneMoreBy
  <2>1. CASE OnImage(tb, ct2, j, k, d)
    BY <2>1, <1>8 DEF OnImage, Claim
  <2>2. CASE InCopy(x, j, k, d)
    BY <2>2, <1>2 DEF InCopy, CallClaim, Claim
  <2>3. CASE NewInDir(tb, x, j, k, d)
    BY <2>3 DEF NewInDir
  <2> QED BY <2>1, <2>2, <2>3 DEF CallClaim
<1>11. Apart(cl, t, x)
  BY SameApart
<1>12. Good(m2, tb, ct2, [cl EXCEPT ![t] = x])
  BY <1>1, <1>5, <1>6, <1>9, <1>10, <1>11, QuietStep
<1> QED BY <1>6, <1>12 DEF ct2, m2

LEMMA AddNoneStep ==
    ASSUME NEW m, NEW tb, NEW ct, NEW cl, Good(m, tb, ct, cl), NEW t \in Workers,
           cl[t].op = "create", cl[t].at = "entry",
           NEW x \in Running, x.op = "create", x.name = cl[t].name, x.ino = cl[t].ino,
           x.inode = cl[t].inode, x.blk = cl[t].blk, x.at = "undo"
    PROVE  Good(m, tb, ct, [cl EXCEPT ![t] = x])
<1>1. x \in Call /\ Runs(x) /\ Runs(cl[t])
  BY CallIs DEF Runs
<1>2. OneCallInv(m, tb, ct, x)
  <2>1. OneCallInv(m, tb, ct, cl[t])
    BY <1>1 DEF Good, Sound, CallsInv
  <2> QED BY <2>1 DEF OneCallInv, CreateInv
<1>3. OneMoreBy(tb, ct, cl, tb, ct, x, 0, 0, NoBlock)
  BY <1>1 DEF OneMoreBy, Claim, CallClaim, InCopy, NewInDir
<1>4. Apart(cl, t, x)
  BY SameApart
<1> QED BY <1>1, <1>2, <1>3, <1>4, Nothing, MarksSame, QuietStep

-----------------------------------------------------------------------------
(* The steps that clear bits *)

\* Nobody else works on the inode of a create or an unlink.
LEMMA OwnInode ==
    ASSUME NEW m, NEW tb, NEW ct, NEW cl, Good(m, tb, ct, cl), NEW t \in Workers,
           cl[t].op \in {"create", "unlink"}
    PROVE  /\ Runs(cl[t]) /\ cl[t] \in Running /\ OneCallInv(m, tb, ct, cl[t])
           /\ cl[t].ino \in Inodes \ {0, Root}
           /\ \A n \in Names, i \in Inodes : Entry(tb, ct, n, i) => i # cl[t].ino
           /\ \A u \in Workers \ {t} : Runs(cl[u]) => cl[u].ino # cl[t].ino
<1>1. Runs(cl[t]) /\ cl[t] \in Running
  BY RootClaims DEF Runs
<1>2. OneCallInv(m, tb, ct, cl[t])
  BY <1>1 DEF Good, Sound, CallsInv
<1>3. \A n \in Names, i \in Inodes : Entry(tb, ct, n, i) => i # cl[t].ino
  BY <1>2 DEF OneCallInv, CreateInv, UnlinkInv
<1>4. ASSUME NEW u \in Workers \ {t}, Runs(cl[u])
      PROVE  cl[u].ino # cl[t].ino
  <2>1. cl[u] \in Running /\ OneCallInv(m, tb, ct, cl[u])
    BY <1>4, RootClaims DEF Good, Sound, CallsInv
  <2>2. cl[u].op \notin {"create", "unlink"}
    BY DEF Good, Sound, CallsInv, Exclude
  <2>3. Entry(tb, ct, cl[u].name, cl[u].ino) /\ cl[u].name \in Names /\ cl[u].ino \in Inodes
    BY <2>1, <2>2 DEF OneCallInv, WriteInv, ReadInv, Running
  <2> QED BY <2>3, <1>3
<1> QED BY <1>1, <1>2, <1>3, <1>4 DEF OneCallInv, Running

\* The end of a create that failed, and of an unlink.
LEMMA InodeFreedStep ==
    ASSUME NEW m, NEW tb, NEW ct, NEW cl, Good(m, tb, ct, cl), NEW t \in Workers,
           cl[t].op \in {"create", "unlink"}
    PROVE  Good(WithoutInode(m, cl[t].ino), tb, ct, [cl EXCEPT ![t] = Idle])
<1> DEFINE m2 == WithoutInode(m, cl[t].ino)
<1>1. Idle \in Call /\ ~Runs(Idle)
  BY CallIs
<1>2. m \in Metadata /\ Tracks(m) /\ DirInv(m, tb, ct) /\ ClaimsInv(m, tb, ct, cl)
      /\ CallsInv(m, tb, ct, cl) /\ cl \in [Workers -> Call]
  BY DEF Good, Types, Sound
<1>3. {0, Root} \subseteq m.inodes /\ cl[t].ino \in m.inodes /\ cl[t].ino \notin {0, Root}
  BY <1>2, OwnInode DEF DirInv, OneCallInv
<1>4. m2 \in Metadata /\ Tracks(m2) /\ m2.inodes = m.inodes \ {cl[t].ino} /\ m2.blocks = m.blocks
  BY <1>2, <1>3, InodeGiven
<1> HIDE DEF m2
<1>5. InodesKept(m2, tb, ct, cl, t)
  <2>1. \A n \in Names, i \in Inodes : Entry(tb, ct, n, i) => i \in m.inodes
    BY <1>2 DEF DirInv, Entry
  <2>2. \A u \in Workers : Runs(cl[u]) => cl[u].ino \in m.inodes
    BY <1>2 DEF CallsInv, OneCallInv
  <2> QED BY <2>1, <2>2, <1>3, <1>4, OwnInode DEF InodesKept
<1>6. DirInv(m2, tb, ct) /\ CallsInv(m2, tb, ct, [cl EXCEPT ![t] = Idle])
  BY <1>1, <1>5, Nothing, IdleApart, QuietCalls
<1>7. OneMoreBy(tb, ct, cl, tb, ct, Idle, 0, 0, NoBlock)
  BY <1>1 DEF OneMoreBy, Claim, CallClaim, InCopy, NewInDir
<1>8. ClaimsInv(m2, tb, ct, [cl EXCEPT ![t] = Idle])
  <2>1. BlocksMore(m, m2, NoBlock) /\ SameDir(tb, ct, tb, ct)
    BY <1>4, Nothing DEF BlocksMore
  <2> QED BY <2>1, <1>1, <1>2, <1>7, ClaimsQuiet
<1>9. Sound(m2, tb, ct, [cl EXCEPT ![t] = Idle])
  BY <1>6, <1>8 DEF Sound
<1>10. Types(m2, tb, ct, [cl EXCEPT ![t] = Idle])
  BY <1>1, <1>4 DEF Good, Types
<1>11. Good(m2, tb, ct, [cl EXCEPT ![t] = Idle])
  BY <1>4, <1>9, <1>10 DEF Good
<1> QED BY <1>11 DEF m2

\* One block of an unlinked file: the only claim on it is in the unlink's copy.
LEMMA BlockFreedStep ==
    ASSUME NEW m, NEW tb, NEW ct, NEW cl, Good(m, tb, ct, cl), NEW t \in Workers,
           cl[t].op = "unlink", NEW k0 \in Idx, cl[t].inode.block[k0] # NoBlock,
           NEW x \in Running, x.op = "unlink", x.name = cl[t].name, x.ino = cl[t].ino,
           x.at = cl[t].at, x.blk = cl[t].blk, x.inode.size = cl[t].inode.size,
           x.inode.block[k0] = NoBlock,
           \A k \in Idx \ {k0} : x.inode.block[k] = cl[t].inode.block[k]
    PROVE  Good(WithoutBlock(m, cl[t].inode.block[k0]), tb, ct, [cl EXCEPT ![t] = x])
<1> DEFINE b  == cl[t].inode.block[k0]
           m2 == WithoutBlock(m, b)
           cl2 == [cl EXCEPT ![t] = x]
<1>1. x \in Call /\ Runs(x)
  BY CallIs
<1>2. m \in Metadata /\ Tracks(m) /\ ClaimsInv(m, tb, ct, cl) /\ Sound(m, tb, ct, cl)
      /\ cl \in [Workers -> Call]
  BY DEF Good, Types, Sound
<1>3. Runs(cl[t]) /\ cl[t] \in Running /\ cl[t].ino \in Inodes \ {0, Root} /\ OneCallInv(m, tb, ct, cl[t])
  BY OwnInode
<1>4. b \in DataBlocks /\ k0 \in Nat
  BY <1>3, Sets DEF Running, Inode
<1>5. Claim(tb, ct, cl, cl[t].ino, k0, b)
  BY <1>3 DEF Claim, CallClaim, InCopy
<1>6. b \in m.blocks
  BY <1>2, <1>3, <1>4, <1>5 DEF ClaimsInv
<1>7. m2 \in Metadata /\ Tracks(m2) /\ m2.blocks = m.blocks \ {b} /\ m2.inodes = m.inodes
  BY <1>2, <1>6, BlockGiven
<1> HIDE DEF m2
<1>8. OneCallInv(m2, tb, ct, x)
  BY <1>3, <1>7 DEF OneCallInv, UnlinkInv
<1>9. DirInv(m2, tb, ct) /\ CallsInv(m2, tb, ct, cl2)
  BY <1>1, <1>2, <1>7, <1>8, InodesGrow, Nothing, SameApart, QuietCalls
<1>10. ASSUME NEW i \in Inodes, NEW k \in Nat, NEW d \in DataBlocks, Claim(tb, ct, cl2, i, k, d)
       PROVE  Claim(tb, ct, cl, i, k, d) /\ d # b
  <2>1. CASE OnImage(tb, ct, i, k, d)
    <3>1. Claim(tb, ct, cl, i, k, d) /\ i # cl[t].ino
      BY <2>1, <1>3, OwnInode DEF Claim, OnImage
    <3> QED BY <3>1, <1>2, <1>3, <1>4, <1>5 DEF ClaimsInv
  <2>2. CASE InCopy(x, i, k, d)
    <3>1. k \in Idx /\ i = cl[t].ino /\ k # k0 /\ cl[t].inode.block[k] = d
      BY <2>2, Sets DEF InCopy
    <3>2. Claim(tb, ct, cl, i, k, d)
      BY <3>1, <1>3 DEF Claim, CallClaim, InCopy
    <3> QED BY <3>1, <3>2, <1>2, <1>3, <1>4, <1>5 DEF ClaimsInv
  <2>3. ~NewInDir(tb, x, i, k, d)
    BY <1>3, Sets DEF NewInDir, OneCallInv, UnlinkInv
  <2>4. CASE \E u \in Workers \ {t} : CallClaim(tb, cl[u], i, k, d)
    <3>1. Claim(tb, ct, cl, i, k, d)
      BY <2>4 DEF Claim
    <3>2. i # cl[t].ino
      BY <2>4, <1>3, OwnInode DEF CallClaim, InCopy, NewInDir
    <3> QED BY <3>1, <3>2, <1>2, <1>3, <1>4, <1>5 DEF ClaimsInv
  <2>5. \/ OnImage(tb, ct, i, k, d)
        \/ CallClaim(tb, x, i, k, d)
        \/ \E u \in Workers \ {t} : CallClaim(tb, cl[u], i, k, d)
    BY <1>10, <1>2 DEF Claim
  <2> QED BY <2>1, <2>2, <2>3, <2>4, <2>5 DEF CallClaim
<1>11. ClaimsInv(m2, tb, ct, cl2)
  <2> HIDE DEF cl2, b
  <2>1. \A i \in Inodes, k \in Nat, d \in DataBlocks : Claim(tb, ct, cl2, i, k, d) => d \in m2.blocks
    BY <1>2, <1>7, <1>10 DEF ClaimsInv
  <2>2. \A i, j \in Inodes, k, l \in Nat, d \in DataBlocks :
          Claim(tb, ct, cl2, i, k, d) /\ Claim(tb, ct, cl2, j, l, d) => i = j /\ k = l
    BY <1>2, <1>10 DEF ClaimsInv
  <2> QED BY <2>1, <2>2 DEF ClaimsInv
<1>12. Good(m2, tb, ct, cl2)
  BY <1>1, <1>2, <1>7, <1>9, <1>11 DEF Good, Sound, Types
<1> QED BY <1>12 DEF m2

-----------------------------------------------------------------------------
(* The steps that change the directory *)

\* While a create or an unlink is under way the others only read and write.
LEMMA OthersReadOrWrite ==
    ASSUME NEW m, NEW tb, NEW ct, NEW cl, Good(m, tb, ct, cl), NEW t \in Workers,
           cl[t].op \in {"create", "unlink"} \/ \A v \in Workers : cl[v].op \notin {"create", "unlink"},
           NEW u \in Workers \ {t}, Runs(cl[u])
    PROVE  /\ cl[u] \in Running /\ cl[u].op \in {"write", "read"} /\ cl[u].blk = NoBlock
           /\ OneCallInv(m, tb, ct, cl[u]) /\ Entry(tb, ct, cl[u].name, cl[u].ino)
           /\ cl[u].name \in Names /\ cl[u].ino \in Inodes
           /\ \A tb2 : \A i, k : \A d \in DataBlocks :
                  CallClaim(tb2, cl[u], i, k, d) => Claim(tb, ct, cl, i, k, d)
<1>1. cl[u] \in Running /\ OneCallInv(m, tb, ct, cl[u])
  BY RootClaims DEF Good, Sound, CallsInv
<1>2. cl[u].op \in {"write", "read"}
  BY <1>1 DEF Good, Sound, CallsInv, Exclude, Running
<1>3. cl[u].blk = NoBlock /\ Entry(tb, ct, cl[u].name, cl[u].ino)
  BY <1>1, <1>2 DEF OneCallInv, WriteInv, ReadInv
<1>4. \A tb2 : \A i, k : \A d \in DataBlocks :
          CallClaim(tb2, cl[u], i, k, d) => Claim(tb, ct, cl, i, k, d)
  <2> TAKE tb2
  <2> TAKE i, k
  <2> TAKE d \in DataBlocks
  <2>1. ~NewInDir(tb2, cl[u], i, k, d)
    BY <1>3, Sets DEF NewInDir
  <2> QED BY <2>1 DEF CallClaim, Claim
<1>5. cl[u].name \in Names /\ cl[u].ino \in Inodes
  BY <1>1 DEF Running
<1> QED BY <1>1, <1>2, <1>3, <1>4, <1>5

\* The directory has one entry more, the one of the create.
NameAdded(tb, ct, tb2, ct2, k0, n, i) ==
    /\ \A p \in Names, j \in Inodes : ~Slot(tb, ct, k0, p, j)
    /\ \A k \in Idx, p \in Names, j \in Inodes :
           Slot(tb2, ct2, k, p, j) <=> Slot(tb, ct, k, p, j) \/ (k = k0 /\ p = n /\ j = i)

LEMMA NamedStep ==
    ASSUME NEW m, NEW tb, NEW ct, NEW cl, Good(m, tb, ct, cl), NEW t \in Workers,
           cl[t].op = "create", NEW k0 \in Idx, NEW tb2, NEW ct2,
           NameAdded(tb, ct, tb2, ct2, k0, cl[t].name, cl[t].ino)
    PROVE  /\ DirInv(m, tb2, ct2) /\ CallsInv(m, tb2, ct2, [cl EXCEPT ![t] = Idle])
           /\ \A p \in Names, j \in Inodes : Entry(tb2, ct2, p, j) =>
                  Entry(tb, ct, p, j) \/ j = cl[t].ino
<1> DEFINE c == cl[t]
<1>1. /\ c \in Running /\ c.ino \in Inodes \ {0, Root} /\ c.name \in Names /\ c.ino \in m.inodes
      /\ CreateInv(tb, ct, c)
  BY OwnInode DEF OneCallInv, Running
<1>2. DirInv(m, tb, ct) /\ cl \in [Workers -> Call] /\ CallsInv(m, tb, ct, cl)
  BY DEF Good, Sound, Types
<1> HIDE DEF c
<1>3. \A k \in Idx, p \in Names, j \in Inodes : Slot(tb, ct, k, p, j) => p # c.name /\ j # c.ino
  BY <1>1 DEF CreateInv, Entry
<1>4. \A k \in Idx, p \in Names, j \in Inodes :
          Slot(tb2, ct2, k, p, j) <=> Slot(tb, ct, k, p, j) \/ (k = k0 /\ p = c.name /\ j = c.ino)
  BY DEF NameAdded, c
<1>5. DirInv(m, tb2, ct2)
  <2>1. \A k \in Idx, n \in Names, i \in Inodes :
            Slot(tb2, ct2, k, n, i) => i \notin {0, Root} /\ i \in m.inodes
    BY <1>1, <1>2, <1>4 DEF DirInv
  <2>2. ASSUME NEW k \in Idx, NEW l \in Idx, NEW n \in Names, NEW p \in Names,
               NEW i \in Inodes, NEW j \in Inodes,
               Slot(tb2, ct2, k, n, i), Slot(tb2, ct2, l, p, j), n = p \/ i = j
        PROVE  k = l
    <3>1. CASE Slot(tb, ct, k, n, i) /\ Slot(tb, ct, l, p, j)
      BY <3>1, <2>2, <1>2 DEF DirInv
    <3>2. CASE ~Slot(tb, ct, k, n, i)
      <4>1. k = k0 /\ n = c.name /\ i = c.ino
        BY <3>2, <2>2, <1>4
      <4> QED BY <4>1, <2>2, <1>3, <1>4
    <3>3. CASE ~Slot(tb, ct, l, p, j)
      <4>1. l = k0 /\ p = c.name /\ j = c.ino
        BY <3>3, <2>2, <1>4
      <4> QED BY <4>1, <2>2, <1>3, <1>4
    <3> QED BY <3>1, <3>2, <3>3
  <2> QED BY <2>1, <2>2, <1>2 DEF DirInv
<1>6. ASSUME NEW u \in Workers \ {t}, Runs(cl[u])
      PROVE  OneCallInv(m, tb2, ct2, cl[u])
  <2>1. /\ cl[u].op \in {"write", "read"} /\ OneCallInv(m, tb, ct, cl[u])
        /\ Entry(tb, ct, cl[u].name, cl[u].ino) /\ cl[u].name \in Names /\ cl[u].ino \in Inodes
    BY <1>6, OthersReadOrWrite
  <2>2. Entry(tb2, ct2, cl[u].name, cl[u].ino)
    BY <2>1, <1>4 DEF Entry
  <2> QED BY <2>1, <2>2 DEF OneCallInv, WriteInv, ReadInv
<1>7. CallsInv(m, tb2, ct2, [cl EXCEPT ![t] = Idle])
  <2>1. \A u \in Workers \ {t} : /\ ~Exclude(Idle, cl[u]) /\ ~Exclude(cl[u], Idle)
                                 /\ Runs(cl[u]) => OneCallInv(m, tb2, ct2, cl[u])
    BY <1>6, IdleApart DEF Apart
  <2>2. \A u, v \in Workers : Exclude(cl[u], cl[v]) => u = v
    BY <1>2 DEF CallsInv
  <2> QED BY <2>1, <2>2, <1>2, CallIs, CallReplaced
<1>8. \A p \in Names, j \in Inodes : Entry(tb2, ct2, p, j) => Entry(tb, ct, p, j) \/ j = c.ino
  BY <1>4 DEF Entry
<1> QED BY <1>5, <1>7, <1>8 DEF c

\* Two pointers of the directory are of two blocks.
LEMMA RootPointers ==
    ASSUME NEW m, NEW tb, NEW ct, NEW cl, Good(m, tb, ct, cl),
           NEW k \in Idx, NEW l \in Idx, tb[Root].block[k] # NoBlock,
           tb[Root].block[k] = tb[Root].block[l]
    PROVE  k = l
<1>1. tb[Root].block[k] \in DataBlocks
  BY RootClaims
<1>2. ClaimsInv(m, tb, ct, cl)
  BY DEF Good, Sound
<1>3. Claim(tb, ct, cl, Root, k, tb[Root].block[k]) /\ Claim(tb, ct, cl, Root, l, tb[Root].block[k])
  BY RootClaims
<1> QED BY <1>1, <1>2, <1>3, Sets DEF ClaimsInv

\* Claims after a step of a create or an unlink that ends it or keeps the copy.
LEMMA ClaimsLoud ==
    ASSUME NEW m, NEW tb, NEW ct, NEW cl, Good(m, tb, ct, cl), NEW t \in Workers, NEW x,
           cl[t].op \in {"create", "unlink"} \/ \A v \in Workers : cl[v].op \notin {"create", "unlink"},
           NEW tb2, NEW ct2,
           \A i \in Inodes, k \in Nat, b \in DataBlocks :
               OnImage(tb2, ct2, i, k, b) \/ CallClaim(tb2, x, i, k, b) => Claim(tb, ct, cl, i, k, b)
    PROVE  ClaimsInv(m, tb2, ct2, [cl EXCEPT ![t] = x])
<1> DEFINE cl2 == [cl EXCEPT ![t] = x]
<1>1. ClaimsInv(m, tb, ct, cl) /\ cl2[t] = x /\ \A u \in Workers \ {t} : cl2[u] = cl[u]
  BY DEF Good, Sound, Types
<1> HIDE DEF cl2
<1>2. ASSUME NEW i \in Inodes, NEW k \in Nat, NEW b \in DataBlocks, Claim(tb2, ct2, cl2, i, k, b)
      PROVE  Claim(tb, ct, cl, i, k, b)
  <2>1. CASE OnImage(tb2, ct2, i, k, b) \/ CallClaim(tb2, x, i, k, b)
    BY <2>1
  <2>2. CASE \E u \in Workers \ {t} : CallClaim(tb2, cl[u], i, k, b)
    <3>1. PICK u \in Workers \ {t} : CallClaim(tb2, cl[u], i, k, b)
      BY <2>2
    <3>2. Runs(cl[u])
      BY <3>1 DEF CallClaim, InCopy, NewInDir
    <3> QED BY <3>1, <3>2, OthersReadOrWrite
  <2> QED BY <1>1, <1>2, <2>1, <2>2 DEF Claim
<1>3. ClaimsInv(m, tb2, ct2, cl2)
  <2>1. \A i \in Inodes, k \in Nat, b \in DataBlocks : Claim(tb2, ct2, cl2, i, k, b) => b \in m.blocks
    BY <1>1, <1>2 DEF ClaimsInv
  <2>2. \A i, j \in Inodes, k, l \in Nat, b \in DataBlocks :
          Claim(tb2, ct2, cl2, i, k, b) /\ Claim(tb2, ct2, cl2, j, l, b) => i = j /\ k = l
    BY <1>1, <1>2 DEF ClaimsInv
  <2> QED BY <2>1, <2>2 DEF ClaimsInv
<1> QED BY <1>3 DEF cl2

\* The entry goes into an emptied block of the directory.
LEMMA RefillStep ==
    ASSUME NEW m, NEW tb, NEW ct, NEW cl, Good(m, tb, ct, cl), NEW t \in Workers,
           cl[t].op = "create", NEW k0 \in Idx, k0 < tb[Root].size,
           tb[Root].block[k0] # NoBlock, ct[tb[Root].block[k0]] = Hole
    PROVE  /\ Good(m, tb, [ct EXCEPT ![tb[Root].block[k0]] = EntryOf(cl[t].name, cl[t].ino)],
                   [cl EXCEPT ![t] = Idle])
           /\ NameAdded(tb, ct, tb, [ct EXCEPT ![tb[Root].block[k0]] = EntryOf(cl[t].name, cl[t].ino)],
                        k0, cl[t].name, cl[t].ino)
<1> DEFINE c   == cl[t]
           d   == tb[Root].block[k0]
           ct2 == [ct EXCEPT ![d] = EntryOf(c.name, c.ino)]
           cl2 == [cl EXCEPT ![t] = Idle]
<1>1. /\ c \in Running /\ c.ino \in Inodes \ {0, Root} /\ c.name \in Names
      /\ tb[c.ino] = EmptyInode
  BY OwnInode DEF OneCallInv, CreateInv, Running
<1>2. d \in DataBlocks
  BY RootClaims
<1>3. EntryOf(c.name, c.ino) \in Cell
  BY <1>1, EntryIs
<1>4. ImageTypes(tb, ct2)
  BY <1>3, WrittenTypes
<1>5. ct2[d] = EntryOf(c.name, c.ino) /\ \A b \in DataBlocks \ {d} : ct2[b] = ct[b]
  BY <1>2 DEF Good, Types
<1>6. \A k \in Idx : tb[Root].block[k] = d => k = k0
  BY RootPointers
<1> HIDE DEF ct2
<1>7. NameAdded(tb, ct, tb, ct2, k0, c.name, c.ino)
  <2>1. \A p \in Names, j \in Inodes : ~Slot(tb, ct, k0, p, j)
    BY EntryIs DEF Slot
  <2>2. ASSUME NEW k \in Idx, NEW p \in Names, NEW j \in Inodes
        PROVE  Slot(tb, ct2, k, p, j) <=> Slot(tb, ct, k, p, j) \/ (k = k0 /\ p = c.name /\ j = c.ino)
    <3>1. CASE k = k0
      <4>1. Slot(tb, ct2, k, p, j) <=> EntryOf(c.name, c.ino) = EntryOf(p, j)
        BY <3>1, <1>5 DEF Slot
      <4>2. EntryOf(c.name, c.ino) = EntryOf(p, j) <=> p = c.name /\ j = c.ino
        BY <1>1, EntryIs
      <4> QED BY <4>1, <4>2, <2>1, <3>1
    <3>2. CASE k # k0
      <4>1. tb[Root].block[k] # NoBlock => ct2[tb[Root].block[k]] = ct[tb[Root].block[k]]
        BY <3>2, <1>5, <1>6, RootClaims
      <4> QED BY <3>2, <4>1 DEF Slot
    <3> QED BY <3>1, <3>2
  <2> QED BY <2>1, <2>2 DEF NameAdded
<1>8. /\ DirInv(m, tb, ct2) /\ CallsInv(m, tb, ct2, cl2)
      /\ \A p \in Names, j \in Inodes : Entry(tb, ct2, p, j) => Entry(tb, ct, p, j) \/ j = c.ino
  BY <1>7, NamedStep
<1>9. ASSUME NEW i \in Inodes, NEW k \in Nat, NEW b \in DataBlocks,
             OnImage(tb, ct2, i, k, b) \/ CallClaim(tb, Idle, i, k, b)
      PROVE  Claim(tb, ct, cl, i, k, b)
  <2>1. OnImage(tb, ct2, i, k, b)
    BY <1>9, CallIs DEF CallClaim, InCopy, NewInDir
  <2>2. i # c.ino
    BY <2>1, <1>1, EmptyIs, Sets DEF OnImage
  <2> QED BY <2>1, <2>2, <1>8 DEF OnImage, Claim
<1>10. ClaimsInv(m, tb, ct2, cl2)
  BY <1>9, ClaimsLoud
<1>11. Types(m, tb, ct2, cl2) /\ Tracks(m)
  BY <1>4, CallIs DEF Good, Types, ImageTypes
<1>12. Good(m, tb, ct2, cl2)
  BY <1>8, <1>10, <1>11 DEF Good, Sound
<1> QED BY <1>7, <1>12 DEF ct2

\* The new block of the directory is linked.
LEMMA LinkStep ==
    ASSUME NEW m, NEW tb, NEW ct, NEW cl, Good(m, tb, ct, cl), NEW t \in Workers,
           cl[t].op = "create", cl[t].at = "link", NEW r \in Inode, r.size = tb[Root].size + 1,
           \A k \in Idx : r.block[k] = IF k = tb[Root].size THEN cl[t].blk ELSE tb[Root].block[k]
    PROVE  /\ Good(m, [tb EXCEPT ![Root] = r], ct, [cl EXCEPT ![t] = Idle])
           /\ tb[Root].size \in Idx
           /\ NameAdded(tb, ct, [tb EXCEPT ![Root] = r], ct, tb[Root].size, cl[t].name, cl[t].ino)
<1> DEFINE c   == cl[t]
           k0  == tb[Root].size
           tb2 == [tb EXCEPT ![Root] = r]
           cl2 == [cl EXCEPT ![t] = Idle]
<1>1. /\ c \in Running /\ Runs(c) /\ c.ino \in Inodes \ {0, Root} /\ c.name \in Names
      /\ CreateInv(tb, ct, c)
  BY OwnInode DEF OneCallInv, Running
<1>2. /\ tb[c.ino] = EmptyInode /\ k0 < DirectBlocks /\ c.blk \in DataBlocks
      /\ ct[c.blk] = EntryOf(c.name, c.ino)
  BY <1>1 DEF CreateInv
<1>3. k0 \in Idx /\ k0 \in Nat
  BY <1>2, RootClaims, Sets
<1>4. tb \in [Inodes -> Inode] /\ tb2[Root] = r /\ \A i \in Inodes \ {Root} : tb2[i] = tb[i]
  BY Sets DEF Good, Types
<1>5. ImageTypes(tb2, ct)
  <2>1. r.size <= DirectBlocks
    BY <1>2, <1>3, Sets
  <2>2. \A i \in Inodes : tb2[i] \in Inode /\ tb2[i].size <= DirectBlocks
    BY <2>1, <1>4 DEF Good, Types
  <2> QED BY <2>2 DEF Good, Types, ImageTypes
<1> HIDE DEF tb2
<1>6. NameAdded(tb, ct, tb2, ct, k0, c.name, c.ino)
  <2>1. \A p \in Names, j \in Inodes : ~Slot(tb, ct, k0, p, j)
    BY <1>3 DEF Slot
  <2>2. ASSUME NEW k \in Idx, NEW p \in Names, NEW j \in Inodes
        PROVE  Slot(tb2, ct, k, p, j) <=> Slot(tb, ct, k, p, j) \/ (k = k0 /\ p = c.name /\ j = c.ino)
    <3>1. CASE k = k0
      <4>1. Slot(tb2, ct, k, p, j) <=> EntryOf(c.name, c.ino) = EntryOf(p, j)
        <5>1. tb2[Root].block[k] = c.blk /\ k < tb2[Root].size
          BY <3>1, <1>3, <1>4
        <5> QED BY <5>1, <1>2, Sets DEF Slot
      <4>2. EntryOf(c.name, c.ino) = EntryOf(p, j) <=> p = c.name /\ j = c.ino
        BY <1>1, EntryIs
      <4> QED BY <4>1, <4>2, <2>1, <3>1
    <3>2. CASE k # k0
      <4>1. tb2[Root].block[k] = tb[Root].block[k]
        BY <3>2, <1>4
      <4>2. k < tb2[Root].size <=> k < k0
        BY <3>2, <1>3, <1>4, Sets
      <4> QED BY <3>2, <4>1, <4>2 DEF Slot
    <3> QED BY <3>1, <3>2
  <2> QED BY <2>1, <2>2 DEF NameAdded
<1>7. /\ DirInv(m, tb2, ct) /\ CallsInv(m, tb2, ct, cl2)
      /\ \A p \in Names, j \in Inodes : Entry(tb2, ct, p, j) => Entry(tb, ct, p, j) \/ j = c.ino
  <2> HIDE DEF k0
  <2> QED BY <1>3, <1>6, NamedStep
<1>8. ASSUME NEW i \in Inodes, NEW k \in Nat, NEW b \in DataBlocks,
             OnImage(tb2, ct, i, k, b) \/ CallClaim(tb2, Idle, i, k, b)
      PROVE  Claim(tb, ct, cl, i, k, b)
  <2>1. OnImage(tb2, ct, i, k, b)
    BY <1>8, CallIs DEF CallClaim, InCopy, NewInDir
  <2>2. CASE i = Root /\ k = k0
    <3>1. b = c.blk
      BY <2>1, <2>2, <1>3, <1>4 DEF OnImage
    <3> QED BY <2>2, <3>1, <1>1, RootClaims
  <2>3. CASE i = Root /\ k # k0
    <3>1. k \in Idx /\ b = tb[Root].block[k]
      BY <2>1, <2>3, <1>4 DEF OnImage
    <3> QED BY <2>3, <3>1, RootClaims
  <2>4. CASE i # Root
    <3>1. i # c.ino
      BY <2>1, <2>4, <1>2, <1>4, EmptyIs, Sets DEF OnImage
    <3> QED BY <2>1, <2>4, <3>1, <1>4, <1>7 DEF OnImage, Claim
  <2> QED BY <2>2, <2>3, <2>4
<1>9. ClaimsInv(m, tb2, ct, cl2)
  BY <1>8, ClaimsLoud
<1>10. Types(m, tb2, ct, cl2) /\ Tracks(m)
  BY <1>5, CallIs DEF Good, Types, ImageTypes
<1>11. Good(m, tb2, ct, cl2)
  BY <1>7, <1>9, <1>10 DEF Good, Sound
<1> QED BY <1>3, <1>6, <1>11 DEF tb2

\* Nobody else changes the directory or works on the name.
NobodyOn(cl, n) ==
    /\ \A u \in Workers : cl[u].op \notin {"create", "unlink"}
    /\ \A u \in Workers : Runs(cl[u]) => cl[u].name # n

\* The directory has one entry less, the one in block k0.
NameRemoved(tb, ct, tb2, ct2, k0) ==
    \A k \in Idx, p \in Names, j \in Inodes :
        Slot(tb2, ct2, k, p, j) <=> Slot(tb, ct, k, p, j) /\ k # k0

UnlinkOf(tb, x, n, i) ==
    /\ x \in Running /\ x.op = "unlink" /\ x.name = n /\ x.ino = i /\ x.at = "free"
    /\ x.inode = tb[i] /\ x.blk = NoBlock

\* An entry is removed; the unlink keeps a copy of its inode.
LEMMA UnlinkStep ==
    ASSUME NEW m, NEW tb, NEW ct, NEW cl, Good(m, tb, ct, cl), NEW t \in Workers,
           NEW n \in Names, NEW i \in Inodes, NEW k0 \in Idx, Slot(tb, ct, k0, n, i),
           NobodyOn(cl, n),
           NEW x, UnlinkOf(tb, x, n, i)
    PROVE  /\ Good(m, tb, [ct EXCEPT ![tb[Root].block[k0]] = Hole], [cl EXCEPT ![t] = x])
           /\ NameRemoved(tb, ct, tb, [ct EXCEPT ![tb[Root].block[k0]] = Hole], k0)
<1> DEFINE d   == tb[Root].block[k0]
           ct2 == [ct EXCEPT ![d] = Hole]
           cl2 == [cl EXCEPT ![t] = x]
<1> USE DEF NobodyOn, UnlinkOf
<1>1. DirInv(m, tb, ct) /\ CallsInv(m, tb, ct, cl) /\ cl \in [Workers -> Call]
  BY DEF Good, Sound, Types
<1>2. d \in DataBlocks
  BY RootClaims DEF Slot
<1>3. ct2[d] = Hole /\ \A b \in DataBlocks \ {d} : ct2[b] = ct[b]
  BY <1>2 DEF Good, Types
<1>4. ImageTypes(tb, ct2)
  BY WrittenTypes DEF Cell
<1>5. \A k \in Idx : tb[Root].block[k] = d => k = k0
  BY RootPointers DEF Slot
<1>6. x \in Call /\ Runs(x)
  BY CallIs
<1> HIDE DEF ct2
<1>7. \A k \in Idx, p \in Names, j \in Inodes :
          Slot(tb, ct2, k, p, j) <=> Slot(tb, ct, k, p, j) /\ k # k0
  <2> TAKE k \in Idx, p \in Names, j \in Inodes
  <2>1. CASE k = k0
    BY <2>1, <1>3, EntryIs DEF Slot
  <2>2. CASE k # k0
    <3>1. tb[Root].block[k] # NoBlock => ct2[tb[Root].block[k]] = ct[tb[Root].block[k]]
      BY <2>2, <1>3, <1>5, RootClaims
    <3> QED BY <2>2, <3>1 DEF Slot
  <2> QED BY <2>1, <2>2
<1>8. DirInv(m, tb, ct2)
  BY <1>1, <1>7 DEF DirInv
<1>9. \A p \in Names, j \in Inodes : Entry(tb, ct2, p, j) => Entry(tb, ct, p, j) /\ j # i
  <2> SUFFICES ASSUME NEW p \in Names, NEW j \in Inodes, NEW k \in Idx, Slot(tb, ct2, k, p, j)
               PROVE  Entry(tb, ct, p, j) /\ j # i
    BY DEF Entry
  <2>1. Slot(tb, ct, k, p, j) /\ k # k0
    BY <1>7
  <2> QED BY <2>1, <1>1 DEF DirInv, Entry
<1>10. OneCallInv(m, tb, ct2, x)
  <2>1. i \notin {0, Root} /\ i \in m.inodes /\ tb[i].size <= DirectBlocks
    BY <1>1 DEF DirInv, Good, Types
  <2>2. UnlinkInv(tb, ct2, x)
    BY <1>9 DEF UnlinkInv
  <2> QED BY <2>1, <2>2 DEF OneCallInv
<1>11. ASSUME NEW u \in Workers \ {t}
       PROVE  /\ ~Exclude(x, cl[u]) /\ ~Exclude(cl[u], x)
              /\ Runs(cl[u]) => OneCallInv(m, tb, ct2, cl[u])
  <2>1. ~Exclude(x, cl[u]) /\ ~Exclude(cl[u], x)
    BY DEF Exclude
  <2>2. ASSUME Runs(cl[u])
        PROVE  OneCallInv(m, tb, ct2, cl[u])
    <3>1. /\ cl[u].op \in {"write", "read"} /\ OneCallInv(m, tb, ct, cl[u])
          /\ Entry(tb, ct, cl[u].name, cl[u].ino) /\ cl[u].name \in Names /\ cl[u].ino \in Inodes
      BY <2>2, OthersReadOrWrite
    <3>2. PICK k \in Idx : Slot(tb, ct, k, cl[u].name, cl[u].ino)
      BY <3>1 DEF Entry
    <3>3. cl[u].name # n
      BY <2>2
    <3>4. k # k0
      BY <3>2, <3>3, EntryIs, <3>1 DEF Slot
    <3>5. Entry(tb, ct2, cl[u].name, cl[u].ino)
      BY <3>1, <3>2, <3>4, <1>7 DEF Entry
    <3> QED BY <3>1, <3>5 DEF OneCallInv, WriteInv, ReadInv
  <2> QED BY <2>1, <2>2
<1>12. CallsInv(m, tb, ct2, cl2)
  <2>1. \A u, v \in Workers : Exclude(cl[u], cl[v]) => u = v
    BY <1>1 DEF CallsInv
  <2> QED BY <2>1, <1>1, <1>6, <1>10, <1>11, CallReplaced
<1>13. ASSUME NEW j \in Inodes, NEW k \in Nat, NEW b \in DataBlocks,
              OnImage(tb, ct2, j, k, b) \/ CallClaim(tb, x, j, k, b)
       PROVE  Claim(tb, ct, cl, j, k, b)
  <2>1. CASE OnImage(tb, ct2, j, k, b)
    BY <2>1, <1>9 DEF OnImage, Claim
  <2>2. CASE InCopy(x, j, k, b)
    BY <2>2 DEF InCopy, OnImage, Claim, Entry
  <2>3. ~NewInDir(tb, x, j, k, b)
    BY Sets DEF NewInDir
  <2> QED BY <1>13, <2>1, <2>2, <2>3 DEF CallClaim
<1>14. ClaimsInv(m, tb, ct2, cl2)
  BY <1>13, ClaimsLoud
<1>15. Types(m, tb, ct2, cl2) /\ Tracks(m)
  BY <1>4, <1>6 DEF Good, Types, ImageTypes
<1>16. Good(m, tb, ct2, cl2)
  BY <1>8, <1>12, <1>14, <1>15 DEF Good, Sound
<1> QED BY <1>7, <1>16 DEF ct2, NameRemoved

-----------------------------------------------------------------------------
(* The steps of the driver *)

LEMMA FirstIs ==
    ASSUME NEW K \in SUBSET Idx
    PROVE  /\ First(K) \subseteq K
           /\ K # {} => First(K) # {}
<1>1. ASSUME K # {}
      PROVE  First(K) # {}
  <2> DEFINE R == OpToRel(<, Nat)
  <2>1. K \subseteq Nat /\ IsWellFoundedOn(R, Nat)
    BY Sets, NatLessThanWellFounded
  <2>2. \A j, k \in K : j < k => <<j, k>> \in R
    BY <2>1 DEF OpToRel
  <2> HIDE DEF R
  <2>3. PICK k \in K : \A j \in K : ~(<<j, k>> \in R)
    BY <1>1, <2>1, WFMin
  <2>4. ASSUME NEW j \in K PROVE k <= j
    <3>1. ~(j < k)
      BY <2>2, <2>3
    <3>2. j \in Nat /\ k \in Nat
      BY <2>1
    <3> QED BY <3>1, <3>2
  <2> QED BY <2>4 DEF First
<1> QED BY <1>1 DEF First

LEMMA LookupIs ==
    ASSUME Types(ctx, table, content, call), NEW n \in Names
    PROVE  /\ \A k \in Lookup(n) : /\ k \in Idx /\ DirCell(k).inode \in Inodes
                                   /\ Slot(table, content, k, n, DirCell(k).inode)
           /\ Lookup(n) = {} => \A i \in Inodes : ~Entry(table, content, n, i)
<1> DEFINE K == {k \in DirIdx : DirCell(k).kind = "entry" /\ DirCell(k).name = n}
<1>1. \A k \in DirIdx : DirCell(k) \in Cell
  <2> TAKE k \in DirIdx
  <2>1. table[Root].block[k] \in DataBlocks
    BY Sets DEF Types, DirIdx, Inode
  <2> QED BY <2>1 DEF Types, DirCell
<1>2. \A k \in K : k \in Idx /\ DirCell(k).inode \in Inodes
                   /\ Slot(table, content, k, n, DirCell(k).inode)
  <2> TAKE k \in K
  <2>1. DirCell(k).inode \in Inodes /\ DirCell(k) = EntryOf(n, DirCell(k).inode)
    BY <1>1, CellIs
  <2> QED BY <2>1 DEF DirIdx, DirCell, Slot
<1>3. \A i \in Inodes : Entry(table, content, n, i) => K # {}
  <2> SUFFICES ASSUME NEW i \in Inodes, NEW k \in Idx, Slot(table, content, k, n, i)
               PROVE  k \in K
    BY DEF Entry
  <2> QED BY DEF Slot, DirIdx, DirCell, EntryOf
<1>4. K \in SUBSET Idx /\ Lookup(n) = First(K)
  BY DEF DirIdx, Lookup
<1> HIDE DEF K
<1> QED BY <1>2, <1>3, <1>4, FirstIs

LEMMA FreeIs ==
    /\ \A i \in FreeInode : i \in Inodes \ ctx.inodes
    /\ \A b \in FreeBlock : b \in DataBlocks \ ctx.blocks
  BY DEF FreeInode, FreeBlock, FirstZero

\* What a callback under way, or one that may start, can rely on.
LEMMA WhileUp ==
    ASSUME FuseInv, phase = "up" \/ \E t \in Workers : Busy(t)
    PROVE  /\ phase = "up" /\ ~lost /\ Good(ctx, table, content, call)
           /\ Types(ctx, table, content, call) /\ Tracks(saved) /\ saved \in Metadata
<1>1. ~lost
  BY DEF FuseInv
<1>2. phase = "up" /\ Sound(ctx, table, content, call) /\ Tracks(ctx) /\ Tracks(saved)
  BY <1>1 DEF FuseInv, PhaseInv, Current
<1>3. Types(ctx, table, content, call) /\ saved \in Metadata
  BY DEF FuseInv, TypeOK, Types
<1> QED BY <1>1, <1>2, <1>3 DEF Good

LEMMA UpKeeps ==
    ASSUME FuseInv, phase = "up", ~lost, UNCHANGED <<saved, life>>,
           Good(ctx', table', content', call')
    PROVE  FuseInv'
<1>1. saved' = saved /\ phase' = "up" /\ ~lost' /\ lost' = lost
  BY DEF life
<1>2. TypeOK'
  BY <1>1, Sets DEF FuseInv, TypeOK, Good, Types
<1>3. Tracks(saved)' /\ Tracks(ctx)'
  BY <1>1 DEF FuseInv, PhaseInv, Good, Tracks
<1>4. PhaseInv'
  BY <1>1, <1>3 DEF PhaseInv
<1>5. Sound(Current, table, content, call)'
  BY <1>1 DEF Current, Good
<1> QED BY <1>1, <1>2, <1>4, <1>5 DEF FuseInv

DirStays == SameDir(table, content, table', content')

LEMMA Stays ==
    ASSUME UNCHANGED <<table, content>>
    PROVE  DirStays
  BY DEF DirStays, SameDir

LEMMA CreateKeeps ==
    ASSUME FuseInv, NEW t \in Workers, NEW n \in Names, Create(t, n)
    PROVE  FuseInv' /\ DirStays
<1> USE DEF Create
<1>1. phase = "up" /\ ~lost /\ Good(ctx, table, content, call) /\ Types(ctx, table, content, call)
  BY WhileUp
<1>2. CASE \E i \in FreeInode :
              /\ ctx' = WithInode(ctx, i)
              /\ table' = [table EXCEPT ![i] = EmptyInode]
              /\ call' = [call EXCEPT ![t] = Started("create", n, i, "entry")]
  <2>1. PICK i \in FreeInode :
              /\ ctx' = WithInode(ctx, i)
              /\ table' = [table EXCEPT ![i] = EmptyInode]
              /\ call' = [call EXCEPT ![t] = Started("create", n, i, "entry")]
    BY <1>2
  <2>2. i \in Inodes \ ctx.inodes
    BY FreeIs
  <2>3. \A u \in Workers : call[u].op \notin {"create", "unlink"}
    BY DEF DirBusy
  <2>4. \A j \in Inodes : ~Entry(table, content, n, j)
    BY <1>1, LookupIs
  <2>5. content' = content
    OBVIOUS
  <2>6. /\ Good(WithInode(ctx, i), [table EXCEPT ![i] = EmptyInode], content,
                [call EXCEPT ![t] = Started("create", n, i, "entry")])
        /\ SameDir(table, content, [table EXCEPT ![i] = EmptyInode], content)
    BY <1>1, <2>2, <2>3, <2>4, CreateStep
  <2>7. Good(ctx', table', content', call') /\ DirStays
    BY <2>1, <2>5, <2>6 DEF DirStays
  <2> QED BY <1>1, <2>7, UpKeeps
<1>3. CASE Return(t) /\ UNCHANGED <<table, ctx>>
  <2>1. Good(ctx', table', content', call')
    BY <1>1, <1>3, IdleStep DEF Return
  <2> QED BY <1>1, <1>3, <2>1, UpKeeps, Stays
<1> QED BY <1>2, <1>3

LEMMA AddDirEntryKeeps ==
    ASSUME FuseInv, NEW t \in Workers, AddDirEntry(t)
    PROVE  /\ FuseInv'
           /\ DirStays \/ \E k \in Idx : NameAdded(table, content, table', content', k, call[t].name, call[t].ino)
<1> DEFINE c == call[t]
<1>1. /\ phase = "up" /\ ~lost /\ Good(ctx, table, content, call) /\ Types(ctx, table, content, call)
      /\ c.op = "create" /\ c.at = "entry" /\ c \in Running /\ table' = table
      /\ UNCHANGED <<saved, life>>
  <2>1. c.op = "create" /\ c.at = "entry" /\ Busy(t) /\ table' = table /\ UNCHANGED <<saved, life>>
    BY DEF AddDirEntry, At, Busy
  <2>2. phase = "up" /\ ~lost /\ Good(ctx, table, content, call) /\ Types(ctx, table, content, call)
    BY <2>1, WhileUp
  <2> QED BY <2>1, <2>2, RootClaims DEF Runs
<1>2. CASE \E k \in Holes :
              /\ content' = [content EXCEPT ![table[Root].block[k]] = EntryOf(c.name, c.ino)]
              /\ Return(t)
              /\ UNCHANGED ctx
  <2>1. PICK k \in Holes :
              /\ content' = [content EXCEPT ![table[Root].block[k]] = EntryOf(c.name, c.ino)]
              /\ call' = [call EXCEPT ![t] = Idle]
              /\ ctx' = ctx
    BY <1>2 DEF Return
  <2>2. /\ k \in Idx /\ k < table[Root].size /\ table[Root].block[k] # NoBlock
        /\ content[table[Root].block[k]] = Hole
    <3>1. k \in DirIdx /\ DirCell(k).kind = "hole"
      BY DEF Holes, First
    <3>2. DirCell(k) \in Cell
      BY <3>1, <1>1, RootClaims DEF DirIdx, DirCell, Types
    <3> QED BY <3>1, <3>2, CellIs DEF DirIdx, DirCell
  <2>3. /\ Good(ctx, table, [content EXCEPT ![table[Root].block[k]] = EntryOf(c.name, c.ino)],
                [call EXCEPT ![t] = Idle])
        /\ NameAdded(table, content, table,
                     [content EXCEPT ![table[Root].block[k]] = EntryOf(c.name, c.ino)], k, c.name, c.ino)
    BY <1>1, <2>2, RefillStep
  <2>4. Good(ctx', table', content', call') /\ NameAdded(table, content, table', content', k, c.name, c.ino)
    BY <1>1, <2>1, <2>3
  <2> QED BY <1>1, <2>2, <2>4, UpKeeps
<1>3. CASE \E b \in FreeBlock :
              /\ Holes = {}
              /\ ctx' = WithBlock(ctx, b)
              /\ content' = [content EXCEPT ![b] = EntryOf(c.name, c.ino)]
              /\ call' = [call EXCEPT ![t].blk = b, ![t].at =
                             IF table[Root].size < DirectBlocks THEN "link" ELSE "undo"]
  <2>1. PICK b \in FreeBlock :
              /\ ctx' = WithBlock(ctx, b)
              /\ content' = [content EXCEPT ![b] = EntryOf(c.name, c.ino)]
              /\ call' = [call EXCEPT ![t].blk = b, ![t].at =
                             IF table[Root].size < DirectBlocks THEN "link" ELSE "undo"]
    BY <1>3
  <2> DEFINE x == [c EXCEPT !.blk = b, !.at = IF table[Root].size < DirectBlocks THEN "link" ELSE "undo"]
  <2>2. b \in DataBlocks \ ctx.blocks
    BY FreeIs
  <2>3. call' = [call EXCEPT ![t] = x]
    BY <2>1, <1>1 DEF Types
  <2>4. /\ x \in Running /\ x.op = "create" /\ x.name = c.name /\ x.ino = c.ino
        /\ x.inode = c.inode /\ x.blk = b
        /\ x.at = "undo" \/ (x.at = "link" /\ table[Root].size < DirectBlocks)
    BY <1>1, <2>2 DEF Running
  <2> HIDE DEF x
  <2>5. /\ Good(WithBlock(ctx, b), table, [content EXCEPT ![b] = EntryOf(c.name, c.ino)],
                [call EXCEPT ![t] = x])
        /\ SameDir(table, content, table, [content EXCEPT ![b] = EntryOf(c.name, c.ino)])
    BY <1>1, <2>2, <2>4, AddBlockStep
  <2>6. Good(ctx', table', content', call') /\ DirStays
    BY <1>1, <2>1, <2>3, <2>5 DEF DirStays
  <2> QED BY <1>1, <2>6, UpKeeps
<1>4. CASE /\ call' = [call EXCEPT ![t].at = "undo"]
           /\ UNCHANGED <<content, ctx>>
  <2> DEFINE x == [c EXCEPT !.at = "undo"]
  <2>1. call' = [call EXCEPT ![t] = x]
    BY <1>4, <1>1 DEF Types
  <2>2. /\ x \in Running /\ x.op = "create" /\ x.name = c.name /\ x.ino = c.ino
        /\ x.inode = c.inode /\ x.blk = c.blk /\ x.at = "undo"
    BY <1>1 DEF Running
  <2> HIDE DEF x
  <2>3. Good(ctx, table, content, [call EXCEPT ![t] = x])
    BY <1>1, <2>2, AddNoneStep
  <2>4. Good(ctx', table', content', call')
    BY <1>1, <1>4, <2>1, <2>3
  <2> QED BY <1>1, <1>4, <2>4, UpKeeps, Stays
<1> QED BY <1>2, <1>3, <1>4 DEF AddDirEntry

LEMMA LinkDirBlockKeeps ==
    ASSUME FuseInv, NEW t \in Workers, LinkDirBlock(t)
    PROVE  /\ FuseInv'
           /\ \E k \in Idx : NameAdded(table, content, table', content', k, call[t].name, call[t].ino)
<1> DEFINE c == call[t]
           k == table[Root].size
           r == [size |-> k + 1, block |-> [table[Root].block EXCEPT ![k] = c.blk]]
<1>1. /\ c.op = "create" /\ c.at = "link" /\ Busy(t) /\ content' = content /\ ctx' = ctx
      /\ UNCHANGED <<saved, life>> /\ call' = [call EXCEPT ![t] = Idle]
  BY DEF LinkDirBlock, At, Busy, Return
<1>2. phase = "up" /\ ~lost /\ Good(ctx, table, content, call) /\ Types(ctx, table, content, call)
  BY <1>1, WhileUp
<1>3. c \in Running /\ CreateInv(table, content, c)
  BY <1>1, <1>2, OwnInode DEF OneCallInv
<1>4. c.blk \in DataBlocks /\ k \in Idx /\ k \in Nat /\ table[Root] \in Inode /\ table[Root].block \in [Idx -> DataBlocks \cup {NoBlock}]
  BY <1>1, <1>2, <1>3, RootClaims, Sets DEF CreateInv, Types, Inode
<1>5. table' = [table EXCEPT ![Root] = r]
  <2>1. table \in [Inodes -> Inode] /\ Root \in Inodes
    BY <1>2, Sets DEF Types
  <2>2. [[table[Root] EXCEPT !.block[k] = c.blk] EXCEPT !.size = @ + 1] = r
    <3> DEFINE v == table[Root]
               f == [v.block EXCEPT ![k] = c.blk]
               y == [v EXCEPT !.block = f]
    <3>1. v \in [size : Nat, block : [Idx -> DataBlocks \cup {NoBlock}]]
      BY <1>4 DEF Inode
    <3>2. [v EXCEPT !.block[k] = c.blk] = y
      BY <3>1
    <3> HIDE DEF v, f
    <3>3. y = [size |-> v.size, block |-> f]
      BY <3>1
    <3> HIDE DEF y
    <3>4. [y EXCEPT !.size = @ + 1] = [size |-> v.size + 1, block |-> f]
      BY <3>3
    <3> QED BY <3>2, <3>4 DEF v, f
  <2>3. table' = [table EXCEPT ![Root] = [[table[Root] EXCEPT !.block[k] = c.blk] EXCEPT !.size = @ + 1]]
    BY <2>1 DEF LinkDirBlock
  <2> QED BY <2>2, <2>3
<1>6. /\ r \in Inode /\ r.size = k + 1
      /\ \A j \in Idx : r.block[j] = IF j = k THEN c.blk ELSE table[Root].block[j]
  <2>1. r.size = k + 1 /\ r.block = [table[Root].block EXCEPT ![k] = c.blk]
    BY <1>4 DEF Inode
  <2>2. r.block \in [Idx -> DataBlocks \cup {NoBlock}]
    BY <1>4, <2>1
  <2>3. k + 1 \in Nat
    BY <1>4
  <2>4. r \in Inode
    BY <2>1, <2>2, <2>3 DEF Inode
  <2> QED BY <1>4, <2>1, <2>4
<1> HIDE DEF r
<1>7. /\ Good(ctx, [table EXCEPT ![Root] = r], content, [call EXCEPT ![t] = Idle])
      /\ NameAdded(table, content, [table EXCEPT ![Root] = r], content, k, c.name, c.ino)
  BY <1>1, <1>2, <1>6, LinkStep
<1>8. Good(ctx', table', content', call') /\ NameAdded(table, content, table', content', k, c.name, c.ino)
  BY <1>1, <1>5, <1>7
<1> QED BY <1>1, <1>2, <1>4, <1>8, UpKeeps

LEMMA UndoCreateKeeps ==
    ASSUME FuseInv, NEW t \in Workers, UndoCreate(t)
    PROVE  FuseInv' /\ DirStays
<1>1. /\ call[t].op = "create" /\ Busy(t) /\ ctx' = WithoutInode(ctx, call[t].ino)
      /\ call' = [call EXCEPT ![t] = Idle] /\ UNCHANGED <<image, life>>
  BY DEF UndoCreate, At, Busy, Return
<1>2. phase = "up" /\ ~lost /\ Good(ctx, table, content, call)
  BY <1>1, WhileUp
<1>3. Good(WithoutInode(ctx, call[t].ino), table, content, [call EXCEPT ![t] = Idle])
  BY <1>1, <1>2, InodeFreedStep
<1>4. table' = table /\ content' = content /\ UNCHANGED <<saved, life>>
  BY <1>1 DEF image
<1>5. Good(ctx', table', content', call')
  BY <1>1, <1>3, <1>4
<1> QED BY <1>2, <1>4, <1>5, UpKeeps, Stays

LEMMA UnlinkKeeps ==
    ASSUME FuseInv, NEW t \in Workers, NEW n \in Names, Unlink(t, n)
    PROVE  /\ FuseInv'
           /\ \E k0 \in Idx, i \in Inodes :
                  Slot(table, content, k0, n, i) /\ NameRemoved(table, content, table', content', k0)
<1>1. phase = "up" /\ ~lost /\ Good(ctx, table, content, call) /\ Types(ctx, table, content, call)
  BY WhileUp DEF Unlink
<1>2. PICK k \in Lookup(n) :
          /\ content' = [content EXCEPT ![table[Root].block[k]] = Hole]
          /\ call' = [call EXCEPT ![t] = [Started("unlink", n, DirCell(k).inode, "free")
                                            EXCEPT !.inode = table[DirCell(k).inode]]]
  BY DEF Unlink
<1> DEFINE i == DirCell(k).inode
           x == [Started("unlink", n, i, "free") EXCEPT !.inode = table[i]]
<1>3. k \in Idx /\ i \in Inodes /\ Slot(table, content, k, n, i)
  BY <1>1, LookupIs
<1>4. UnlinkOf(table, x, n, i)
  <2>1. table[i] \in Inode
    BY <1>1, <1>3 DEF Types
  <2> QED BY <1>3, <2>1 DEF UnlinkOf, Started, Running
<1>5. call' = [call EXCEPT ![t] = x]
  BY <1>2
<1>6. NobodyOn(call, n)
  BY DEF Unlink, DirBusy, Using, Busy, Runs, NobodyOn
<1>7. ctx' = ctx /\ table' = table /\ UNCHANGED <<saved, life>>
  BY DEF Unlink
<1> HIDE DEF x, i
<1>8. /\ Good(ctx, table, [content EXCEPT ![table[Root].block[k]] = Hole], [call EXCEPT ![t] = x])
      /\ NameRemoved(table, content, table, [content EXCEPT ![table[Root].block[k]] = Hole], k)
  BY <1>1, <1>3, <1>4, <1>6, UnlinkStep
<1>9. /\ Good(ctx', table', content', call')
      /\ NameRemoved(table, content, table', content', k)
  BY <1>2, <1>5, <1>7, <1>8
<1>10. FuseInv'
  BY <1>1, <1>7, <1>9, UpKeeps
<1> QED BY <1>3, <1>9, <1>10

LEMMA FreeFileKeeps ==
    ASSUME FuseInv, NEW t \in Workers, FreeFile(t)
    PROVE  FuseInv' /\ DirStays
<1> DEFINE c   == call[t]
           set == {k \in Idx : c.inode.block[k] # NoBlock}
<1>1. c.op = "unlink" /\ Busy(t) /\ UNCHANGED <<saved, life>> /\ table' = table /\ content' = content
  BY DEF FreeFile, At, Busy, image
<1>2. phase = "up" /\ ~lost /\ Good(ctx, table, content, call) /\ call \in [Workers -> Call]
  BY <1>1, WhileUp DEF Types
<1>3. c \in Running
  BY <1>1, <1>2, OwnInode
<1>4. CASE \E k \in First(set) :
              /\ ctx' = WithoutBlock(ctx, c.inode.block[k])
              /\ call' = [call EXCEPT ![t].inode.block[k] = NoBlock]
  <2>1. PICK k \in First(set) :
              /\ ctx' = WithoutBlock(ctx, c.inode.block[k])
              /\ call' = [call EXCEPT ![t].inode.block[k] = NoBlock]
    BY <1>4
  <2>2. k \in Idx /\ c.inode.block[k] # NoBlock
    BY DEF First
  <2> DEFINE f == [c.inode.block EXCEPT ![k] = NoBlock]
             y == [c.inode EXCEPT !.block = f]
             x == [c EXCEPT !.inode = y]
  <2>3. c.inode \in Inode /\ c.inode.block \in [Idx -> DataBlocks \cup {NoBlock}]
    BY <1>3 DEF Running, Inode
  <2>4. call' = [call EXCEPT ![t] = x]
    BY <2>1, <1>2
  <2>5. f \in [Idx -> DataBlocks \cup {NoBlock}] /\ f[k] = NoBlock /\ \A l \in Idx \ {k} : f[l] = c.inode.block[l]
    BY <2>2, <2>3
  <2> HIDE DEF f
  <2>6. y \in Inode /\ y.block = f /\ y.size = c.inode.size
    BY <2>3, <2>5 DEF Inode
  <2> HIDE DEF y
  <2>7. /\ x \in Running /\ x.op = "unlink" /\ x.name = c.name /\ x.ino = c.ino /\ x.at = c.at
        /\ x.blk = c.blk /\ x.inode = y
    BY <1>1, <1>3, <2>6 DEF Running
  <2>8. /\ x.inode.size = c.inode.size /\ x.inode.block[k] = NoBlock
        /\ \A l \in Idx \ {k} : x.inode.block[l] = c.inode.block[l]
    BY <2>5, <2>6, <2>7
  <2> HIDE DEF x
  <2>9. Good(WithoutBlock(ctx, c.inode.block[k]), table, content, [call EXCEPT ![t] = x])
    BY <1>1, <1>2, <2>2, <2>7, <2>8, BlockFreedStep
  <2>10. Good(ctx', table', content', call')
    BY <1>1, <2>1, <2>4, <2>9
  <2> QED BY <1>1, <1>2, <2>10, UpKeeps, Stays
<1>5. CASE ctx' = WithoutInode(ctx, c.ino) /\ Return(t)
  <2>1. Good(WithoutInode(ctx, c.ino), table, content, [call EXCEPT ![t] = Idle])
    BY <1>1, <1>2, InodeFreedStep
  <2>2. Good(ctx', table', content', call')
    BY <1>1, <1>5, <2>1 DEF Return
  <2> QED BY <1>1, <1>2, <2>2, UpKeeps, Stays
<1> QED BY <1>4, <1>5 DEF FreeFile

LEMMA WriteKeeps ==
    ASSUME FuseInv, NEW t \in Workers, NEW n \in Names, NEW z \in Extents, Write(t, n, z[1], z[2])
    PROVE  FuseInv' /\ DirStays
<1>1. phase = "up" /\ ~lost /\ Good(ctx, table, content, call) /\ Types(ctx, table, content, call)
  BY WhileUp DEF Write
<1>2. PICK k \in Lookup(n) :
          call' = [call EXCEPT ![t] = [Started("write", n, DirCell(k).inode, "block")
                                         EXCEPT !.inode = table[DirCell(k).inode], !.k = z[1], !.to = z[2]]]
  BY DEF Write
<1> DEFINE i == DirCell(k).inode
           x == [Started("write", n, i, "block") EXCEPT !.inode = table[i], !.k = z[1], !.to = z[2]]
<1>3. i \in Inodes /\ Entry(table, content, n, i)
  BY <1>1, LookupIs DEF Entry
<1>4. /\ x \in Running /\ x.op = "write" /\ x.name = n /\ x.ino = i /\ x.at = "block"
      /\ x.inode = table[i] /\ x.blk = NoBlock /\ x.k <= x.to
  <2>1. table[i] \in Inode /\ z[1] \in Nat /\ z[2] \in Nat /\ z[1] <= z[2]
    BY <1>1, <1>3 DEF Types
  <2> QED BY <1>3, <2>1 DEF Started, Running
<1>5. call' = [call EXCEPT ![t] = x]
  BY <1>2
<1> HIDE DEF x, i
<1>6. Apart(call, t, x)
  <2>1. \A u \in Workers : ~(call[u].op = "write" /\ call[u].name = n)
    BY DEF Write, Writing, Using, Busy
  <2> QED BY <1>4, <2>1 DEF Apart, Exclude
<1>7. Good(ctx, table, content, [call EXCEPT ![t] = x])
  BY <1>1, <1>3, <1>4, <1>6, OpenStep
<1>8. ctx' = ctx /\ table' = table /\ content' = content /\ UNCHANGED <<saved, life>>
  BY DEF Write, image
<1>9. Good(ctx', table', content', call')
  BY <1>5, <1>7, <1>8
<1> QED BY <1>1, <1>8, <1>9, UpKeeps, Stays

LEMMA ReadKeeps ==
    ASSUME FuseInv, NEW t \in Workers, NEW n \in Names, Read(t, n)
    PROVE  FuseInv' /\ DirStays
<1>1. phase = "up" /\ ~lost /\ Good(ctx, table, content, call) /\ Types(ctx, table, content, call)
  BY WhileUp DEF Read
<1>2. PICK k \in Lookup(n) :
          call' = [call EXCEPT ![t] = [Started("read", n, DirCell(k).inode, "record")
                                         EXCEPT !.inode = table[DirCell(k).inode]]]
  BY DEF Read
<1> DEFINE i == DirCell(k).inode
           x == [Started("read", n, i, "record") EXCEPT !.inode = table[i]]
<1>3. i \in Inodes /\ Entry(table, content, n, i)
  BY <1>1, LookupIs DEF Entry
<1>4. /\ x \in Running /\ x.op = "read" /\ x.name = n /\ x.ino = i /\ x.at = "record"
      /\ x.inode = table[i] /\ x.blk = NoBlock
  <2>1. table[i] \in Inode
    BY <1>1, <1>3 DEF Types
  <2> QED BY <1>3, <2>1 DEF Started, Running
<1>5. call' = [call EXCEPT ![t] = x]
  BY <1>2
<1> HIDE DEF x, i
<1>6. Apart(call, t, x)
  BY <1>4 DEF Apart, Exclude
<1>7. Good(ctx, table, content, [call EXCEPT ![t] = x])
  BY <1>1, <1>3, <1>4, <1>6, OpenStep
<1>8. ctx' = ctx /\ table' = table /\ content' = content /\ UNCHANGED <<saved, life>>
  BY DEF Read, image
<1>9. Good(ctx', table', content', call')
  BY <1>5, <1>7, <1>8
<1> QED BY <1>1, <1>8, <1>9, UpKeeps, Stays

LEMMA RecordWriteKeeps ==
    ASSUME FuseInv, NEW t \in Workers, RecordWrite(t)
    PROVE  FuseInv' /\ DirStays
<1> DEFINE c == call[t]
           v == [c.inode EXCEPT !.size = IF c.to + 1 > @ THEN c.to + 1 ELSE @]
<1>1. /\ c.op = "write" /\ c.at = "record" /\ Busy(t) /\ ctx' = ctx /\ content' = content
      /\ UNCHANGED <<saved, life>> /\ call' = [call EXCEPT ![t] = Idle]
      /\ table' = [table EXCEPT ![c.ino] = v]
  BY DEF RecordWrite, At, Busy, Return
<1>2. phase = "up" /\ ~lost /\ Good(ctx, table, content, call) /\ Runs(c)
  BY <1>1, WhileUp DEF Busy, Runs
<1>3. c \in Running /\ OneCallInv(ctx, table, content, c)
  BY <1>2, RootClaims DEF Good, Sound, CallsInv
<1>4. c.to \in Idx /\ c.inode.size <= DirectBlocks /\ c.inode \in Inode
  BY <1>1, <1>3 DEF OneCallInv, WriteInv, Running
<1>5. v \in Inode /\ v.block = c.inode.block /\ v.size <= DirectBlocks
  <2> DEFINE d == c.inode
             s == IF c.to + 1 > d.size THEN c.to + 1 ELSE d.size
  <2>1. c.to + 1 \in Nat /\ c.to + 1 <= DirectBlocks
    BY <1>4, Sets DEF Idx
  <2>2. d \in Inode /\ d.size \in Nat /\ d.size <= DirectBlocks
    BY <1>4 DEF Inode
  <2>3. s \in Nat /\ s <= DirectBlocks
    BY <2>1, <2>2
  <2>4. v = [d EXCEPT !.size = s]
    BY DEF v
  <2> HIDE DEF d, s, v
  <2>5. v \in Inode /\ v.block = d.block /\ v.size = s
    BY <2>2, <2>3, <2>4 DEF Inode
  <2> QED BY <2>3, <2>5 DEF d
<1> HIDE DEF v
<1>6. /\ Good(ctx, [table EXCEPT ![c.ino] = v], content, [call EXCEPT ![t] = Idle])
      /\ SameDir(table, content, [table EXCEPT ![c.ino] = v], content)
  BY <1>1, <1>2, <1>5, RecordStep
<1>7. Good(ctx', table', content', call') /\ DirStays
  BY <1>1, <1>6 DEF DirStays
<1> QED BY <1>1, <1>2, <1>7, UpKeeps

LEMMA RecordReadKeeps ==
    ASSUME FuseInv, NEW t \in Workers, RecordRead(t)
    PROVE  FuseInv' /\ DirStays
<1> DEFINE c == call[t]
<1>1. /\ c.op = "read" /\ Busy(t) /\ ctx' = ctx /\ content' = content
      /\ UNCHANGED <<saved, life>> /\ call' = [call EXCEPT ![t] = Idle]
      /\ table' = [table EXCEPT ![c.ino] = c.inode]
  BY DEF RecordRead, At, Busy, Return
<1>2. phase = "up" /\ ~lost /\ Good(ctx, table, content, call) /\ Runs(c)
  BY <1>1, WhileUp DEF Busy, Runs
<1>3. c \in Running /\ OneCallInv(ctx, table, content, c)
  BY <1>2, RootClaims DEF Good, Sound, CallsInv
<1>4. c.inode.size <= DirectBlocks /\ c.inode \in Inode
  BY <1>3 DEF OneCallInv, Running
<1>5. /\ Good(ctx, [table EXCEPT ![c.ino] = c.inode], content, [call EXCEPT ![t] = Idle])
      /\ SameDir(table, content, [table EXCEPT ![c.ino] = c.inode], content)
  BY <1>1, <1>2, <1>4, RecordStep
<1>6. Good(ctx', table', content', call') /\ DirStays
  BY <1>1, <1>5 DEF DirStays
<1> QED BY <1>1, <1>2, <1>6, UpKeeps

LEMMA WriteBlockKeeps ==
    ASSUME FuseInv, NEW t \in Workers, WriteBlock(t)
    PROVE  FuseInv' /\ DirStays
<1> DEFINE c    == call[t]
           next == IF c.k = c.to THEN [c EXCEPT !.at = "record"] ELSE [c EXCEPT !.k = @ + 1]
<1>1. c.op = "write" /\ c.at = "block" /\ Busy(t) /\ table' = table /\ UNCHANGED <<saved, life>>
  BY DEF WriteBlock, At, Busy
<1>2. phase = "up" /\ ~lost /\ Good(ctx, table, content, call) /\ Runs(c)
  BY <1>1, WhileUp DEF Busy, Runs
<1>3. c \in Running /\ OneCallInv(ctx, table, content, c) /\ call \in [Workers -> Call]
  BY <1>2, RootClaims DEF Good, Sound, CallsInv, Types
<1>4. /\ c.k <= c.to /\ c.blk = NoBlock /\ c.ino \in Inodes \ {Root} /\ c.k \in Nat /\ c.to \in Nat
      /\ c.inode \in Inode
  BY <1>1, <1>3 DEF OneCallInv, WriteInv, Running
<1>5. /\ next \in Running /\ next.op = "write" /\ next.name = c.name /\ next.ino = c.ino
      /\ next.blk = NoBlock /\ next.inode = c.inode
      /\ c.k \in Idx => \/ next.at = "block" /\ next.k <= next.to
                        \/ next.at = "record" /\ next.to \in Idx
  <2>1. CASE c.k = c.to
    BY <2>1, <1>1, <1>3, <1>4 DEF Running
  <2>2. CASE c.k # c.to
    BY <2>2, <1>1, <1>3, <1>4 DEF Running
  <2> QED BY <2>1, <2>2
<1> HIDE DEF next
<1>6. CASE /\ BlockAt(c) # NoBlock
           /\ content' = [content EXCEPT ![BlockAt(c)] = Data]
           /\ call' = [call EXCEPT ![t] = next]
           /\ UNCHANGED ctx
  <2> DEFINE b == BlockAt(c)
  <2>1. c.k \in Idx /\ b = c.inode.block[c.k] /\ b \in DataBlocks
    BY <1>4, <1>6 DEF BlockAt, Inode
  <2>2. Elsewhere(ctx, table, content, call, b)
    BY <1>2, <1>4, <2>1, Sets DEF Elsewhere, Claim, CallClaim, InCopy
  <2> HIDE DEF b
  <2>3. MarksMore(ctx, ctx, NoBlock)
    BY <1>2, MarksSame
  <2>4. AdvanceOf(c, next, 0, NoBlock)
    BY <1>5, <2>1 DEF AdvanceOf
  <2>5. /\ Good(ctx, table, [content EXCEPT ![b] = Data], [call EXCEPT ![t] = next])
        /\ SameDir(table, content, table, [content EXCEPT ![b] = Data])
    BY <1>1, <1>2, <2>1, <2>2, <2>3, <2>4, AdvanceStep
  <2>6. Good(ctx', table', content', call') /\ DirStays
    BY <1>1, <1>6, <2>5 DEF DirStays, b
  <2> QED BY <1>1, <1>2, <2>6, UpKeeps
<1>7. CASE \E b \in FreeBlock :
              /\ BlockAt(c) = NoBlock /\ c.k \in Idx
              /\ ctx' = WithBlock(ctx, b)
              /\ content' = [content EXCEPT ![b] = Data]
              /\ call' = [call EXCEPT ![t] = [next EXCEPT !.inode.block[c.k] = b]]
  <2>1. PICK b \in FreeBlock :
              /\ c.k \in Idx
              /\ ctx' = WithBlock(ctx, b)
              /\ content' = [content EXCEPT ![b] = Data]
              /\ call' = [call EXCEPT ![t] = [next EXCEPT !.inode.block[c.k] = b]]
    BY <1>7
  <2> DEFINE f == [c.inode.block EXCEPT ![c.k] = b]
             y == [c.inode EXCEPT !.block = f]
             x == [next EXCEPT !.inode = y]
  <2>2. b \in DataBlocks \ ctx.blocks /\ c.inode.block \in [Idx -> DataBlocks \cup {NoBlock}]
    BY <1>4, FreeIs DEF Inode
  <2>3. call' = [call EXCEPT ![t] = x]
    BY <2>1, <1>5
  <2>4. f \in [Idx -> DataBlocks \cup {NoBlock}] /\ \A k \in Idx : f[k] = c.inode.block[k] \/ (k = c.k /\ f[k] = b)
    BY <2>2
  <2> HIDE DEF f
  <2>5. y \in Inode /\ y.block = f /\ y.size = c.inode.size
    BY <1>4, <2>4 DEF Inode
  <2> HIDE DEF y
  <2>6. /\ x \in Running /\ x.op = "write" /\ x.name = c.name /\ x.ino = c.ino /\ x.blk = NoBlock
        /\ x.inode = y /\ x.at = next.at /\ x.k = next.k /\ x.to = next.to
    BY <1>5, <2>5 DEF Running
  <2> HIDE DEF x
  <2>7. AdvanceOf(c, x, c.k, b)
    <3>1. \A k \in Idx : x.inode.block[k] = c.inode.block[k] \/ (k = c.k /\ x.inode.block[k] = b)
      BY <2>4, <2>5, <2>6
    <3>2. \/ x.at = "block" /\ x.k <= x.to
          \/ x.at = "record" /\ x.to \in Idx
      BY <1>5, <2>1, <2>6
    <3> QED BY <2>5, <2>6, <3>1, <3>2 DEF AdvanceOf
  <2>8. MarksMore(ctx, WithBlock(ctx, b), b) /\ Elsewhere(ctx, table, content, call, b)
    BY <1>2, <2>2, MarksBlock DEF Elsewhere
  <2>9. /\ Good(WithBlock(ctx, b), table, [content EXCEPT ![b] = Data], [call EXCEPT ![t] = x])
        /\ SameDir(table, content, table, [content EXCEPT ![b] = Data])
    BY <1>1, <1>2, <2>2, <2>7, <2>8, AdvanceStep
  <2>10. Good(ctx', table', content', call') /\ DirStays
    BY <1>1, <2>1, <2>3, <2>9 DEF DirStays
  <2> QED BY <1>1, <1>2, <2>10, UpKeeps
<1>8. CASE \E b \in FreeBlock :
              /\ BlockAt(c) = NoBlock /\ c.k \notin Idx
              /\ ctx' = WithBlock(ctx, b)
              /\ content' = [content EXCEPT ![b] = Hole]
              /\ Return(t)
  <2>1. PICK b \in FreeBlock :
              /\ ctx' = WithBlock(ctx, b)
              /\ content' = [content EXCEPT ![b] = Hole]
              /\ call' = [call EXCEPT ![t] = Idle]
    BY <1>8 DEF Return
  <2>2. /\ Good(WithBlock(ctx, b), table, [content EXCEPT ![b] = Hole], [call EXCEPT ![t] = Idle])
        /\ SameDir(table, content, table, [content EXCEPT ![b] = Hole])
    BY <1>2, FreeIs, StrandStep
  <2>3. Good(ctx', table', content', call') /\ DirStays
    BY <1>1, <2>1, <2>2 DEF DirStays
  <2> QED BY <1>1, <1>2, <2>3, UpKeeps
<1>9. CASE Return(t) /\ UNCHANGED <<content, ctx>>
  <2>1. Good(ctx', table', content', call')
    BY <1>1, <1>2, <1>9, IdleStep DEF Return
  <2> QED BY <1>1, <1>2, <1>9, <2>1, UpKeeps, Stays
<1> QED BY <1>6, <1>7, <1>8, <1>9 DEF WriteBlock, next

-----------------------------------------------------------------------------
(* Mount, unmount, death, fsck *)

\* What is sound with callbacks under way is sound without them, and does not
\* depend on the counters.
LEMMA SoundWithoutCalls ==
    ASSUME NEW m, NEW tb, NEW ct, NEW cl, Sound(m, tb, ct, cl), NEW m2,
           m2.inodes = m.inodes, m2.blocks = m.blocks,
           NEW cl2, \A t \in Workers : cl2[t] = cl[t] \/ cl2[t] = Idle
    PROVE  Sound(m2, tb, ct, cl2)
<1>1. \A i, k, b : Claim(tb, ct, cl2, i, k, b) => Claim(tb, ct, cl, i, k, b)
  BY CallIs DEF Claim, CallClaim, InCopy, NewInDir
<1>2. ClaimsInv(m2, tb, ct, cl2)
  BY <1>1 DEF Sound, ClaimsInv
<1>3. DirInv(m2, tb, ct)
  BY DEF Sound, DirInv
<1>4. CallsInv(m2, tb, ct, cl2)
  <2>1. \A t \in Workers : Runs(cl2[t]) => OneCallInv(m2, tb, ct, cl2[t])
    BY CallIs DEF Sound, CallsInv, OneCallInv
  <2>2. \A t, u \in Workers : Exclude(cl2[t], cl2[u]) => t = u
    BY DEF Sound, CallsInv, Exclude, Idle
  <2> QED BY <2>1, <2>2 DEF CallsInv
<1> QED BY <1>2, <1>3, <1>4 DEF Sound

LEMMA TracksBits ==
    ASSUME NEW m, Tracks(m), NEW m2, m2.inodes = m.inodes, m2.blocks = m.blocks,
           m2.free_inodes = m.free_inodes, m2.free_blocks = m.free_blocks
    PROVE  Tracks(m2)
  BY DEF Tracks

LEMMA MountKeeps ==
    ASSUME FuseInv, Mount
    PROVE  FuseInv'
<1>1. /\ phase = "down" /\ ~lost /\ ctx' = saved /\ phase' = "up"
      /\ saved' = saved /\ table' = table /\ content' = content /\ call' = call /\ lost' = lost
  BY DEF Mount, image
<1>2. TypeOK'
  BY <1>1 DEF FuseInv, TypeOK
<1>3. Sound(Current, table, content, call)'
  BY <1>1 DEF FuseInv, Current
<1>4. Tracks(saved)' /\ Tracks(ctx)'
  BY <1>1 DEF FuseInv, PhaseInv, Tracks
<1>5. PhaseInv'
  BY <1>1, <1>4 DEF PhaseInv
<1> QED BY <1>1, <1>2, <1>3, <1>5 DEF FuseInv

LEMMA UnmountKeeps ==
    ASSUME FuseInv, Unmount
    PROVE  FuseInv'
<1>1. /\ phase = "up" /\ phase' = "sb" /\ \A t \in Workers : ~Busy(t)
      /\ saved' = [saved EXCEPT !.free_inodes = ctx.free_inodes, !.free_blocks = ctx.free_blocks]
      /\ ctx' = ctx /\ table' = table /\ content' = content /\ call' = call /\ lost' = lost
  BY DEF Unmount
<1>2. ~lost /\ Tracks(ctx) /\ Sound(ctx, table, content, call)
  BY <1>1 DEF FuseInv, PhaseInv, Current
<1>3. saved \in Metadata /\ ctx \in Metadata
  BY DEF FuseInv, TypeOK
<1>4. /\ saved' \in Metadata
      /\ saved'.free_inodes = ctx.free_inodes /\ saved'.free_blocks = ctx.free_blocks
  BY <1>1, <1>3 DEF Metadata
<1>5. TypeOK'
  BY <1>1, <1>4 DEF FuseInv, TypeOK
<1>6. Sound(Current, table, content, call)'
  BY <1>1, <1>2 DEF Current
<1>7. PhaseInv'
  BY <1>1, <1>2, <1>4 DEF PhaseInv, Busy, Tracks
<1> QED BY <1>1, <1>2, <1>5, <1>6, <1>7 DEF FuseInv

LEMMA SyncInodesKeeps ==
    ASSUME FuseInv, SyncInodes
    PROVE  FuseInv'
<1>1. /\ phase = "sb" /\ phase' = "inodes" /\ saved' = [saved EXCEPT !.inodes = ctx.inodes]
      /\ ctx' = ctx /\ table' = table /\ content' = content /\ call' = call /\ lost' = lost
  BY DEF SyncInodes
<1>2. ~lost /\ PhaseInv /\ Sound(ctx, table, content, call)
  BY <1>1 DEF FuseInv, Current
<1>3. saved \in Metadata /\ ctx \in Metadata
  BY DEF FuseInv, TypeOK
<1>4. /\ saved' \in Metadata /\ saved'.inodes = ctx.inodes
      /\ saved'.free_inodes = saved.free_inodes /\ saved'.free_blocks = saved.free_blocks
  BY <1>1, <1>3 DEF Metadata
<1>5. TypeOK'
  BY <1>1, <1>4 DEF FuseInv, TypeOK
<1>6. Sound(Current, table, content, call)'
  BY <1>1, <1>2 DEF Current
<1>7. PhaseInv'
  BY <1>1, <1>2, <1>4 DEF PhaseInv, Busy, Tracks
<1> QED BY <1>1, <1>2, <1>5, <1>6, <1>7 DEF FuseInv

LEMMA SyncBlocksKeeps ==
    ASSUME FuseInv, SyncBlocks
    PROVE  FuseInv'
<1>1. /\ phase = "inodes" /\ phase' = "down" /\ saved' = [saved EXCEPT !.blocks = ctx.blocks]
      /\ ctx' = ctx /\ table' = table /\ content' = content /\ call' = call /\ lost' = lost
  BY DEF SyncBlocks
<1>2. ~lost /\ PhaseInv /\ Sound(ctx, table, content, call)
  BY <1>1 DEF FuseInv, Current
<1>3. saved \in Metadata /\ ctx \in Metadata
  BY DEF FuseInv, TypeOK
<1>4. /\ saved' \in Metadata /\ saved'.blocks = ctx.blocks /\ saved'.inodes = ctx.inodes
      /\ saved'.free_inodes = ctx.free_inodes /\ saved'.free_blocks = ctx.free_blocks
  BY <1>1, <1>2, <1>3 DEF Metadata, PhaseInv
<1>5. TypeOK'
  BY <1>1, <1>4 DEF FuseInv, TypeOK
<1>6. Sound(saved', table, content, call)
  BY <1>2, <1>4, SoundWithoutCalls
<1>7. Sound(Current, table, content, call)'
  BY <1>1, <1>6 DEF Current
<1>8. Tracks(saved')
  BY <1>1, <1>2, <1>4, TracksBits DEF PhaseInv
<1>9. PhaseInv'
  BY <1>1, <1>2, <1>8 DEF PhaseInv, Busy, Tracks
<1> QED BY <1>1, <1>2, <1>5, <1>7, <1>9 DEF FuseInv

LEMMA DeathKeeps ==
    ASSUME FuseInv, Death
    PROVE  FuseInv'
<1>1. /\ phase # "down" /\ phase' = "down" /\ ctx' = saved
      /\ lost' = (saved.inodes # ctx.inodes \/ saved.blocks # ctx.blocks)
      /\ call' = [t \in Workers |-> Idle]
      /\ saved' = saved /\ table' = table /\ content' = content
  BY DEF Death, image
<1>2. ~lost /\ PhaseInv /\ Sound(ctx, table, content, call)
  BY <1>1 DEF FuseInv, Current
<1>3. \A t \in Workers : call'[t] = Idle
  BY <1>1
<1>4. TypeOK'
  BY <1>1, CallIs DEF FuseInv, TypeOK
<1>5. \A t \in Workers : ~Busy(t)'
  BY <1>3 DEF Busy, Idle
<1>6. ASSUME ~lost'
      PROVE  Sound(Current, table, content, call)' /\ PhaseInv'
  <2>1. saved.inodes = ctx.inodes /\ saved.blocks = ctx.blocks
    BY <1>1, <1>6
  <2>2. Sound(saved, table, content, call')
    BY <1>2, <1>3, <2>1, SoundWithoutCalls
  <2>3. phase \in {"up", "sb", "inodes"}
    BY <1>1 DEF FuseInv, TypeOK
  <2>4. Tracks(saved)
    <3>1. CASE phase = "up"
      BY <3>1, <1>2 DEF PhaseInv
    <3>2. CASE phase \in {"sb", "inodes"}
      BY <3>2, <1>2, <2>1, TracksBits DEF PhaseInv
    <3> QED BY <2>3, <3>1, <3>2
  <2>5. PhaseInv'
    BY <1>1, <1>5, <2>4 DEF PhaseInv, Tracks
  <2> QED BY <1>1, <2>2, <2>5 DEF Current
<1> QED BY <1>1, <1>4, <1>5, <1>6 DEF FuseInv

LEMMA FsckKeeps ==
    ASSUME FuseInv, Fsck
    PROVE  FuseInv'
<1>1. /\ phase = "down" /\ saved' = [saved EXCEPT !.free_inodes = Cardinality(Inodes \ saved.inodes)]
      /\ ctx' = ctx /\ table' = table /\ content' = content /\ call' = call /\ lost' = lost
      /\ phase' = phase
  BY DEF Fsck
<1>2. saved \in Metadata
  BY DEF FuseInv, TypeOK
<1>3. Cardinality(Inodes \ saved.inodes) \in 0 .. TotalInodes
  <2>1. Cardinality(Inodes \ saved.inodes) \in Nat /\ Cardinality(Inodes \ saved.inodes) <= Cardinality(Inodes)
    BY Sets, CountBound
  <2> QED BY <2>1, Sets
<1>4. /\ saved' \in Metadata /\ saved'.inodes = saved.inodes /\ saved'.blocks = saved.blocks
      /\ saved'.free_blocks = saved.free_blocks
      /\ saved'.free_inodes = Cardinality(Inodes \ saved.inodes)
  BY <1>1, <1>2, <1>3 DEF Metadata
<1>5. TypeOK'
  BY <1>1, <1>4 DEF FuseInv, TypeOK
<1>6. lost' => phase' = "down" /\ \A t \in Workers : ~Busy(t)'
  BY <1>1 DEF FuseInv, Busy
<1>7. ASSUME ~lost
      PROVE  Sound(Current, table, content, call)' /\ PhaseInv'
  <2>1. Sound(saved, table, content, call) /\ PhaseInv
    BY <1>1, <1>7 DEF FuseInv, Current
  <2>2. Sound(saved', table, content, call)
    BY <2>1, <1>4, SoundWithoutCalls
  <2>3. Tracks(saved')
    BY <1>1, <1>3, <1>4, <2>1 DEF PhaseInv, Tracks
  <2>4. PhaseInv'
    BY <1>1, <2>1, <2>3 DEF PhaseInv, Busy, Tracks
  <2> QED BY <1>1, <2>2, <2>4 DEF Current
<1> QED BY <1>1, <1>5, <1>6, <1>7 DEF FuseInv

-----------------------------------------------------------------------------
(* The invariant *)

LEMMA InitFuse ==
    ASSUME Init
    PROVE  FuseInv
<1> DEFINE f == [EmptyInode.block EXCEPT ![0] = DataStart]
           r == [size |-> 1, block |-> f]
<1>1. /\ saved = [inodes |-> {0, Root}, blocks |-> {DataStart},
                  free_inodes |-> TotalInodes - 1, free_blocks |-> TotalBlocks - DataStart - 1]
      /\ ctx = saved /\ phase = "down" /\ ~lost /\ lost = FALSE
      /\ call = [t \in Workers |-> Idle]
      /\ content = [b \in DataBlocks |-> IF b = DataStart THEN Dots ELSE Hole]
      /\ table = [i \in Inodes |-> IF i = Root THEN r ELSE EmptyInode]
  BY DEF Init
<1>2. /\ f \in [Idx -> DataBlocks \cup {NoBlock}] /\ f[0] = DataStart
      /\ \A k \in Idx \ {0} : f[k] = NoBlock
  BY Sets, EmptyIs DEF EmptyInode
<1> HIDE DEF f
<1>3. r \in Inode /\ r.size = 1 /\ r.block = f
  BY <1>2 DEF Inode
<1> HIDE DEF r
<1>4. /\ table \in [Inodes -> Inode] /\ table[Root] = r
      /\ \A i \in Inodes : table[i].size <= DirectBlocks
  <2>1. DirectBlocks >= 1
    BY Sets
  <2> QED BY <1>1, <1>3, <2>1, EmptyIs, Sets
<1>5. content \in [DataBlocks -> Cell]
  BY <1>1 DEF Cell
<1>6. call \in [Workers -> Call] /\ \A t \in Workers : call[t] = Idle
  BY <1>1, CallIs
<1>7. /\ Cardinality(DataBlocks) = TotalBlocks - DataStart /\ IsFiniteSet(DataBlocks)
      /\ Cardinality(DataBlocks \ {DataStart}) = TotalBlocks - DataStart - 1
  <2>1. Cardinality(DataBlocks) = TotalBlocks - DataStart /\ IsFiniteSet(DataBlocks)
    BY FS_Interval DEF DataBlocks
  <2> QED BY <2>1, Sets, FS_RemoveElement
<1>8. Cardinality(Inodes \ {0, Root}) = TotalInodes - 2
  <2>1. Cardinality(Inodes \ {0}) = TotalInodes - 1 /\ IsFiniteSet(Inodes \ {0})
    BY Sets, FS_RemoveElement
  <2>2. Cardinality((Inodes \ {0}) \ {Root}) = TotalInodes - 1 - 1
    <3>1. Root \in Inodes \ {0}
      BY Sets
    <3>2. Cardinality((Inodes \ {0}) \ {Root}) = Cardinality(Inodes \ {0}) - 1
      BY <2>1, <3>1, FS_RemoveElement
    <3> QED BY <2>1, <3>2
  <2>3. Inodes \ {0, Root} = (Inodes \ {0}) \ {Root}
    OBVIOUS
  <2> QED BY <2>2, <2>3
<1>9. saved \in Metadata
  BY <1>1, <1>7, Sets DEF Metadata
<1>10. Tracks(saved)
  BY <1>1, <1>7, <1>8 DEF Tracks
<1>11. \A k, n, i : ~Slot(table, content, k, n, i)
  <2> SUFFICES ASSUME NEW k, NEW n, NEW i, Slot(table, content, k, n, i)
               PROVE  FALSE
    OBVIOUS
  <2>1. k = 0 /\ content[table[Root].block[k]] = EntryOf(n, i)
    BY <1>2, <1>3, <1>4 DEF Slot
  <2>2. content[DataStart] = Dots
    BY <1>1, Sets
  <2> QED BY <2>1, <2>2, <1>2, <1>3, <1>4 DEF Dots, EntryOf
<1>12. \A i, k : \A b \in DataBlocks : Claim(table, content, call, i, k, b) => i = Root /\ k = 0 /\ b = DataStart
  BY <1>2, <1>3, <1>4, <1>6, <1>11, CallIs, Sets DEF Claim, OnImage, Entry, CallClaim, InCopy, NewInDir
<1>13. ClaimsInv(saved, table, content, call)
  BY <1>1, <1>12 DEF ClaimsInv
<1>14. DirInv(saved, table, content)
  BY <1>1, <1>11 DEF DirInv
<1>15. CallsInv(saved, table, content, call)
  BY <1>6, CallIs DEF CallsInv, Exclude, Idle
<1>16. TypeOK
  BY <1>1, <1>4, <1>5, <1>6, <1>9, Sets DEF TypeOK
<1>17. PhaseInv
  BY <1>1, <1>6, <1>10 DEF PhaseInv, Busy, Idle
<1>18. Sound(Current, table, content, call)
  BY <1>1, <1>13, <1>14, <1>15 DEF Sound, Current
<1> QED BY <1>1, <1>16, <1>17, <1>18 DEF FuseInv

LEMMA NextFuse ==
    ASSUME FuseInv, [Next]_vars
    PROVE  FuseInv'
<1>1. CASE UNCHANGED vars
  <2>1. Current' = Current
    BY <1>1 DEF Current, vars
  <2> QED BY <1>1, <2>1 DEF vars, FuseInv, TypeOK, PhaseInv, Busy, Tracks
<1>2. ASSUME NEW t \in Workers, NEW n \in Names,
             \/ Create(t, n)
             \/ Unlink(t, n)
             \/ Read(t, n)
             \/ \E x \in Extents : Write(t, n, x[1], x[2])
      PROVE  FuseInv'
  BY <1>2, CreateKeeps, UnlinkKeeps, ReadKeeps, WriteKeeps
<1>3. ASSUME NEW t \in Workers,
             \/ AddDirEntry(t) \/ LinkDirBlock(t) \/ UndoCreate(t)
             \/ FreeFile(t)
             \/ WriteBlock(t) \/ RecordWrite(t)
             \/ RecordRead(t)
      PROVE  FuseInv'
  BY <1>3, AddDirEntryKeeps, LinkDirBlockKeeps, UndoCreateKeeps, FreeFileKeeps, WriteBlockKeeps,
     RecordWriteKeeps, RecordReadKeeps
<1>4. CASE Mount \/ Unmount \/ SyncInodes \/ SyncBlocks \/ Death \/ Fsck
  BY <1>4, MountKeeps, UnmountKeeps, SyncInodesKeeps, SyncBlocksKeeps, DeathKeeps, FsckKeeps
<1> QED BY <1>1, <1>2, <1>3, <1>4 DEF Next

LEMMA FuseInvariant == Spec => []FuseInv
<1>1. Init => FuseInv
  BY InitFuse
<1>2. FuseInv /\ [Next]_vars => FuseInv'
  BY NextFuse
<1> QED BY <1>1, <1>2, PTL DEF Spec

\* Every value has its type; in particular no counter passes the size of its
\* bitmap and the root directory never has more blocks than pointers.
THEOREM TypeCorrect == Spec => []TypeOK
<1>1. FuseInv => TypeOK
  BY DEF FuseInv
<1> QED BY <1>1, FuseInvariant, PTL

-----------------------------------------------------------------------------
(* What the invariant says of the sets the module speaks of *)

LEMMA EntriesAre ==
    ASSUME TypeOK
    PROVE  \A e : e \in Entries <=> \E n \in Names, i \in Inodes :
                      e = EntryOf(n, i) /\ Entry(table, content, n, i)
<1> TAKE e
<1>1. ASSUME e \in Entries
      PROVE  \E n \in Names, i \in Inodes : e = EntryOf(n, i) /\ Entry(table, content, n, i)
  <2>1. PICK k \in DirIdx : e = DirCell(k) /\ DirCell(k).kind = "entry"
    BY <1>1 DEF Entries
  <2>2. table[Root].block[k] \in DataBlocks
    BY Sets DEF TypeOK, DirIdx, Inode
  <2>3. e \in Cell
    BY <2>1, <2>2 DEF TypeOK, DirCell
  <2>4. e.name \in Names /\ e.inode \in Inodes /\ e = EntryOf(e.name, e.inode)
    BY <2>1, <2>3, CellIs
  <2>5. Slot(table, content, k, e.name, e.inode)
    BY <2>1, <2>4 DEF Slot, DirIdx, DirCell
  <2> QED BY <2>4, <2>5 DEF Entry, DirIdx
<1>2. ASSUME NEW n \in Names, NEW i \in Inodes, e = EntryOf(n, i), Entry(table, content, n, i)
      PROVE  e \in Entries
  <2>1. PICK k \in Idx : Slot(table, content, k, n, i)
    BY <1>2 DEF Entry
  <2>2. k \in DirIdx /\ DirCell(k) = e
    BY <2>1, <1>2 DEF Slot, DirIdx, DirCell
  <2> QED BY <2>2, <1>2 DEF Entries, EntryOf
<1> QED BY <1>1, <1>2

LEMMA LiveIs ==
    ASSUME TypeOK, NEW i \in Live
    PROVE  i \in Inodes /\ \E n \in Names : Entry(table, content, n, i)
<1>1. PICK e \in Entries : i = e.inode
  BY DEF Live
<1>2. PICK n \in Names, j \in Inodes : e = EntryOf(n, j) /\ Entry(table, content, n, j)
  BY EntriesAre
<1>3. i = j
  BY <1>1, <1>2 DEF EntryOf
<1> QED BY <1>2, <1>3

Known(p) ==
    \E i \in Inodes, k \in Nat, b \in DataBlocks :
        p = <<i, k, b>> /\ Claim(table, content, call, i, k, b)

LEMMA ClaimsAre ==
    ASSUME TypeOK, NEW p \in Claims, p[3] # NoBlock
    PROVE  Known(p)
<1>1. ASSUME NEW i \in {Root} \cup Live, p \in Pointers(i, table[i])
      PROVE  Known(p)
  <2>1. i \in Inodes /\ (i = Root \/ \E n \in Names : Entry(table, content, n, i))
    BY LiveIs, Sets
  <2>2. PICK k \in Idx : p = <<i, k, table[i].block[k]>>
    BY <1>1 DEF Pointers
  <2>3. table[i].block[k] \in DataBlocks /\ k \in Nat
    BY <2>1, <2>2, Sets DEF TypeOK, Inode
  <2> QED BY <2>1, <2>2, <2>3 DEF Known, Claim, OnImage
<1>2. ASSUME NEW t \in Workers, Busy(t), p \in Pointers(call[t].ino, call[t].inode)
      PROVE  Known(p)
  <2>1. call[t] \in Running
    BY <1>2, CallIs DEF TypeOK, Busy, Idle
  <2>2. PICK k \in Idx : p = <<call[t].ino, k, call[t].inode.block[k]>>
    BY <1>2 DEF Pointers
  <2>3. call[t].inode.block[k] \in DataBlocks /\ k \in Nat /\ call[t].ino \in Inodes
    BY <2>1, <2>2, Sets DEF Running, Inode
  <2> QED BY <1>2, <2>2, <2>3 DEF Known, Claim, CallClaim, InCopy, Busy, Runs
<1>3. ASSUME NEW t \in Changing, p = <<Root, table[Root].size, call[t].blk>>
      PROVE  Known(p)
  <2>1. call[t] \in Running /\ Busy(t) /\ call[t].op # "read" /\ t \in Workers
    BY CallIs DEF TypeOK, Changing, Busy, Idle
  <2>2. call[t].blk \in DataBlocks /\ table[Root].size \in Nat /\ Root \in Inodes
    BY <2>1, <1>3, Sets DEF TypeOK, Running, Inode
  <2> QED BY <1>3, <2>1, <2>2 DEF Known, Claim, CallClaim, NewInDir, Busy, Runs
<1>4. CASE \E i \in {Root} \cup Live : p \in Pointers(i, table[i])
  BY <1>1, <1>4
<1>5. CASE \E t \in Workers : Busy(t) /\ p \in Pointers(call[t].ino, call[t].inode)
  BY <1>2, <1>5
<1>6. CASE \E t \in Changing : p = <<Root, table[Root].size, call[t].blk>>
  BY <1>3, <1>6
<1>7. \/ \E i \in {Root} \cup Live : p \in Pointers(i, table[i])
      \/ \E t \in Workers : Busy(t) /\ p \in Pointers(call[t].ino, call[t].inode)
      \/ \E t \in Changing : p = <<Root, table[Root].size, call[t].blk>>
  BY DEF Claims, Holdings, Changing
<1> QED BY <1>4, <1>5, <1>6, <1>7

\* What a directory, a file or a callback uses is marked, in memory or on the
\* image, while no death has lost bits.
THEOREM InUseMarked == Spec => []InUseIsMarked
<1>1. FuseInv => InUseIsMarked
  <2> SUFFICES ASSUME FuseInv, ~lost
               PROVE  InUse \subseteq Current.blocks /\ InodesInUse \subseteq Current.inodes
    BY DEF InUseIsMarked
  <2>1. TypeOK /\ Sound(Current, table, content, call)
    BY DEF FuseInv
  <2>2. ASSUME NEW b \in InUse
        PROVE  b \in Current.blocks
    <3>1. PICK p \in Claims : b = p[3] /\ b # NoBlock
      BY DEF InUse
    <3>2. PICK i \in Inodes, k \in Nat, d \in DataBlocks :
              p = <<i, k, d>> /\ Claim(table, content, call, i, k, d)
      BY <2>1, <3>1, ClaimsAre DEF Known
    <3>3. d = b
      BY <3>1, <3>2
    <3> QED BY <2>1, <3>2, <3>3 DEF Sound, ClaimsInv
  <2>3. {0, Root} \subseteq Current.inodes
    BY <2>1 DEF Sound, DirInv
  <2>4. \A i \in Live : i \in Current.inodes
    BY <2>1, LiveIs DEF Sound, DirInv, Entry
  <2>5. \A t \in Workers : Busy(t) => call[t].ino \in Current.inodes
    BY <2>1 DEF Sound, CallsInv, OneCallInv, Busy, Runs
  <2> QED BY <2>2, <2>3, <2>4, <2>5 DEF InodesInUse
<1> QED BY <1>1, FuseInvariant, PTL

\* No block is reached through two pointers, of files, of the directory or of
\* callbacks under way.
THEOREM BlocksNotShared == Spec => []NoSharedBlock
<1>1. FuseInv => NoSharedBlock
  <2> SUFFICES ASSUME FuseInv, ~lost, NEW p \in Claims, NEW q \in Claims,
                      p[3] = q[3], p[3] # NoBlock
               PROVE  p = q
    BY DEF NoSharedBlock
  <2>1. TypeOK /\ Sound(Current, table, content, call)
    BY DEF FuseInv
  <2>2. PICK i \in Inodes, k \in Nat, b \in DataBlocks :
            p = <<i, k, b>> /\ Claim(table, content, call, i, k, b)
    BY <2>1, ClaimsAre DEF Known
  <2>3. PICK j \in Inodes, l \in Nat, d \in DataBlocks :
            q = <<j, l, d>> /\ Claim(table, content, call, j, l, d)
    BY <2>1, ClaimsAre DEF Known
  <2>4. b = d
    BY <2>2, <2>3
  <2>5. i = j /\ k = l
    BY <2>1, <2>2, <2>3, <2>4 DEF Sound, ClaimsInv
  <2> QED BY <2>2, <2>3, <2>4, <2>5
<1> QED BY <1>1, FuseInvariant, PTL

\* free_blocks counts the clear bits, and so does free_inodes, but for inode 0.
THEOREM CountersTrack == Spec => []CountersTrackBits
<1>1. FuseInv => CountersTrackBits
  <2> SUFFICES ASSUME FuseInv, ~lost
               PROVE  Tracks(Current)
    BY DEF CountersTrackBits, Tracks
  <2> QED BY DEF FuseInv, PhaseInv, Current
<1> QED BY <1>1, FuseInvariant, PTL

-----------------------------------------------------------------------------
(* The directory is a set of names that changes one name at a time *)

NameSet == {[dir |-> Root, name |-> e.name, id |-> e.inode] : e \in Entries}
Named(n, i) == [dir |-> Root, name |-> n, id |-> i]

LEMMA NamesAre ==
    ASSUME TypeOK
    PROVE  \A x : x \in NameSet <=> \E n \in Names, i \in Inodes :
                      x = Named(n, i) /\ Entry(table, content, n, i)
<1> TAKE x
<1>1. ASSUME x \in NameSet
      PROVE  \E n \in Names, i \in Inodes : x = Named(n, i) /\ Entry(table, content, n, i)
  <2>1. PICK e \in Entries : x = Named(e.name, e.inode)
    BY <1>1 DEF NameSet, Named
  <2>2. PICK n \in Names, i \in Inodes : e = EntryOf(n, i) /\ Entry(table, content, n, i)
    BY EntriesAre
  <2>3. e.name = n /\ e.inode = i
    BY <2>2 DEF EntryOf
  <2> QED BY <2>1, <2>2, <2>3
<1>2. ASSUME NEW n \in Names, NEW i \in Inodes, x = Named(n, i), Entry(table, content, n, i)
      PROVE  x \in NameSet
  <2>1. EntryOf(n, i) \in Entries
    BY <1>2, EntriesAre
  <2>2. EntryOf(n, i).name = n /\ EntryOf(n, i).inode = i
    BY DEF EntryOf
  <2>3. x = [dir |-> Root, name |-> EntryOf(n, i).name, id |-> EntryOf(n, i).inode]
    BY <1>2, <2>2 DEF Named
  <2> QED BY <2>1, <2>3 DEF NameSet
<1> QED BY <1>1, <1>2

LEMMA NamesAreNext ==
    TypeOK' => \A x : x \in NameSet' <=> \E n \in Names, i \in Inodes :
                         x = Named(n, i) /\ Entry(table', content', n, i)
<1> DEFINE Q == \A x : x \in NameSet <=> \E n \in Names, i \in Inodes :
                          x = Named(n, i) /\ Entry(table, content, n, i)
<1>1. TypeOK => Q
  BY NamesAre
<1>2. TypeOK' => Q'
  BY <1>1, PTL
<1> QED BY <1>2 DEF Named, Entry, Slot, EntryOf

\* What a step can do to the directory.
OneAdded ==
    \E n \in Names, i \in Inodes \ {0, Root} :
        /\ \A p \in Names, j \in Inodes : Entry(table, content, p, j) => p # n /\ j # i
        /\ \A p \in Names, j \in Inodes :
               Entry(table', content', p, j) <=> Entry(table, content, p, j) \/ (p = n /\ j = i)

OneRemoved ==
    \E n \in Names, i \in Inodes \ {0, Root} :
        /\ Entry(table, content, n, i)
        /\ \A p \in Names, j \in Inodes :
               Entry(table', content', p, j) <=> Entry(table, content, p, j) /\ ~(p = n /\ j = i)

LEMMA CreateAdds ==
    ASSUME FuseInv, NEW t \in Workers, call[t].op = "create", Busy(t), NEW k \in Idx,
           NameAdded(table, content, table', content', k, call[t].name, call[t].ino)
    PROVE  OneAdded
<1> DEFINE c == call[t]
<1>1. Good(ctx, table, content, call)
  BY WhileUp
<1>2. c \in Running /\ c.ino \in Inodes \ {0, Root} /\ CreateInv(table, content, c) /\ c.name \in Names
  BY <1>1, OwnInode DEF OneCallInv, Running
<1>3. \A p \in Names, j \in Inodes : Entry(table, content, p, j) => p # c.name /\ j # c.ino
  BY <1>2 DEF CreateInv
<1>4. \A p \in Names, j \in Inodes :
          Entry(table', content', p, j) <=> Entry(table, content, p, j) \/ (p = c.name /\ j = c.ino)
  BY DEF NameAdded, Entry
<1> QED BY <1>2, <1>3, <1>4 DEF OneAdded

LEMMA UnlinkRemoves ==
    ASSUME FuseInv, NEW t \in Workers, NEW n \in Names, Unlink(t, n)
    PROVE  OneRemoved
<1>1. PICK k0 \in Idx, i \in Inodes :
          Slot(table, content, k0, n, i) /\ NameRemoved(table, content, table', content', k0)
  BY UnlinkKeeps
<1>2. DirInv(ctx, table, content)
  BY WhileUp DEF Unlink, Good, Sound
<1>3. i \notin {0, Root}
  BY <1>1, <1>2 DEF DirInv
<1>4. ASSUME NEW p \in Names, NEW j \in Inodes
      PROVE  Entry(table', content', p, j) <=> Entry(table, content, p, j) /\ ~(p = n /\ j = i)
  <2>1. \A k \in Idx : Slot(table, content, k, p, j) => (k # k0 <=> ~(p = n /\ j = i))
    <3> SUFFICES ASSUME NEW k \in Idx, Slot(table, content, k, p, j)
                 PROVE  k # k0 <=> ~(p = n /\ j = i)
      OBVIOUS
    <3>1. p = n => k = k0
      BY <1>1, <1>2 DEF DirInv
    <3>2. k = k0 => p = n /\ j = i
      BY <1>1, EntryIs DEF Slot
    <3> QED BY <3>1, <3>2
  <2>2. \A k \in Idx : Slot(table', content', k, p, j) <=> Slot(table, content, k, p, j) /\ k # k0
    BY <1>1 DEF NameRemoved
  <2> QED BY <2>1, <2>2 DEF Entry
<1>5. Entry(table, content, n, i)
  BY <1>1 DEF Entry
<1> QED BY <1>3, <1>4, <1>5 DEF OneRemoved

LEMMA DirSteps ==
    ASSUME FuseInv, [Next]_vars
    PROVE  DirStays \/ OneAdded \/ OneRemoved
<1>1. CASE UNCHANGED vars
  BY <1>1, Stays DEF vars
<1>2. ASSUME NEW t \in Workers, NEW n \in Names,
             \/ Create(t, n)
             \/ Unlink(t, n)
             \/ Read(t, n)
             \/ \E x \in Extents : Write(t, n, x[1], x[2])
      PROVE  DirStays \/ OneRemoved
  BY <1>2, CreateKeeps, UnlinkRemoves, ReadKeeps, WriteKeeps
<1>3. ASSUME NEW t \in Workers, AddDirEntry(t) \/ LinkDirBlock(t)
      PROVE  DirStays \/ OneAdded
  <2>1. call[t].op = "create" /\ Busy(t)
    BY <1>3 DEF AddDirEntry, LinkDirBlock, At, Busy
  <2> QED BY <1>3, <2>1, AddDirEntryKeeps, LinkDirBlockKeeps, CreateAdds
<1>4. ASSUME NEW t \in Workers,
             UndoCreate(t) \/ FreeFile(t) \/ WriteBlock(t) \/ RecordWrite(t) \/ RecordRead(t)
      PROVE  DirStays
  BY <1>4, UndoCreateKeeps, FreeFileKeeps, WriteBlockKeeps, RecordWriteKeeps, RecordReadKeeps
<1>5. CASE Mount \/ Unmount \/ SyncInodes \/ SyncBlocks \/ Death \/ Fsck
  <2>1. UNCHANGED <<table, content>>
    BY <1>5 DEF Mount, Unmount, SyncInodes, SyncBlocks, Death, Fsck, image
  <2> QED BY <2>1, Stays
<1> QED BY <1>1, <1>2, <1>3, <1>4, <1>5 DEF Next

\* Every step of the driver is a step of the set of names, or none.
LEMMA NamesMap ==
    ASSUME FuseInv, [Next]_vars
    PROVE  [Tree!Names_Next]_<<NameSet, {Root}>>
<1>1. TypeOK /\ TypeOK'
  BY NextFuse DEF FuseInv
<1>2. CASE DirStays
  <2>1. \A n, i : Entry(table', content', n, i) <=> Entry(table, content, n, i)
    BY <1>2, SlotsKept DEF DirStays
  <2>2. NameSet' = NameSet
    BY <1>1, <2>1, NamesAre, NamesAreNext
  <2> QED BY <2>2
<1>3. CASE OneAdded
  <2>1. PICK n \in Names, i \in Inodes \ {0, Root} :
            /\ \A p \in Names, j \in Inodes : Entry(table, content, p, j) => p # n /\ j # i
            /\ \A p \in Names, j \in Inodes :
                   Entry(table', content', p, j) <=> Entry(table, content, p, j) \/ (p = n /\ j = i)
    BY <1>3 DEF OneAdded
  <2> DEFINE e == Named(n, i)
  <2>2. e.dir = Root /\ e.name = n /\ e.id = i
    BY DEF Named
  <2>3. \A f \in NameSet : f.name # n /\ f.id # i
    <3> TAKE f \in NameSet
    <3>1. PICK p \in Names, j \in Inodes : f = Named(p, j) /\ Entry(table, content, p, j)
      BY <1>1, NamesAre
    <3>2. f.name = p /\ f.id = j
      BY <3>1 DEF Named
    <3> QED BY <2>1, <3>1, <3>2
  <2>4. NameSet' = NameSet \cup {e}
    BY <1>1, <2>1, NamesAre, NamesAreNext
  <2> HIDE DEF e
  <2>5. e \in NameSet' \ NameSet
    BY <2>2, <2>3, <2>4
  <2>6. Tree!Add(e)
    BY <2>2, <2>3, <2>4 DEF Tree!Add, Tree!Known, NameSet
  <2> QED BY <2>5, <2>6 DEF Tree!Names_Next, NameSet
<1>4. CASE OneRemoved
  <2>1. PICK n \in Names, i \in Inodes \ {0, Root} :
            /\ Entry(table, content, n, i)
            /\ \A p \in Names, j \in Inodes :
                   Entry(table', content', p, j) <=> Entry(table, content, p, j) /\ ~(p = n /\ j = i)
    BY <1>4 DEF OneRemoved
  <2> DEFINE e == Named(n, i)
  <2>2. e.id = i /\ \A p \in Names, j \in Inodes : Named(p, j) = e => p = n /\ j = i
    BY DEF Named
  <2>3. \A f \in NameSet : f.dir = Root
    BY <1>1, NamesAre DEF Named
  <2>4. NameSet' = NameSet \ {e}
    <3>1. \A x \in NameSet' : x \in NameSet /\ x # e
      BY <1>1, <2>1, <2>2, NamesAre, NamesAreNext
    <3>2. \A x \in NameSet : x # e => x \in NameSet'
      BY <1>1, <2>1, NamesAre, NamesAreNext
    <3> QED BY <3>1, <3>2
  <2>5. e \in NameSet
    BY <1>1, <2>1, NamesAre
  <2> HIDE DEF e
  <2>6. e \in NameSet \ NameSet'
    BY <2>4, <2>5
  <2>7. Tree!Remove(e)
    BY <2>2, <2>3, <2>4 DEF Tree!Remove, NameSet
  <2> QED BY <2>6, <2>7 DEF Tree!Names_Next, NameSet
<1> QED BY <1>2, <1>3, <1>4, DirSteps

LEMMA NamesInit ==
    ASSUME Init
    PROVE  Tree!Names_Init
<1>1. FuseInv
  BY InitFuse
<1>2. Entries = {}
  <2>1. \A e \in Entries : FALSE
    <3> TAKE e \in Entries
    <3>1. PICK k \in DirIdx : DirCell(k).kind = "entry"
      BY DEF Entries
    <3>2. DirCell(k) \in {Dots, Hole}
      <4>1. table[Root].block[k] \in DataBlocks
        BY <1>1, Sets DEF FuseInv, TypeOK, DirIdx, Inode
      <4> QED BY <4>1 DEF Init, DirCell
    <3> QED BY <3>1, <3>2 DEF Dots, Hole
  <2> QED BY <2>1
<1>3. NameSet = {}
  BY <1>2 DEF NameSet
<1> QED BY <1>3 DEF Tree!Names_Init, NameSet

\* The root directory is a set of names that changes by one name at a time: no
\* failure, unmount, death, write or read changes it, and a new name has an
\* inode that no other name has.
THEOREM DirectoryIsNamespace == Spec => ImplementsNamespace
<1>1. Init => Tree!Names_Init
  BY NamesInit
<1>2. FuseInv /\ [Next]_vars => [Tree!Names_Next]_<<NameSet, {Root}>>
  BY NamesMap
<1> QED BY <1>1, <1>2, FuseInvariant, PTL DEF Spec, ImplementsNamespace, Tree!Names_Spec, NameSet

-----------------------------------------------------------------------------
(* What succeeds loses nothing *)

Changes(c) == Runs(c) /\ c.op # "read"
Points(c, b) == c.blk = b \/ \E k \in Idx : c.inode.block[k] = b

\* Inode i is not the one of a callback that will write it back.
Settled(cl, i) == \A t \in Workers : Changes(cl[t]) => cl[t].ino # i

\* Block b is pointed to by the root, by a file with a name, or by a callback.
Held(tb, ct, cl, b) ==
    \/ \E i \in Inodes, k \in Idx : OnImage(tb, ct, i, k, b) /\ Settled(cl, i)
    \/ \E t \in Workers : Changes(cl[t]) /\ Points(cl[t], b)

\* Inode i is reserved, has a name, or is a callback's.
Used(tb, ct, cl, i) ==
    \/ i \in {0, Root}
    \/ \E n \in Names : Entry(tb, ct, n, i)
    \/ \E t \in Workers : Runs(cl[t]) /\ cl[t].ino = i

LostBlocks == {b \in Current.blocks : ~Held(table, content, call, b)}
LostInodes == {i \in Current.inodes : ~Used(table, content, call, i)}

LEMMA LeakedIs ==
    ASSUME TypeOK
    PROVE  Leaked = LostBlocks /\ LeakedInodes = LostInodes
<1>1. Current.blocks \subseteq DataBlocks /\ Current.inodes \subseteq Inodes
  BY DEF TypeOK, Current, Metadata
<1>2. \A i : i \in Live <=> i \in Inodes /\ \E n \in Names : Entry(table, content, n, i)
  <2>1. \A n \in Names, i \in Inodes : Entry(table, content, n, i) => i \in Live
    <3> TAKE n \in Names, i \in Inodes
    <3> HAVE Entry(table, content, n, i)
    <3>1. EntryOf(n, i) \in Entries
      BY EntriesAre
    <3> QED BY <3>1 DEF Live, EntryOf
  <2> QED BY <2>1, LiveIs
<1>3. \A t \in Workers : /\ Changes(call[t]) <=> t \in Changing
                         /\ Runs(call[t]) <=> Busy(t)
  BY DEF Changes, Changing, Runs, Busy
<1>4. ASSUME NEW b \in DataBlocks
      PROVE  b \in {p[3] : p \in Holdings} <=> Held(table, content, call, b)
  <2>1. ASSUME NEW p \in Holdings, b = p[3]
        PROVE  Held(table, content, call, b)
    <3>1. CASE \E i \in ({Root} \cup Live) \ {call[t].ino : t \in Changing} : p \in Pointers(i, table[i])
      <4>1. PICK i \in ({Root} \cup Live) \ {call[t].ino : t \in Changing} : p \in Pointers(i, table[i])
        BY <3>1
      <4>2. PICK k \in Idx : p = <<i, k, table[i].block[k]>>
        BY <4>1 DEF Pointers
      <4>3. OnImage(table, content, i, k, b) /\ i \in Inodes
        BY <1>2, <2>1, <4>1, <4>2, Sets DEF OnImage
      <4>4. Settled(call, i)
        BY <1>3, <4>1 DEF Settled
      <4> QED BY <4>3, <4>4 DEF Held, OnImage
    <3>2. CASE \E t \in Changing : p \in Pointers(call[t].ino, call[t].inode)
      BY <1>3, <2>1, <3>2 DEF Pointers, Held, Points, Changing
    <3>3. CASE \E t \in Changing : p = <<Root, table[Root].size, call[t].blk>>
      BY <1>3, <2>1, <3>3 DEF Held, Points, Changing
    <3> QED BY <3>1, <3>2, <3>3 DEF Holdings
  <2>2. ASSUME NEW i \in Inodes, NEW k \in Idx, OnImage(table, content, i, k, b), Settled(call, i)
        PROVE  \E p \in Holdings : b = p[3]
    <3>1. i \in ({Root} \cup Live) \ {call[t].ino : t \in Changing}
      BY <1>2, <1>3, <2>2 DEF OnImage, Settled, Changing
    <3>2. <<i, k, b>> \in Pointers(i, table[i])
      BY <2>2 DEF OnImage, Pointers
    <3> QED BY <3>1, <3>2 DEF Holdings
  <2>3. ASSUME NEW t \in Changing, Points(call[t], b)
        PROVE  \E p \in Holdings : b = p[3]
    <3>1. CASE call[t].blk = b
      <4>1. <<Root, table[Root].size, b>> \in Holdings
        BY <3>1 DEF Holdings
      <4> QED BY <4>1
    <3>2. ASSUME NEW k \in Idx, call[t].inode.block[k] = b
          PROVE  \E p \in Holdings : b = p[3]
      <4>1. <<call[t].ino, k, b>> \in Holdings
        BY <3>2 DEF Holdings, Pointers
      <4> QED BY <4>1
    <3> QED BY <2>3, <3>1, <3>2 DEF Points
  <2> QED BY <1>3, <2>1, <2>2, <2>3 DEF Held
<1>5. Leaked = LostBlocks
  BY <1>1, <1>4 DEF Leaked, LostBlocks
<1>6. \A i \in Inodes : i \in InodesInUse <=> Used(table, content, call, i)
  BY <1>2, <1>3 DEF InodesInUse, Used
<1>7. LeakedInodes = LostInodes
  BY <1>1, <1>6 DEF LeakedInodes, LostInodes
<1> QED BY <1>5, <1>7

LEMMA LeakedIsNext ==
    TypeOK' => /\ Leaked' = {b \in Current'.blocks : ~Held(table', content', call', b)}
               /\ LeakedInodes' = {i \in Current'.inodes : ~Used(table', content', call', i)}
<1>4. TypeOK => Leaked = LostBlocks /\ LeakedInodes = LostInodes
  BY LeakedIs
<1>1. TypeOK' => (Leaked = LostBlocks /\ LeakedInodes = LostInodes)'
  BY <1>4, PTL
<1>2. LostBlocks' = {b \in Current'.blocks : ~Held(table', content', call', b)}
  BY DEF LostBlocks, Held, OnImage, Entry, Slot, EntryOf, Settled, Changes, Runs, Points
<1>3. LostInodes' = {i \in Current'.inodes : ~Used(table', content', call', i)}
  BY DEF LostInodes, Used, Entry, Slot, EntryOf, Runs
<1> QED BY <1>1, <1>2, <1>3

\* What is held and stays marked stays held, and what is marked anew is held.
NoneLost(m, tb, ct, cl, m2, tb2, ct2, cl2) ==
    /\ \A b \in m2.blocks : Held(tb2, ct2, cl2, b) \/ (b \in m.blocks /\ ~Held(tb, ct, cl, b))
    /\ \A i \in m2.inodes : Used(tb2, ct2, cl2, i) \/ (i \in m.inodes /\ ~Used(tb, ct, cl, i))

LEMMA NoneLostIs ==
    ASSUME TypeOK, TypeOK',
           NoneLost(Current, table, content, call, Current', table', content', call')
    PROVE  Leaked' \subseteq Leaked /\ LeakedInodes' \subseteq LeakedInodes
  BY LeakedIs, LeakedIsNext DEF NoneLost, LostBlocks, LostInodes

\* The blocks and inodes that a step of thread t may cost somebody their owner.
LEMMA NoneLostStep ==
    ASSUME NEW m, NEW tb, NEW ct, NEW cl, NEW t \in Workers, NEW x, cl \in [Workers -> Call],
           NEW m2, NEW tb2, NEW ct2, NEW cl2, cl2 = [cl EXCEPT ![t] = x],
           \A b \in m2.blocks \ m.blocks : Held(tb2, ct2, cl2, b),
           \A b \in m2.blocks, i \in Inodes, k \in Idx :
              OnImage(tb, ct, i, k, b) /\ Settled(cl, i) => Held(tb2, ct2, cl2, b),
           \A b \in m2.blocks : Changes(cl[t]) /\ Points(cl[t], b) => Held(tb2, ct2, cl2, b),
           \A i \in m2.inodes \ m.inodes : Used(tb2, ct2, cl2, i),
           \A i \in m2.inodes, n \in Names : Entry(tb, ct, n, i) => Used(tb2, ct2, cl2, i),
           Runs(cl[t]) /\ cl[t].ino \in m2.inodes => Used(tb2, ct2, cl2, cl[t].ino)
    PROVE  NoneLost(m, tb, ct, cl, m2, tb2, ct2, cl2)
<1>1. \A u \in Workers \ {t} : cl2[u] = cl[u]
  OBVIOUS
<1>2. ASSUME NEW b \in m2.blocks, Held(tb, ct, cl, b)
      PROVE  Held(tb2, ct2, cl2, b)
  <2>1. CASE \E i \in Inodes, k \in Idx : OnImage(tb, ct, i, k, b) /\ Settled(cl, i)
    BY <2>1
  <2>2. ASSUME NEW u \in Workers, Changes(cl[u]), Points(cl[u], b)
        PROVE  Held(tb2, ct2, cl2, b)
    <3>1. CASE u = t
      BY <2>2, <3>1
    <3>2. CASE u # t
      BY <1>1, <2>2, <3>2 DEF Held
    <3> QED BY <3>1, <3>2
  <2> QED BY <1>2, <2>1, <2>2 DEF Held
<1>3. ASSUME NEW i \in m2.inodes, Used(tb, ct, cl, i)
      PROVE  Used(tb2, ct2, cl2, i)
  <2>1. ASSUME NEW u \in Workers, Runs(cl[u]), cl[u].ino = i
        PROVE  Used(tb2, ct2, cl2, i)
    <3>1. CASE u = t
      BY <2>1, <3>1
    <3>2. CASE u # t
      BY <1>1, <2>1, <3>2 DEF Used
    <3> QED BY <3>1, <3>2
  <2> QED BY <1>3, <2>1 DEF Used
<1> QED BY <1>2, <1>3 DEF NoneLost

\* While the directory stays, so do the pointers of an inode that is not
\* written, unless x, what thread t is at now, takes it over.
LEMMA NoneLostQuiet ==
    ASSUME NEW m, NEW tb, NEW ct, NEW cl, NEW t \in Workers, NEW x, cl \in [Workers -> Call],
           NEW m2, NEW tb2, NEW ct2, NEW cl2, cl2 = [cl EXCEPT ![t] = x],
           SameDir(tb, ct, tb2, ct2),
           \A b \in m2.blocks \ m.blocks : Held(tb2, ct2, cl2, b),
           \A i \in Inodes, n \in Names : Entry(tb, ct, n, i) /\ Settled(cl, i) => tb2[i] = tb[i],
           \A b \in m2.blocks, i \in Inodes, k \in Idx :
              OnImage(tb, ct, i, k, b) /\ Changes(x) /\ x.ino = i => Points(x, b),
           \A b \in m2.blocks : Changes(cl[t]) /\ Points(cl[t], b) => Held(tb2, ct2, cl2, b),
           \A i \in m2.inodes \ m.inodes : Used(tb2, ct2, cl2, i),
           Runs(cl[t]) /\ cl[t].ino \in m2.inodes => Used(tb2, ct2, cl2, cl[t].ino)
    PROVE  NoneLost(m, tb, ct, cl, m2, tb2, ct2, cl2)
<1>1. \A n, i : Entry(tb2, ct2, n, i) <=> Entry(tb, ct, n, i)
  BY SlotsKept
<1>2. cl2[t] = x /\ \A u \in Workers \ {t} : cl2[u] = cl[u]
  OBVIOUS
<1>3. ASSUME NEW b \in m2.blocks, NEW i \in Inodes, NEW k \in Idx,
             OnImage(tb, ct, i, k, b), Settled(cl, i)
      PROVE  Held(tb2, ct2, cl2, b)
  <2>1. CASE Changes(x) /\ x.ino = i
    BY <1>2, <1>3, <2>1 DEF Held, OnImage
  <2>2. CASE ~(Changes(x) /\ x.ino = i)
    <3>1. Settled(cl2, i)
      BY <1>2, <1>3, <2>2 DEF Settled
    <3>2. tb2[i] = tb[i]
      BY <1>3 DEF OnImage, SameDir
    <3>3. OnImage(tb2, ct2, i, k, b)
      BY <1>1, <1>3, <3>2 DEF OnImage
    <3> QED BY <3>1, <3>3 DEF Held
  <2> QED BY <2>1, <2>2
<1>4. \A i, n : n \in Names /\ Entry(tb, ct, n, i) => Used(tb2, ct2, cl2, i)
  BY <1>1 DEF Used
<1> QED BY <1>3, <1>4, NoneLostStep

\* The pointers of the root behind its last block are not set.
RootEnds == \A k \in Idx : k >= table[Root].size => table[Root].block[k] = NoBlock

LEMMA RootEndsInit ==
    ASSUME Init
    PROVE  RootEnds
<1> DEFINE f == [EmptyInode.block EXCEPT ![0] = DataStart]
<1>1. \A k \in Idx \ {0} : f[k] = NoBlock
  BY Sets, EmptyIs DEF EmptyInode
<1>2. table[Root] = [size |-> 1, block |-> f]
  BY Sets DEF Init
<1> QED BY <1>1, <1>2, Sets DEF RootEnds

LEMMA RootEndsKeeps ==
    ASSUME FuseInv, RootEnds, [Next]_vars
    PROVE  RootEnds'
<1>1. CASE table'[Root] = table[Root]
  BY <1>1 DEF RootEnds
<1>2. ASSUME NEW t \in Workers, LinkDirBlock(t)
      PROVE  RootEnds'
  <2>1. /\ table' = [table EXCEPT ![Root].block[table[Root].size] = call[t].blk, ![Root].size = @ + 1]
        /\ table[Root] \in Inode /\ table \in [Inodes -> Inode] /\ table[Root].size \in Nat
    BY <1>2, Sets DEF LinkDirBlock, FuseInv, TypeOK, Inode
  <2>2. /\ table'[Root].size = table[Root].size + 1
        /\ \A k \in Idx : k # table[Root].size => table'[Root].block[k] = table[Root].block[k]
    BY <2>1, Sets DEF Inode
  <2> QED BY <2>1, <2>2, Sets DEF RootEnds
<1>3. ASSUME NEW t \in Workers, NEW n \in Names,
             \/ Create(t, n)
             \/ Read(t, n)
             \/ \E x \in Extents : Write(t, n, x[1], x[2])
      PROVE  table'[Root] = table[Root]
  BY <1>3, CreateKeeps, ReadKeeps, WriteKeeps DEF DirStays, SameDir
<1>4. ASSUME NEW t \in Workers,
             UndoCreate(t) \/ FreeFile(t) \/ WriteBlock(t) \/ RecordWrite(t) \/ RecordRead(t)
      PROVE  table'[Root] = table[Root]
  BY <1>4, UndoCreateKeeps, FreeFileKeeps, WriteBlockKeeps, RecordWriteKeeps, RecordReadKeeps
     DEF DirStays, SameDir
<1>5. ASSUME \/ \E t \in Workers, n \in Names : Unlink(t, n)
             \/ \E t \in Workers : AddDirEntry(t)
             \/ Mount \/ Unmount \/ SyncInodes \/ SyncBlocks \/ Death \/ Fsck
             \/ UNCHANGED vars
      PROVE  table' = table
  BY <1>5 DEF Unlink, AddDirEntry, Mount, Unmount, SyncInodes, SyncBlocks, Death, Fsck, image, vars
<1> QED BY <1>1, <1>2, <1>3, <1>4, <1>5 DEF Next

\* Nothing is lost by the step, while the driver is up.
UpLosesNothing == NoneLost(ctx, table, content, call, ctx', table', content', call')

\* The types before and after, and that blocks are not 0.
LEMMA UpTypes ==
    ASSUME FuseInv, FuseInv', phase = "up" \/ \E t \in Workers : Busy(t)
    PROVE  /\ Good(ctx, table, content, call) /\ call \in [Workers -> Call]
           /\ ctx'.blocks \subseteq DataBlocks /\ NoBlock \notin ctx'.blocks
           /\ ctx'.inodes \subseteq Inodes
<1>1. Good(ctx, table, content, call) /\ call \in [Workers -> Call]
  BY WhileUp DEF Types
<1>2. ctx'.blocks \subseteq DataBlocks /\ ctx'.inodes \subseteq Inodes
  BY DEF FuseInv, TypeOK, Metadata
<1> QED BY <1>1, <1>2, Sets

\* A callback under way, in words of the lemmas.
LEMMA RunsIs ==
    /\ ~Runs(Idle) /\ ~Changes(Idle)
    /\ \A c \in Call : (c.op = "none" <=> c = Idle) /\ (Runs(c) => c \in Running)
  BY CallIs DEF Runs, Changes, Idle, Running

LEMMA CreateLoses ==
    ASSUME FuseInv, FuseInv', NEW t \in Workers, NEW n \in Names, Create(t, n)
    PROVE  UpLosesNothing
<1>1. Good(ctx, table, content, call) /\ call \in [Workers -> Call] /\ DirStays /\ content' = content
  BY CreateKeeps, UpTypes DEF Create
<1>2. call[t] = Idle
  BY <1>1, RunsIs DEF Create, Busy
<1>3. ASSUME NEW i \in FreeInode,
             ctx' = WithInode(ctx, i), table' = [table EXCEPT ![i] = EmptyInode],
             call' = [call EXCEPT ![t] = Started("create", n, i, "entry")]
      PROVE  UpLosesNothing
  <2> DEFINE x == Started("create", n, i, "entry")
  <2>1. i \in Inodes \ ctx.inodes
    BY FreeIs
  <2>2. x.op = "create" /\ x.ino = i /\ x.inode = EmptyInode
    BY <2>1, StartedIs
  <2> HIDE DEF x
  <2>3. ctx'.blocks = ctx.blocks /\ ctx'.inodes = ctx.inodes \cup {i}
    BY <1>1, <1>3, <2>1 DEF WithInode, Good, Types, Metadata
  <2>4. \A j \in Inodes, p \in Names : Entry(table, content, p, j) => j # i
    BY <1>1, <2>1 DEF Good, Sound, DirInv, Entry
  <2>5. \A j \in Inodes, p \in Names : Entry(table, content, p, j) => table'[j] = table[j]
    BY <1>1, <1>3, <2>4 DEF Good, Types
  <2>6. Used(table', content', call', i)
    BY <1>1, <1>3, <2>2 DEF Used, Runs, x
  <2>7. \A b, j, k : ~(OnImage(table, content, j, k, b) /\ x.ino = j)
    BY <1>1, <2>1, <2>2, <2>4 DEF OnImage, Good, Sound, DirInv
  <2>8. ~Changes(call[t]) /\ ~Runs(call[t])
    BY <1>2, RunsIs
  <2>9. call' = [call EXCEPT ![t] = x] /\ \A b \in ctx'.blocks \ ctx.blocks : FALSE
    BY <1>3, <2>3 DEF x
  <2>10. \A j \in ctx'.inodes \ ctx.inodes : Used(table', content', call', j)
    BY <2>3, <2>6
  <2> QED BY <1>1, <2>5, <2>7, <2>8, <2>9, <2>10, NoneLostQuiet DEF UpLosesNothing, DirStays
<1>4. CASE FreeInode = {} /\ Return(t) /\ UNCHANGED <<table, ctx>>
  <2>1. call' = [call EXCEPT ![t] = Idle] /\ ~Changes(call[t]) /\ ~Runs(call[t]) /\ ~Changes(Idle)
    BY <1>2, <1>4, RunsIs DEF Return
  <2> QED BY <1>1, <1>4, <2>1, NoneLostQuiet DEF UpLosesNothing, DirStays
<1> QED BY <1>3, <1>4 DEF Create

LEMMA AddDirEntryLoses ==
    ASSUME FuseInv, FuseInv', NEW t \in Workers, AddDirEntry(t)
    PROVE  UpLosesNothing
<1> DEFINE c == call[t]
<1>1. /\ Good(ctx, table, content, call) /\ call \in [Workers -> Call] /\ table' = table
      /\ NoBlock \notin ctx'.blocks
      /\ c \in Running /\ c.op = "create" /\ Changes(c) /\ Runs(c)
      /\ c.inode = EmptyInode /\ c.blk = NoBlock
  <2>1. c.op = "create" /\ c.at = "entry" /\ Busy(t) /\ table' = table
    BY DEF AddDirEntry, At, Busy
  <2>2. Good(ctx, table, content, call) /\ call \in [Workers -> Call] /\ NoBlock \notin ctx'.blocks
    BY <2>1, UpTypes
  <2>3. c \in Running /\ OneCallInv(ctx, table, content, c)
    BY <2>1, <2>2, OwnInode
  <2> QED BY <2>1, <2>2, <2>3 DEF OneCallInv, CreateInv, Changes, Runs
<1>2. \A b \in ctx'.blocks : ~Points(c, b)
  BY <1>1, EmptyIs DEF Points
<1>3. CASE /\ call' = [call EXCEPT ![t] = Idle] /\ ctx' = ctx
           /\ \E k \in Idx : NameAdded(table, content, table', content', k, c.name, c.ino)
  <2>1. \A p \in Names, j \in Inodes : Entry(table, content, p, j) => Entry(table', content', p, j)
    BY <1>3 DEF NameAdded, Entry
  <2>2. Entry(table', content', c.name, c.ino) /\ c.name \in Names
    BY <1>1, <1>3 DEF NameAdded, Entry, Running
  <2>3. call'[t] = Idle /\ \A u \in Workers \ {t} : call'[u] = call[u]
    BY <1>1, <1>3
  <2>4. ASSUME NEW b \in ctx'.blocks, NEW i \in Inodes, NEW k \in Idx,
               OnImage(table, content, i, k, b), Settled(call, i)
        PROVE  Held(table', content', call', b)
    <3>1. OnImage(table', content', i, k, b)
      BY <1>1, <2>1, <2>4 DEF OnImage
    <3>2. Settled(call', i)
      BY <2>3, <2>4, RunsIs DEF Settled
    <3> QED BY <3>1, <3>2 DEF Held
  <2>5. \A p \in Names, j \in Inodes : Entry(table, content, p, j) => Used(table', content', call', j)
    BY <2>1 DEF Used
  <2>6. Used(table', content', call', c.ino)
    BY <2>2 DEF Used
  <2>7. ctx'.inodes \subseteq Inodes
    BY <1>1, UpTypes DEF Busy, Runs
  <2> QED BY <1>1, <1>2, <1>3, <2>4, <2>5, <2>6, <2>7, NoneLostStep DEF UpLosesNothing
<1>4. ASSUME NEW x, call' = [call EXCEPT ![t] = x], x \in Running, x.op = "create", x.ino = c.ino,
             DirStays, ctx'.inodes = ctx.inodes,
             \A b \in ctx'.blocks \ ctx.blocks : b = x.blk
      PROVE  UpLosesNothing
  <2>1. call'[t] = x /\ Changes(x) /\ Runs(x)
    BY <1>1, <1>4 DEF Changes, Runs
  <2>2. \A b \in ctx'.blocks \ ctx.blocks : Held(table', content', call', b)
    BY <1>4, <2>1 DEF Held, Points
  <2>3. Used(table', content', call', c.ino)
    BY <1>4, <2>1 DEF Used
  <2>4. \A b, i, k : ~(OnImage(table, content, i, k, b) /\ x.ino = i /\ i \in Inodes)
    BY <1>1, <1>4, OwnInode DEF OnImage
  <2>5. \A i \in ctx'.inodes \ ctx.inodes : FALSE
    BY <1>4
  <2> QED BY <1>1, <1>2, <1>4, <2>2, <2>3, <2>4, <2>5, NoneLostQuiet DEF UpLosesNothing, DirStays
<1>5. CASE \E k \in Holes :
              /\ content' = [content EXCEPT ![table[Root].block[k]] = EntryOf(c.name, c.ino)]
              /\ Return(t)
              /\ UNCHANGED ctx
  <2>1. ~DirStays
    <3> SUFFICES ASSUME DirStays
                 PROVE  FALSE
      OBVIOUS
    <3>1. PICK k \in Holes : content' = [content EXCEPT ![table[Root].block[k]] = EntryOf(c.name, c.ino)]
      BY <1>5
    <3>2. /\ k \in Idx /\ table[Root].block[k] \in DataBlocks
          /\ content[table[Root].block[k]].kind = "hole" /\ content \in [DataBlocks -> Cell]
      BY <1>1, RootClaims DEF Holes, First, DirIdx, DirCell, Good, Types
    <3>3. content'[table[Root].block[k]].kind = "entry"
      BY <3>1, <3>2 DEF EntryOf
    <3> QED BY <3>2, <3>3, Sets DEF DirStays, SameDir
  <2> QED BY <1>3, <1>5, <2>1, AddDirEntryKeeps DEF Return
<1>6. CASE \E b \in FreeBlock :
              /\ Holes = {}
              /\ ctx' = WithBlock(ctx, b)
              /\ content' = [content EXCEPT ![b] = EntryOf(c.name, c.ino)]
              /\ call' = [call EXCEPT ![t].blk = b, ![t].at =
                             IF table[Root].size < DirectBlocks THEN "link" ELSE "undo"]
  <2>1. PICK b \in FreeBlock :
              /\ ctx' = WithBlock(ctx, b)
              /\ content' = [content EXCEPT ![b] = EntryOf(c.name, c.ino)]
              /\ call' = [call EXCEPT ![t].blk = b, ![t].at =
                             IF table[Root].size < DirectBlocks THEN "link" ELSE "undo"]
    BY <1>6
  <2> DEFINE x == [c EXCEPT !.blk = b, !.at = IF table[Root].size < DirectBlocks THEN "link" ELSE "undo"]
  <2>2. b \in DataBlocks \ ctx.blocks
    BY FreeIs
  <2>3. call' = [call EXCEPT ![t] = x]
    BY <1>1, <2>1
  <2>4. x \in Running /\ x.op = "create" /\ x.ino = c.ino /\ x.blk = b
    BY <1>1, <2>2 DEF Running
  <2> HIDE DEF x
  <2>5. ctx'.blocks = ctx.blocks \cup {b} /\ ctx'.inodes = ctx.inodes
    BY <1>1, <2>1, <2>2 DEF WithBlock, Good, Types, Metadata
  <2>6. DirStays
    <3>1. SameDir(table, content, table, [content EXCEPT ![b] = EntryOf(c.name, c.ino)])
      BY <1>1, <2>2, WrittenElsewhere DEF Elsewhere
    <3> QED BY <1>1, <2>1, <3>1 DEF DirStays
  <2> QED BY <1>4, <2>3, <2>4, <2>5, <2>6
<1>7. CASE /\ call' = [call EXCEPT ![t].at = "undo"]
           /\ UNCHANGED <<content, ctx>>
  <2> DEFINE x == [c EXCEPT !.at = "undo"]
  <2>1. call' = [call EXCEPT ![t] = x]
    BY <1>1, <1>7
  <2>2. x \in Running /\ x.op = "create" /\ x.ino = c.ino
    BY <1>1 DEF Running
  <2> HIDE DEF x
  <2> QED BY <1>1, <1>4, <1>7, <2>1, <2>2, Stays
<1> QED BY <1>5, <1>6, <1>7 DEF AddDirEntry

LEMMA LinkDirBlockLoses ==
    ASSUME FuseInv, FuseInv', RootEnds, NEW t \in Workers, LinkDirBlock(t)
    PROVE  UpLosesNothing
<1> DEFINE c == call[t]
           k0 == table[Root].size
<1>1. /\ c.op = "create" /\ c.at = "link" /\ Busy(t) /\ content' = content /\ ctx' = ctx
      /\ call' = [call EXCEPT ![t] = Idle]
      /\ table' = [table EXCEPT ![Root].block[k0] = c.blk, ![Root].size = @ + 1]
  BY DEF LinkDirBlock, At, Busy, Return
<1>2. /\ Good(ctx, table, content, call) /\ call \in [Workers -> Call]
      /\ NoBlock \notin ctx'.blocks /\ ctx'.inodes \subseteq Inodes
  BY <1>1, UpTypes
<1>3. /\ c \in Running /\ c.inode = EmptyInode /\ c.ino \in Inodes \ {0, Root} /\ c.name \in Names
      /\ k0 < DirectBlocks
  BY <1>1, <1>2, OwnInode DEF OneCallInv, CreateInv, Running
<1>4. /\ k0 \in Idx /\ k0 \in Nat /\ table[Root] \in Inode /\ table \in [Inodes -> Inode] /\ Root \in Inodes
  BY <1>2, <1>3, RootClaims, Sets DEF Good, Types
<1>5. /\ \A i \in Inodes \ {Root} : table'[i] = table[i]
      /\ table'[Root].block[k0] = c.blk
      /\ \A k \in Idx \ {k0} : table'[Root].block[k] = table[Root].block[k]
  BY <1>1, <1>4 DEF Inode
<1>6. PICK l \in Idx : NameAdded(table, content, table', content', l, c.name, c.ino)
  BY LinkDirBlockKeeps
<1>7. /\ \A p \in Names, j \in Inodes : Entry(table, content, p, j) => Entry(table', content', p, j)
      /\ Entry(table', content', c.name, c.ino)
  BY <1>3, <1>6 DEF NameAdded, Entry
<1>8. call'[t] = Idle /\ \A u \in Workers \ {t} : call'[u] = call[u]
  BY <1>1, <1>2
<1>9. ASSUME NEW b \in ctx'.blocks, NEW i \in Inodes, NEW k \in Idx,
             OnImage(table, content, i, k, b), Settled(call, i)
      PROVE  Held(table', content', call', b)
  <2>1. i = Root => k # k0
    BY <1>2, <1>4, <1>9 DEF OnImage, RootEnds
  <2>2. OnImage(table', content', i, k, b)
    BY <1>5, <1>7, <1>9, <2>1 DEF OnImage
  <2>3. Settled(call', i)
    BY <1>8, <1>9, RunsIs DEF Settled
  <2> QED BY <2>2, <2>3 DEF Held
<1>10. ASSUME NEW b \in ctx'.blocks, Points(c, b)
       PROVE  Held(table', content', call', b)
  <2>1. b = c.blk
    BY <1>2, <1>3, <1>10, EmptyIs DEF Points
  <2>2. OnImage(table', content', Root, k0, b)
    BY <1>4, <1>5, <2>1 DEF OnImage
  <2>3. Settled(call', Root)
    BY <1>2, <1>8, RunsIs DEF Settled, Changes, Good, Sound, CallsInv, OneCallInv
  <2> QED BY <1>4, <2>2, <2>3 DEF Held
<1>11. \A p \in Names, j \in Inodes : Entry(table, content, p, j) => Used(table', content', call', j)
  BY <1>7 DEF Used
<1>12. Used(table', content', call', c.ino)
  BY <1>3, <1>7 DEF Used
<1>13. \A b \in ctx'.blocks \ ctx.blocks : Held(table', content', call', b)
  BY <1>1
<1>14. \A i \in ctx'.inodes \ ctx.inodes : Used(table', content', call', i)
  BY <1>1
<1>15. \A i \in ctx'.inodes, p \in Names : Entry(table, content, p, i) => Used(table', content', call', i)
  BY <1>2, <1>11
<1>16. call' = [call EXCEPT ![t] = Idle] /\ call \in [Workers -> Call]
  BY <1>1, <1>2
<1> QED BY <1>9, <1>10, <1>12, <1>13, <1>14, <1>15, <1>16, NoneLostStep DEF UpLosesNothing

LEMMA UnlinkLoses ==
    ASSUME FuseInv, FuseInv', NEW t \in Workers, NEW n \in Names, Unlink(t, n)
    PROVE  UpLosesNothing
<1>1. /\ Good(ctx, table, content, call) /\ call \in [Workers -> Call] /\ ctx'.inodes \subseteq Inodes
      /\ phase = "up" /\ ~Busy(t) /\ ctx' = ctx /\ table' = table
  BY UpTypes DEF Unlink
<1>2. Types(ctx, table, content, call) /\ DirInv(ctx, table, content)
  BY <1>1 DEF Good, Sound
<1>3. PICK k1 \in Lookup(n) :
          call' = [call EXCEPT ![t] = [Started("unlink", n, DirCell(k1).inode, "free")
                                         EXCEPT !.inode = table[DirCell(k1).inode]]]
  BY DEF Unlink
<1> DEFINE i0 == DirCell(k1).inode
           x  == [Started("unlink", n, i0, "free") EXCEPT !.inode = table[i0]]
<1>4. k1 \in Idx /\ i0 \in Inodes /\ Slot(table, content, k1, n, i0)
  BY <1>2, LookupIs
<1>5. x.op = "unlink" /\ x.ino = i0 /\ x.inode = table[i0] /\ Changes(x) /\ Runs(x)
  BY DEF Started, Changes, Runs
<1>6. call' = [call EXCEPT ![t] = x]
  BY <1>3
<1>7. i0 \notin {0, Root}
  BY <1>2, <1>4 DEF DirInv
<1> HIDE DEF x, i0
<1>8. PICK k0 \in Idx, i \in Inodes :
          Slot(table, content, k0, n, i) /\ NameRemoved(table, content, table', content', k0)
  BY UnlinkKeeps
<1>9. k0 = k1
  BY <1>2, <1>4, <1>8 DEF DirInv
<1>10. ASSUME NEW p \in Names, NEW j \in Inodes, Entry(table, content, p, j), j # i0
       PROVE  Entry(table', content', p, j)
  <2>1. PICK k \in Idx : Slot(table, content, k, p, j)
    BY <1>10 DEF Entry
  <2>2. k # k1
    BY <1>4, <1>10, <2>1, EntryIs DEF Slot
  <2> QED BY <1>8, <1>9, <2>1, <2>2 DEF NameRemoved, Entry
<1>11. call'[t] = x /\ \A u \in Workers \ {t} : call'[u] = call[u]
  BY <1>1, <1>6
<1>12. ASSUME NEW b \in ctx'.blocks, NEW j \in Inodes, NEW k \in Idx,
              OnImage(table, content, j, k, b), Settled(call, j)
       PROVE  Held(table', content', call', b)
  <2>1. CASE j = i0
    BY <1>5, <1>11, <1>12, <2>1 DEF Held, Points, OnImage
  <2>2. CASE j # i0
    <3>1. OnImage(table', content', j, k, b)
      BY <1>1, <1>10, <1>12, <2>2 DEF OnImage
    <3>2. Settled(call', j)
      BY <1>5, <1>11, <1>12, <2>2 DEF Settled
    <3> QED BY <3>1, <3>2 DEF Held
  <2> QED BY <2>1, <2>2
<1>13. \A j \in ctx'.inodes, p \in Names : Entry(table, content, p, j) => Used(table', content', call', j)
  BY <1>1, <1>5, <1>10, <1>11 DEF Used
<1>14. ~Changes(call[t]) /\ ~Runs(call[t])
  BY <1>1, RunsIs DEF Busy, Runs, Changes
<1>15. /\ \A b \in ctx'.blocks \ ctx.blocks : Held(table', content', call', b)
       /\ \A j \in ctx'.inodes \ ctx.inodes : Used(table', content', call', j)
  BY <1>1
<1>16. call \in [Workers -> Call]
  BY <1>1
<1> QED BY <1>6, <1>12, <1>13, <1>14, <1>15, <1>16, NoneLostStep DEF UpLosesNothing

LEMMA FreeFileLoses ==
    ASSUME FuseInv, FuseInv', NEW t \in Workers, FreeFile(t)
    PROVE  UpLosesNothing
<1> DEFINE c   == call[t]
           set == {k \in Idx : c.inode.block[k] # NoBlock}
<1>1. c.op = "unlink" /\ c.at = "free" /\ Busy(t) /\ table' = table /\ content' = content
  BY DEF FreeFile, At, Busy, image
<1>2. /\ Good(ctx, table, content, call) /\ call \in [Workers -> Call] /\ NoBlock \notin ctx'.blocks
  BY <1>1, UpTypes
<1>3. /\ c \in Running /\ Changes(c) /\ Runs(c) /\ c.blk = NoBlock
      /\ \A n \in Names, i \in Inodes : Entry(table, content, n, i) => i # c.ino
      /\ c.ino # Root
  BY <1>1, <1>2, OwnInode DEF OneCallInv, UnlinkInv, Changes
<1>4. DirStays
  BY <1>1, Stays
<1>5. CASE \E k \in First(set) :
              /\ ctx' = WithoutBlock(ctx, c.inode.block[k])
              /\ call' = [call EXCEPT ![t].inode.block[k] = NoBlock]
  <2>1. PICK k \in First(set) :
              /\ ctx' = WithoutBlock(ctx, c.inode.block[k])
              /\ call' = [call EXCEPT ![t].inode.block[k] = NoBlock]
    BY <1>5
  <2>2. k \in Idx /\ c.inode.block[k] # NoBlock
    BY DEF First
  <2> DEFINE f == [c.inode.block EXCEPT ![k] = NoBlock]
             y == [c.inode EXCEPT !.block = f]
             x == [c EXCEPT !.inode = y]
  <2>3. c.inode \in Inode /\ c.inode.block \in [Idx -> DataBlocks \cup {NoBlock}]
    BY <1>3 DEF Running, Inode
  <2>4. call' = [call EXCEPT ![t] = x]
    BY <1>2, <2>1
  <2>5. \A l \in Idx \ {k} : f[l] = c.inode.block[l]
    BY <2>2, <2>3
  <2> HIDE DEF f
  <2>6. y.block = f
    BY <2>3 DEF Inode
  <2> HIDE DEF y
  <2>7. x.op = "unlink" /\ x.ino = c.ino /\ x.inode = y /\ Changes(x) /\ Runs(x)
    BY <1>1, <1>3 DEF Running, Changes, Runs
  <2> HIDE DEF x
  <2>8. ctx'.inodes = ctx.inodes /\ ctx'.blocks = ctx.blocks \ {c.inode.block[k]}
    BY <1>2, <2>1 DEF WithoutBlock, Good, Types, Metadata
  <2>9. call'[t] = x
    BY <1>2, <2>4
  <2>10. ASSUME NEW b \in ctx'.blocks, Points(c, b)
         PROVE  Held(table', content', call', b)
    <3>1. PICK l \in Idx : c.inode.block[l] = b
      BY <1>2, <1>3, <2>10 DEF Points
    <3>2. l # k
      BY <2>8, <3>1
    <3>3. x.inode.block[l] = b
      BY <2>5, <2>6, <2>7, <3>1, <3>2
    <3> QED BY <2>7, <2>9, <3>3 DEF Held, Points
  <2>11. Used(table', content', call', c.ino)
    BY <2>7, <2>9 DEF Used
  <2>12. /\ \A b \in ctx'.blocks \ ctx.blocks : Held(table', content', call', b)
         /\ \A i \in ctx'.inodes \ ctx.inodes : Used(table', content', call', i)
    BY <2>8
  <2>13. \A b \in ctx'.blocks, i \in Inodes, l \in Idx :
             OnImage(table, content, i, l, b) /\ Changes(x) /\ x.ino = i => Points(x, b)
    BY <1>3, <2>7 DEF OnImage
  <2>14. call \in [Workers -> Call] /\ table' = table
    BY <1>1, <1>2
  <2> QED BY <1>4, <2>4, <2>10, <2>11, <2>12, <2>13, <2>14, NoneLostQuiet DEF UpLosesNothing, DirStays
<1>6. CASE set = {} /\ ctx' = WithoutInode(ctx, c.ino) /\ Return(t)
  <2>1. ctx'.blocks = ctx.blocks /\ ctx'.inodes = ctx.inodes \ {c.ino}
    BY <1>2, <1>6 DEF WithoutInode, Good, Types, Metadata
  <2>2. \A b \in ctx'.blocks : ~Points(c, b)
    BY <1>2, <1>3, <1>6 DEF Points
  <2>3. call' = [call EXCEPT ![t] = Idle] /\ ~Changes(Idle)
    BY <1>6, RunsIs DEF Return
  <2>4. /\ \A b \in ctx'.blocks \ ctx.blocks : Held(table', content', call', b)
        /\ \A i \in ctx'.inodes \ ctx.inodes : Used(table', content', call', i)
        /\ c.ino \notin ctx'.inodes
    BY <2>1
  <2>5. call \in [Workers -> Call] /\ table' = table
    BY <1>1, <1>2
  <2> QED BY <1>4, <2>2, <2>3, <2>4, <2>5, NoneLostQuiet DEF UpLosesNothing, DirStays
<1> QED BY <1>5, <1>6 DEF FreeFile

\* A read or a write that begins takes a copy of its inode.
LEMMA OpenLoses ==
    ASSUME FuseInv, FuseInv', phase = "up", NEW t \in Workers, ~Busy(t),
           UNCHANGED <<ctx, table, content>>,
           NEW x, call' = [call EXCEPT ![t] = x], x.inode = table[x.ino]
    PROVE  UpLosesNothing
<1>1. call \in [Workers -> Call]
  BY UpTypes
<1>2. ~Changes(call[t]) /\ ~Runs(call[t])
  BY DEF Busy, Runs, Changes
<1>3. \A b \in ctx'.blocks, i \in Inodes, k \in Idx :
          OnImage(table, content, i, k, b) /\ Changes(x) /\ x.ino = i => Points(x, b)
  BY DEF OnImage, Points
<1>4. DirStays
  BY Stays
<1> QED BY <1>1, <1>2, <1>3, <1>4, NoneLostQuiet DEF UpLosesNothing, DirStays

LEMMA WriteLoses ==
    ASSUME FuseInv, FuseInv', NEW t \in Workers, NEW n \in Names, NEW z \in Extents,
           Write(t, n, z[1], z[2])
    PROVE  UpLosesNothing
<1>1. PICK k \in Lookup(n) :
          call' = [call EXCEPT ![t] = [Started("write", n, DirCell(k).inode, "block")
                                         EXCEPT !.inode = table[DirCell(k).inode], !.k = z[1], !.to = z[2]]]
  BY DEF Write
<1> DEFINE x == [Started("write", n, DirCell(k).inode, "block")
                   EXCEPT !.inode = table[DirCell(k).inode], !.k = z[1], !.to = z[2]]
<1>2. x.inode = table[x.ino] /\ call' = [call EXCEPT ![t] = x]
  BY <1>1 DEF Started
<1> HIDE DEF x
<1>3. phase = "up" /\ ~Busy(t) /\ UNCHANGED <<ctx, table, content>>
  BY DEF Write, image
<1> QED BY <1>2, <1>3, OpenLoses

LEMMA ReadLoses ==
    ASSUME FuseInv, FuseInv', NEW t \in Workers, NEW n \in Names, Read(t, n)
    PROVE  UpLosesNothing
<1>1. PICK k \in Lookup(n) :
          call' = [call EXCEPT ![t] = [Started("read", n, DirCell(k).inode, "record")
                                         EXCEPT !.inode = table[DirCell(k).inode]]]
  BY DEF Read
<1> DEFINE x == [Started("read", n, DirCell(k).inode, "record") EXCEPT !.inode = table[DirCell(k).inode]]
<1>2. x.inode = table[x.ino] /\ call' = [call EXCEPT ![t] = x]
  BY <1>1 DEF Started
<1> HIDE DEF x
<1>3. phase = "up" /\ ~Busy(t) /\ UNCHANGED <<ctx, table, content>>
  BY DEF Read, image
<1> QED BY <1>2, <1>3, OpenLoses

LEMMA WriteBlockLoses ==
    ASSUME FuseInv, FuseInv', NEW t \in Workers, WriteBlock(t), call'[t] # Idle
    PROVE  UpLosesNothing
<1> DEFINE c    == call[t]
           next == IF c.k = c.to THEN [c EXCEPT !.at = "record"] ELSE [c EXCEPT !.k = @ + 1]
<1>1. c.op = "write" /\ c.at = "block" /\ Busy(t) /\ table' = table /\ DirStays
  BY WriteBlockKeeps DEF WriteBlock, At, Busy
<1>2. Good(ctx, table, content, call) /\ call \in [Workers -> Call] /\ NoBlock \notin ctx'.blocks
  BY <1>1, UpTypes
<1>3. /\ c \in Running /\ Changes(c) /\ Runs(c) /\ c.blk = NoBlock /\ c.inode \in Inode
      /\ Entry(table, content, c.name, c.ino) /\ c.name \in Names
  BY <1>1, <1>2, RunsIs DEF Good, Sound, CallsInv, OneCallInv, WriteInv, Running, Changes, Runs, Busy
<1>4. next \in Running /\ next.op = "write" /\ next.ino = c.ino /\ next.inode = c.inode /\ next.blk = NoBlock
  <2>1. CASE c.k = c.to
    BY <2>1, <1>1, <1>3 DEF Running
  <2>2. CASE c.k # c.to
    BY <2>2, <1>1, <1>3 DEF Running
  <2> QED BY <2>1, <2>2
<1> HIDE DEF next
<1>5. ASSUME NEW x, call' = [call EXCEPT ![t] = x], x.op = "write", x.ino = c.ino,
             ctx'.inodes = ctx.inodes,
             \A b \in ctx'.blocks : Points(c, b) => Points(x, b),
             \A b \in ctx'.blocks \ ctx.blocks : Points(x, b)
      PROVE  UpLosesNothing
  <2>1. call'[t] = x /\ Changes(x) /\ Runs(x)
    BY <1>2, <1>5 DEF Changes, Runs
  <2>2. /\ \A b \in ctx'.blocks : Changes(c) /\ Points(c, b) => Held(table', content', call', b)
        /\ \A b \in ctx'.blocks \ ctx.blocks : Held(table', content', call', b)
    BY <1>5, <2>1 DEF Held
  <2>3. Used(table', content', call', c.ino)
    BY <1>5, <2>1 DEF Used
  <2>4. \A i \in ctx'.inodes \ ctx.inodes : Used(table', content', call', i)
    BY <1>5
  <2>5. ASSUME NEW b \in ctx'.blocks, NEW i \in Inodes, NEW k \in Idx,
               OnImage(table, content, i, k, b), Settled(call, i)
        PROVE  Held(table', content', call', b)
    <3>1. i # c.ino
      BY <1>3, <2>5 DEF Settled
    <3>2. Settled(call', i)
      BY <1>2, <1>5, <2>5, <3>1 DEF Settled
    <3>3. OnImage(table', content', i, k, b)
      BY <1>1, <2>5, SlotsKept DEF OnImage, DirStays
    <3> QED BY <3>2, <3>3 DEF Held
  <2>6. \A i \in ctx'.inodes, n \in Names : Entry(table, content, n, i) => Used(table', content', call', i)
    BY <1>1, SlotsKept DEF Used, DirStays
  <2>7. call \in [Workers -> Call] /\ call' = [call EXCEPT ![t] = x]
    BY <1>2, <1>5
  <2> QED BY <2>2, <2>3, <2>4, <2>5, <2>6, <2>7, NoneLostStep DEF UpLosesNothing
<1>6. CASE /\ BlockAt(c) # NoBlock
           /\ content' = [content EXCEPT ![BlockAt(c)] = Data]
           /\ call' = [call EXCEPT ![t] = next]
           /\ UNCHANGED ctx
  BY <1>3, <1>4, <1>5, <1>6 DEF Points
<1>7. CASE \E b \in FreeBlock :
              /\ BlockAt(c) = NoBlock /\ c.k \in Idx
              /\ ctx' = WithBlock(ctx, b)
              /\ content' = [content EXCEPT ![b] = Data]
              /\ call' = [call EXCEPT ![t] = [next EXCEPT !.inode.block[c.k] = b]]
  <2>1. PICK b \in FreeBlock :
              /\ BlockAt(c) = NoBlock /\ c.k \in Idx
              /\ ctx' = WithBlock(ctx, b)
              /\ call' = [call EXCEPT ![t] = [next EXCEPT !.inode.block[c.k] = b]]
    BY <1>7
  <2> DEFINE f == [c.inode.block EXCEPT ![c.k] = b]
             y == [c.inode EXCEPT !.block = f]
             x == [next EXCEPT !.inode = y]
  <2>2. b \in DataBlocks \ ctx.blocks /\ c.inode.block \in [Idx -> DataBlocks \cup {NoBlock}]
    BY <1>3, FreeIs DEF Inode
  <2>3. call' = [call EXCEPT ![t] = x]
    BY <1>4, <2>1
  <2>4. f[c.k] = b /\ \A k \in Idx \ {c.k} : f[k] = c.inode.block[k]
    BY <2>1, <2>2
  <2> HIDE DEF f
  <2>5. y.block = f
    BY <1>3 DEF Inode
  <2> HIDE DEF y
  <2>6. x.op = "write" /\ x.ino = c.ino /\ x.blk = NoBlock /\ x.inode = y
    BY <1>4 DEF Running
  <2> HIDE DEF x
  <2>7. ctx'.blocks = ctx.blocks \cup {b} /\ ctx'.inodes = ctx.inodes
    BY <1>2, <2>1, <2>2 DEF WithBlock, Good, Types, Metadata
  <2>8. \A k \in Idx : k = c.k => c.inode.block[k] = NoBlock
    BY <2>1 DEF BlockAt
  <2>9. ASSUME NEW d \in ctx'.blocks, Points(c, d)
        PROVE  Points(x, d)
    <3>1. PICK k \in Idx : c.inode.block[k] = d
      BY <1>2, <1>3, <2>9 DEF Points
    <3>2. k # c.k
      BY <1>2, <2>8, <3>1
    <3> QED BY <2>4, <2>5, <2>6, <3>1, <3>2 DEF Points
  <2>10. Points(x, b)
    BY <2>1, <2>4, <2>5, <2>6 DEF Points
  <2> QED BY <1>5, <2>3, <2>6, <2>7, <2>9, <2>10
<1>8. CASE Return(t)
  BY <1>2, <1>8 DEF Return
<1> QED BY <1>6, <1>7, <1>8 DEF WriteBlock, next

LEMMA RecordWriteLoses ==
    ASSUME FuseInv, FuseInv', NEW t \in Workers, RecordWrite(t)
    PROVE  UpLosesNothing
<1> DEFINE c == call[t]
           v == [c.inode EXCEPT !.size = IF c.to + 1 > @ THEN c.to + 1 ELSE @]
<1>1. /\ c.op = "write" /\ Busy(t) /\ ctx' = ctx /\ content' = content
      /\ call' = [call EXCEPT ![t] = Idle] /\ table' = [table EXCEPT ![c.ino] = v] /\ DirStays
  BY RecordWriteKeeps DEF RecordWrite, At, Busy, Return
<1>2. /\ Good(ctx, table, content, call) /\ call \in [Workers -> Call] /\ NoBlock \notin ctx'.blocks
      /\ table \in [Inodes -> Inode]
  BY <1>1, UpTypes DEF Good, Types
<1>3. /\ c \in Running /\ Changes(c) /\ Runs(c) /\ c.blk = NoBlock /\ c.inode \in Inode
      /\ Entry(table, content, c.name, c.ino) /\ c.name \in Names /\ c.ino \in Inodes
  BY <1>1, <1>2, RunsIs DEF Good, Sound, CallsInv, OneCallInv, WriteInv, Running, Changes, Runs, Busy
<1>4. v.block = c.inode.block
  BY <1>3 DEF Inode
<1> HIDE DEF v
<1>5. table'[c.ino] = v /\ \A i \in Inodes \ {c.ino} : table'[i] = table[i]
  BY <1>1, <1>2, <1>3
<1>6. call'[t] = Idle /\ \A u \in Workers \ {t} : call'[u] = call[u]
  BY <1>1, <1>2
<1>7. ASSUME NEW u \in Workers \ {t}, Changes(call[u])
      PROVE  call[u].ino # c.ino
  <2>1. CASE call[u].op \in {"create", "unlink"}
    BY <1>2, <1>3, <2>1, OwnInode
  <2>2. CASE call[u].op \notin {"create", "unlink"}
    <3>1. /\ call[u] \in Running /\ call[u].op = "write" /\ Runs(call[u])
          /\ OneCallInv(ctx, table, content, call[u])
      BY <1>2, <1>7, <2>2, RunsIs DEF Changes, Running, Good, Sound, CallsInv
    <3>2. Entry(table, content, call[u].name, call[u].ino) /\ call[u].name \in Names
      BY <3>1 DEF OneCallInv, WriteInv, Running
    <3>3. call[u].name # c.name
      BY <1>1, <1>2, <3>1 DEF Good, Sound, CallsInv, Exclude
    <3>4. ASSUME call[u].ino = c.ino
          PROVE  FALSE
      <4>1. PICK k \in Idx : Slot(table, content, k, c.name, c.ino)
        BY <1>3 DEF Entry
      <4>2. PICK l \in Idx : Slot(table, content, l, call[u].name, c.ino)
        BY <3>2, <3>4 DEF Entry
      <4>3. k = l
        BY <1>2, <1>3, <3>2, <4>1, <4>2 DEF Good, Sound, DirInv
      <4> QED BY <1>3, <3>2, <3>3, <4>1, <4>2, <4>3, EntryIs DEF Slot
    <3> QED BY <3>4
  <2> QED BY <2>1, <2>2
<1>8. Settled(call', c.ino)
  BY <1>6, <1>7, RunsIs DEF Settled
<1>9. \A n, i : Entry(table', content', n, i) <=> Entry(table, content, n, i)
  BY <1>1, SlotsKept DEF DirStays
<1>10. ASSUME NEW b \in ctx'.blocks, Points(c, b)
       PROVE  Held(table', content', call', b)
  <2>1. PICK k \in Idx : c.inode.block[k] = b
    BY <1>2, <1>3, <1>10 DEF Points
  <2>2. OnImage(table', content', c.ino, k, b)
    BY <1>3, <1>4, <1>5, <1>9, <2>1 DEF OnImage
  <2> QED BY <1>3, <1>8, <2>2 DEF Held
<1>11. Used(table', content', call', c.ino)
  BY <1>3, <1>9 DEF Used
<1>12. \A i \in Inodes, n \in Names : Entry(table, content, n, i) /\ Settled(call, i) => table'[i] = table[i]
  BY <1>3, <1>5 DEF Settled
<1>13. \A b \in ctx'.blocks, i \in Inodes, k \in Idx :
           OnImage(table, content, i, k, b) /\ Changes(Idle) /\ Idle.ino = i => Points(Idle, b)
  BY RunsIs
<1>14. /\ \A b \in ctx'.blocks \ ctx.blocks : Held(table', content', call', b)
       /\ \A i \in ctx'.inodes \ ctx.inodes : Used(table', content', call', i)
  BY <1>1
<1>15. /\ call' = [call EXCEPT ![t] = Idle] /\ call \in [Workers -> Call]
       /\ SameDir(table, content, table', content')
  BY <1>1, <1>2 DEF DirStays
<1> QED BY <1>10, <1>11, <1>12, <1>13, <1>14, <1>15, NoneLostQuiet DEF UpLosesNothing

\* Mounts, unmounts and fsck change no block and no inode that is marked.
LEMMA ToolsLose ==
    ASSUME FuseInv, FuseInv', Mount \/ Unmount \/ SyncInodes \/ SyncBlocks \/ Fsck \/ UNCHANGED vars
    PROVE  NoneLost(Current, table, content, call, Current', table', content', call')
<1>1. saved \in Metadata
  BY DEF FuseInv, TypeOK
<1>2. /\ table' = table /\ content' = content /\ call' = call
      /\ Current'.blocks = Current.blocks /\ Current'.inodes = Current.inodes
  <2>1. CASE Mount
    BY <2>1 DEF Mount, image, Current
  <2>2. CASE Unmount
    BY <2>2 DEF Unmount, Current
  <2>3. CASE SyncInodes
    BY <2>3 DEF SyncInodes, Current
  <2>4. CASE SyncBlocks
    <3>1. saved.inodes = ctx.inodes /\ phase = "inodes"
      BY <2>4 DEF SyncBlocks, FuseInv, PhaseInv
    <3> QED BY <1>1, <2>4, <3>1 DEF SyncBlocks, Current, Metadata
  <2>5. CASE Fsck
    BY <1>1, <2>5 DEF Fsck, Current, Metadata
  <2>6. CASE UNCHANGED vars
    BY <2>6 DEF vars, Current
  <2> QED BY <2>1, <2>2, <2>3, <2>4, <2>5, <2>6
<1> QED BY <1>2 DEF NoneLost

SpaceStep ==
    \/ Leaked' \subseteq Leaked /\ LeakedInodes' \subseteq LeakedInodes
    \/ Death
    \/ \E t \in Workers :
          /\ Busy(t)
          /\ call'[t] = Idle
          /\ call[t].at \in {"undo", "block"} \/ call[t].op = "read"

LEMMA UpLoses ==
    ASSUME FuseInv, FuseInv', UpLosesNothing, phase = "up", phase' = "up"
    PROVE  SpaceStep
<1>1. Current = ctx /\ Current' = ctx'
  BY DEF Current
<1>2. TypeOK /\ TypeOK'
  BY DEF FuseInv
<1> QED BY <1>1, <1>2, NoneLostIs DEF UpLosesNothing, SpaceStep

LEMMA NextSpace ==
    ASSUME FuseInv, RootEnds, [Next]_vars
    PROVE  SpaceStep
<1>1. FuseInv'
  BY NextFuse
<1>2. ASSUME NEW t \in Workers, NEW n \in Names,
             \/ Create(t, n)
             \/ Unlink(t, n)
             \/ Read(t, n)
             \/ \E x \in Extents : Write(t, n, x[1], x[2])
      PROVE  SpaceStep
  <2>1. UpLosesNothing
    BY <1>1, <1>2, CreateLoses, UnlinkLoses, ReadLoses, WriteLoses
  <2>2. phase = "up" /\ phase' = phase
    BY <1>2 DEF Create, Unlink, Read, Write, life
  <2> QED BY <1>1, <2>1, <2>2, UpLoses
<1>3. ASSUME NEW t \in Workers,
             \/ AddDirEntry(t) \/ LinkDirBlock(t) \/ FreeFile(t)
             \/ WriteBlock(t) /\ call'[t] # Idle
             \/ RecordWrite(t)
      PROVE  SpaceStep
  <2>1. UpLosesNothing
    BY <1>1, <1>3, AddDirEntryLoses, LinkDirBlockLoses, FreeFileLoses, WriteBlockLoses, RecordWriteLoses
  <2>2. Busy(t) /\ phase' = phase
    BY <1>3 DEF AddDirEntry, LinkDirBlock, FreeFile, WriteBlock, RecordWrite, At, Busy, life
  <2>3. phase = "up"
    BY <2>2, WhileUp
  <2> QED BY <1>1, <2>1, <2>2, <2>3, UpLoses
<1>4. ASSUME NEW t \in Workers,
             UndoCreate(t) \/ RecordRead(t) \/ (WriteBlock(t) /\ call'[t] = Idle)
      PROVE  SpaceStep
  <2>1. call \in [Workers -> Call]
    BY DEF FuseInv, TypeOK
  <2>2. Busy(t) /\ call'[t] = Idle /\ (call[t].at \in {"undo", "block"} \/ call[t].op = "read")
    BY <1>4, <2>1 DEF UndoCreate, RecordRead, WriteBlock, At, Busy, Return
  <2> QED BY <2>2 DEF SpaceStep
<1>5. CASE Mount \/ Unmount \/ SyncInodes \/ SyncBlocks \/ Fsck \/ UNCHANGED vars
  <2>1. TypeOK /\ TypeOK'
    BY <1>1 DEF FuseInv
  <2> QED BY <1>1, <1>5, <2>1, ToolsLose, NoneLostIs DEF SpaceStep
<1>6. CASE Death
  BY <1>6 DEF SpaceStep
<1> QED BY <1>2, <1>3, <1>4, <1>5, <1>6 DEF Next

\* Only a create or a write that returns an error, a read that writes an old
\* inode back and a death leave a block or an inode marked that nothing uses.
THEOREM SuccessKeepsSpace == Spec => SuccessLosesNothing
<1>1. Init => RootEnds
  BY RootEndsInit
<1>2. FuseInv /\ RootEnds /\ [Next]_vars => RootEnds'
  BY RootEndsKeeps
<1>3. FuseInv /\ RootEnds /\ [Next]_vars =>
         [\/ Leaked' \subseteq Leaked /\ LeakedInodes' \subseteq LeakedInodes
          \/ Death
          \/ \E t \in Workers :
                /\ Busy(t)
                /\ call'[t] = Idle
                /\ call[t].at \in {"undo", "block"} \/ call[t].op = "read"]_vars
  BY NextSpace DEF SpaceStep
<1> QED
  BY <1>1, <1>2, <1>3, FuseInvariant, PTL DEF Spec, SuccessLosesNothing

-----------------------------------------------------------------------------
(* Reads with one worker *)

OneWorker == \E t : Workers = {t}

\* What a read under way writes back is the inode as it is.
ReadsCurrent == \A t \in Workers : call[t].op = "read" => call[t].inode = table[call[t].ino]

\* With one worker, the driver started with -s, a read changes nothing of the
\* file: no write ends between its two accesses to the inode.  With two it does.
THEOREM OneReaderKeepsFiles == ASSUME OneWorker PROVE Spec => ReadsKeepFiles
<1>1. Init => ReadsCurrent
  BY DEF Init, ReadsCurrent, Idle
<1>2. FuseInv /\ ReadsCurrent /\ [Next]_vars => ReadsCurrent'
  <2> SUFFICES ASSUME FuseInv, ReadsCurrent, [Next]_vars
               PROVE  ReadsCurrent'
    OBVIOUS
  <2>1. PICK w : Workers = {w}
    BY DEF OneWorker
  <2>2. call \in [Workers -> Call] /\ call' \in [Workers -> Call]
    BY NextFuse DEF FuseInv, TypeOK
  <2>3. SUFFICES ASSUME call'[w].op = "read"
                 PROVE  call'[w].inode = table'[call'[w].ino]
    BY <2>1 DEF ReadsCurrent
  <2>4. CASE \E n \in Names : Read(w, n)
    BY <2>1, <2>2, <2>4 DEF Read, Started, image
  <2>5. CASE UNCHANGED <<call, table>>
    BY <2>1, <2>3, <2>5 DEF ReadsCurrent
  <2>6. CASE \/ AddDirEntry(w) \/ LinkDirBlock(w) \/ UndoCreate(w) \/ FreeFile(w)
             \/ WriteBlock(w) \/ RecordWrite(w) \/ RecordRead(w) \/ Death
             \/ \E n \in Names : \/ Create(w, n) \/ Unlink(w, n)
                                 \/ \E x \in Extents : Write(w, n, x[1], x[2])
    <3>1. \/ call'[w] = Idle
          \/ call'[w].op = call[w].op /\ call[w].op # "read"
          \/ call'[w].op \in {"create", "unlink", "write"}
      <4> DEFINE c == call[w]
      <4>0. /\ c.op # "none" => c \in Running
            /\ \A x : call' = [call EXCEPT ![w] = x] => call'[w] = x
        BY <2>1, <2>2, CallIs DEF Idle
      <4>1. CASE AddDirEntry(w)
        <5>1. c.op = "create" /\ c \in Running
          BY <4>0, <4>1 DEF AddDirEntry, At
        <5>2. /\ [c EXCEPT !.at = "undo"].op = "create"
              /\ \A b, at : [c EXCEPT !.blk = b, !.at = at].op = "create"
          BY <5>1 DEF Running
        <5>3. CASE call' = [call EXCEPT ![w] = Idle]
          BY <4>0, <5>3
        <5>4. ASSUME NEW b, NEW at, call' = [call EXCEPT ![w].blk = b, ![w].at = at]
              PROVE  call'[w].op = "create"
          <6>1. call'[w] = [c EXCEPT !.blk = b, !.at = at]
            BY <2>2, <5>4
          <6> QED BY <5>2, <6>1
        <5>5. CASE call' = [call EXCEPT ![w].at = "undo"]
          <6>1. call'[w] = [c EXCEPT !.at = "undo"]
            BY <2>2, <5>5
          <6> QED BY <5>2, <6>1
        <5> QED BY <4>1, <5>3, <5>4, <5>5 DEF AddDirEntry, Return
      <4>2. CASE FreeFile(w)
        <5>1. c.op = "unlink" /\ c \in Running
          BY <4>0, <4>2 DEF FreeFile, At
        <5>2. ASSUME NEW k, call' = [call EXCEPT ![w].inode.block[k] = NoBlock]
              PROVE  call'[w].op = "unlink"
          <6>1. call'[w] = [c EXCEPT !.inode.block[k] = NoBlock]
            BY <2>2, <5>2
          <6>2. [c EXCEPT !.inode.block[k] = NoBlock].op = c.op
            BY <5>1 DEF Running
          <6> QED BY <5>1, <6>1, <6>2
        <5> QED BY <4>0, <4>2, <5>2 DEF FreeFile, Return
      <4>3. CASE WriteBlock(w)
        <5> DEFINE next == IF c.k = c.to THEN [c EXCEPT !.at = "record"]
                           ELSE [c EXCEPT !.k = @ + 1]
        <5>1. c.op = "write" /\ c \in Running
          BY <4>0, <4>3 DEF WriteBlock, At
        <5>2. next.op = "write" /\ \A k, b : [next EXCEPT !.inode.block[k] = b].op = "write"
          BY <5>1 DEF Running
        <5>3. \E x : call' = [call EXCEPT ![w] = x] /\ (x = Idle \/ x.op = "write")
          <6>1. \/ call' = [call EXCEPT ![w] = next]
                \/ \E b : call' = [call EXCEPT ![w] = [next EXCEPT !.inode.block[c.k] = b]]
                \/ call' = [call EXCEPT ![w] = Idle]
            BY <4>3 DEF WriteBlock, Return
          <6> HIDE DEF next
          <6>2. ASSUME NEW b, call' = [call EXCEPT ![w] = [next EXCEPT !.inode.block[c.k] = b]]
                PROVE  \E x : call' = [call EXCEPT ![w] = x] /\ x.op = "write"
            <7> WITNESS [next EXCEPT !.inode.block[c.k] = b]
            <7> QED BY <5>2, <6>2
          <6> QED BY <5>2, <6>1, <6>2
        <5> QED BY <4>0, <5>3
      <4>4. CASE LinkDirBlock(w) \/ UndoCreate(w) \/ RecordWrite(w) \/ RecordRead(w) \/ Death
        BY <2>1, <4>0, <4>4 DEF LinkDirBlock, UndoCreate, RecordWrite, RecordRead, Death, Return
      <4>5. ASSUME NEW n \in Names, Create(w, n) \/ Unlink(w, n)
            PROVE  call'[w] = Idle \/ call'[w].op \in {"create", "unlink", "write"}
        <5>1. CASE Create(w, n)
          BY <2>1, <4>0, <5>1 DEF Create, Return, Started
        <5>2. CASE Unlink(w, n)
          <6>1. PICK i, v : call' = [call EXCEPT ![w] =
                               [Started("unlink", n, i, "free") EXCEPT !.inode = v]]
            BY <5>2 DEF Unlink
          <6>2. call'[w] = [Started("unlink", n, i, "free") EXCEPT !.inode = v]
            BY <2>1, <2>2, <6>1
          <6> QED BY <6>2 DEF Started
        <5> QED BY <4>5, <5>1, <5>2
      <4>6. ASSUME NEW n \in Names, NEW x \in Extents, Write(w, n, x[1], x[2])
            PROVE  call'[w].op \in {"create", "unlink", "write"}
        BY <2>2, <4>6 DEF Write, Started
      <4> QED BY <2>6, <4>1, <4>2, <4>3, <4>4, <4>5, <4>6
    <3>2. Idle.op # "read"
      BY DEF Idle
    <3> QED BY <2>3, <3>1, <3>2
  <2>7. CASE Mount \/ Unmount \/ SyncInodes \/ SyncBlocks \/ Fsck \/ UNCHANGED vars
    BY <2>5, <2>7 DEF Mount, Unmount, SyncInodes, SyncBlocks, Fsck, vars, image
  <2> QED BY <2>1, <2>4, <2>6, <2>7 DEF Next
<1>3. FuseInv /\ ReadsCurrent => (\A t \in Workers : RecordRead(t) => table' = table)
  <2> SUFFICES ASSUME FuseInv, ReadsCurrent, NEW t \in Workers, RecordRead(t)
               PROVE  table' = table
    OBVIOUS
  <2>1. table' = [table EXCEPT ![call[t].ino] = table[call[t].ino]]
    BY DEF RecordRead, At, ReadsCurrent
  <2>2. table \in [Inodes -> Inode]
    BY DEF FuseInv, TypeOK
  <2> QED BY <2>1, <2>2
<1>4. FuseInv /\ ReadsCurrent /\ [Next]_vars
      => [\A t \in Workers : RecordRead(t) => table' = table]_vars
  BY <1>3
<1> QED
  BY <1>1, <1>2, <1>4, FuseInvariant, PTL DEF Spec, ReadsKeepFiles

=============================================================================
