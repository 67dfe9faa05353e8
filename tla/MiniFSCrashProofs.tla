------------------------- MODULE MiniFSCrashProofs --------------------------
(***************************************************************************)
(* Proofs about module MiniFSCrash: of callbacks whose paths fit the       *)
(* buffers, as the module has no others (ReadyIn).                         *)
(***************************************************************************)
EXTENDS MiniFSCrash, MiniFSDiskProofs, SequenceTheorems

-----------------------------------------------------------------------------
(* Images and the writes that change them *)

\* An image: inode bitmap, block bitmap, inode table, data blocks, superblock.
Im(ib, bb, it, bl, c) == [ib |-> ib, bb |-> bb, it |-> it, bl |-> bl, sb |-> c]

Image == Im(inodeBitmap, blockBitmap, inodeTable, block, diskSb)

Contents == [Slots -> Cell]

BlockWrites ==
    [to : {"inode bitmap"}, i : Inodes, used : BOOLEAN]
    \cup [to : {"block bitmap"}, B : SUBSET DataBlocks, used : BOOLEAN]
    \cup [to : {"inode table"}, i : Inodes, r : Inode]
    \cup [to : {"data"}, b : DataBlocks, c : Contents]
    \cup {Superblock}

\* The image after a write, with the counters c in memory.
Written(g, w, c) ==
    Im(IF w.to = "inode bitmap" THEN IF w.used THEN g.ib \cup {w.i} ELSE g.ib \ {w.i} ELSE g.ib,
       IF w.to = "block bitmap" THEN IF w.used THEN g.bb \cup w.B ELSE g.bb \ w.B ELSE g.bb,
       IF w.to = "inode table" THEN [g.it EXCEPT ![w.i] = w.r] ELSE g.it,
       IF w.to = "data" THEN [g.bl EXCEPT ![w.b] = w.c] ELSE g.bl,
       IF w.to = "superblock" THEN c ELSE g.sb)

LEMMA WrittenIs ==
    ASSUME NEW ib, NEW bb, NEW it, NEW bl, NEW d, NEW c
    PROVE  /\ \A i : Written(Im(ib, bb, it, bl, d), InodeBit(i, TRUE), c) = Im(ib \cup {i}, bb, it, bl, d)
           /\ \A i : Written(Im(ib, bb, it, bl, d), InodeBit(i, FALSE), c) = Im(ib \ {i}, bb, it, bl, d)
           /\ \A B : Written(Im(ib, bb, it, bl, d), BlockBits(B, TRUE), c) = Im(ib, bb \cup B, it, bl, d)
           /\ \A B : Written(Im(ib, bb, it, bl, d), BlockBits(B, FALSE), c) = Im(ib, bb \ B, it, bl, d)
           /\ \A i, r : Written(Im(ib, bb, it, bl, d), InodeRec(i, r), c)
                            = Im(ib, bb, [it EXCEPT ![i] = r], bl, d)
           /\ \A b, x : Written(Im(ib, bb, it, bl, d), Content(b, x), c)
                            = Im(ib, bb, it, [bl EXCEPT ![b] = x], d)
           /\ Written(Im(ib, bb, it, bl, d), Superblock, c) = Im(ib, bb, it, bl, c)
  BY DEF Written, Im, InodeBit, BlockBits, InodeRec, Content, Superblock

\* A step of the process makes the first write of those to come.
LEMMA StepWrites ==
    ASSUME Step, Head(pending) \in BlockWrites
    PROVE  Image' = Written(Image, Head(pending), sb)
<1>2. CASE WriteInodeBitmap
  BY <1>2 DEF WriteInodeBitmap, Written, Image, Im
<1>3. CASE WriteBlockBitmap
  BY <1>3 DEF WriteBlockBitmap, Written, Image, Im
<1>4. CASE WriteInodeTable
  BY <1>4 DEF WriteInodeTable, Written, Image, Im
<1>5. CASE WriteData
  BY <1>5 DEF WriteData, Written, Image, Im
<1>6. CASE WriteSuperblock
  BY <1>6 DEF WriteSuperblock, Written, Image, Im
<1>7. QED
  BY <1>2, <1>3, <1>4, <1>5, <1>6 DEF Step


LEMMA TwoWrites ==
    ASSUME NEW S, NEW a \in S, NEW b \in S
    PROVE  <<a, b>> = <<a>> \o <<b>>
<1> DEFINE p == <<a, b>>
           q == <<a>> \o <<b>>
<1>1. <<a>> \in Seq(S) /\ <<b>> \in Seq(S) /\ Len(<<a>>) = 1 /\ Len(<<b>>) = 1
      /\ <<a>>[1] = a /\ <<b>>[1] = b
  OBVIOUS
<1>2. p \in Seq(S) /\ Len(p) = 2 /\ p[1] = a /\ p[2] = b
  OBVIOUS
<1>3. q \in Seq(S) /\ Len(q) = 2 /\ q[1] = a /\ q[2] = b
  BY <1>1, ConcatProperties
<1> HIDE DEF p, q
<1>4. \A i \in 1 .. Len(p) : p[i] = q[i]
  BY <1>2, <1>3
<1>5. QED
  BY <1>2, <1>3, <1>4, SeqEqual DEF p, q

LEMMA ThreeWrites ==
    ASSUME NEW S, NEW a \in S, NEW b \in S, NEW c \in S
    PROVE  <<a, b, c>> = <<a, b>> \o <<c>>
<1> DEFINE p == <<a, b, c>>
           q == <<a, b>> \o <<c>>
<1>1. /\ <<a, b>> \in Seq(S) /\ <<c>> \in Seq(S) /\ Len(<<a, b>>) = 2 /\ Len(<<c>>) = 1
      /\ <<a, b>>[1] = a /\ <<a, b>>[2] = b /\ <<c>>[1] = c
  OBVIOUS
<1>2. p \in Seq(S) /\ Len(p) = 3 /\ p[1] = a /\ p[2] = b /\ p[3] = c
  OBVIOUS
<1>3. q \in Seq(S) /\ Len(q) = 3 /\ q[1] = a /\ q[2] = b /\ q[3] = c
  BY <1>1, ConcatProperties
<1> HIDE DEF p, q
<1>4. \A i \in 1 .. Len(p) : p[i] = q[i]
  BY <1>2, <1>3
<1>5. QED
  BY <1>2, <1>3, <1>4, SeqEqual DEF p, q

-----------------------------------------------------------------------------
(* A good image: what the tree of names needs, and counters that do not     *)
(* fall short.  V is the inode that a deletion or truncation is taking       *)
(* apart, if any.                                                            *)

LEMMA Basics ==
    /\ Root \in Inodes /\ NoBlock \notin DataBlocks
    /\ 0 \in Idx /\ 0 \in Slots /\ 1 \in Slots
    /\ IsFiniteSet(Inodes) /\ IsFiniteSet(DataBlocks) /\ IsFiniteSet(Idx)
    /\ {NoName, Dot, DotDot, FileBytes} \cap ShortNames = {}
    /\ NoName # FileBytes /\ Dot # FileBytes /\ DotDot # FileBytes
<1>1. /\ MaxInodes \in Nat /\ MaxInodes > 0 /\ DataStart \in Nat /\ DataStart > 0
      /\ TotalBlocks \in Nat /\ DirectBlocks \in Nat /\ DirectBlocks > 0
      /\ DirentsPerBlock \in Nat /\ DirentsPerBlock >= 2
  BY GeometryAssumption
<1>2. /\ Root \in Inodes /\ NoBlock \notin DataBlocks
      /\ 0 \in Idx /\ 0 \in Slots /\ 1 \in Slots
  BY <1>1 DEF Inodes, DataBlocks, Idx, Slots, Root, NoBlock
<1>3. /\ IsFiniteSet(Inodes) /\ IsFiniteSet(DataBlocks) /\ IsFiniteSet(Idx)
  BY <1>1, FS_Interval DEF Inodes, DataBlocks, Idx
<1>4. QED
  BY <1>2, <1>3, NameAssumption

\* Slot s of the block at pointer k of directory d holds an entry.
CellOf(it, bl, d, k, s) == bl[it[d].direct[k]][s]
Named(it, bl, d, k, s) ==
    /\ d \in Inodes /\ k \in Idx /\ s \in Slots
    /\ it[d].type = "DIR" /\ it[d].direct[k] # NoBlock
    /\ CellOf(it, bl, d, k, s).name \notin {NoName, Dot, DotDot}

ImageType(ib, bb, it, bl) ==
    /\ ib \subseteq Inodes /\ bb \subseteq DataBlocks
    /\ it \in [Inodes -> Inode] /\ bl \in [DataBlocks -> Contents]
    /\ Root \in ib /\ it[Root].type = "DIR"

Marked(bb, it, V) ==
    \A i \in Inodes \ V, k \in Idx : it[i].direct[k] # NoBlock => it[i].direct[k] \in bb

Apart(it) ==
    \A i, j \in Inodes, k, l \in Idx :
        it[i].direct[k] # NoBlock /\ it[i].direct[k] = it[j].direct[l] => i = j /\ k = l

Resolve(ib, it, bl, V) ==
    \A d, k, s : LET i == CellOf(it, bl, d, k, s).inode IN
        Named(it, bl, d, k, s) /\ i \notin V => i # Root /\ i \in ib /\ it[i].type # "FREE"

Once(it, bl) ==
    \A d, k, s, e, l, t :
        /\ Named(it, bl, d, k, s) /\ Named(it, bl, e, l, t)
        /\ CellOf(it, bl, d, k, s).inode = CellOf(it, bl, e, l, t).inode
        => d = e /\ k = l /\ s = t

NoBytes(it, bl, V) ==
    \A d \in Inodes \ V, k \in Idx, s \in Slots :
        it[d].type = "DIR" /\ it[d].direct[k] # NoBlock => CellOf(it, bl, d, k, s).name # FileBytes

\* Directory i starts with its dots, and d is its parent.
DotsIn(it, bl, i, d) ==
    /\ it[i].direct[0] # NoBlock
    /\ CellOf(it, bl, i, 0, 0) = [inode |-> i, name |-> Dot]
    /\ CellOf(it, bl, i, 0, 1) = [inode |-> d, name |-> DotDot]

Dotted(it, bl, V) ==
    \A d, k, s : LET i == CellOf(it, bl, d, k, s).inode IN
        Named(it, bl, d, k, s) /\ i \notin V /\ it[i].type = "DIR" => DotsIn(it, bl, i, d)

\* The directories with entries are marked.
Hung(ib, it, bl) == \A d, k, s : Named(it, bl, d, k, s) => d \in ib

TreeOK(ib, bb, it, bl, V) ==
    /\ ImageType(ib, bb, it, bl)
    /\ \A i \in Inodes : Used(it[i])
    /\ Marked(bb, it, V) /\ Apart(it)
    /\ Resolve(ib, it, bl, V) /\ Once(it, bl) /\ Hung(ib, it, bl)
    /\ NoBytes(it, bl, V) /\ Dotted(it, bl, V)

\* The counters c are at least what is free.
Enough(c, ib, bb) ==
    /\ c.free_blocks >= Cardinality(DataBlocks \ bb)
    /\ c.free_inodes >= Cardinality(Inodes \ ib)

Good(g, V) ==
    /\ TreeOK(g.ib, g.bb, g.it, g.bl, V)
    /\ g.sb \in Counters
    /\ V = {} => Enough(g.sb, g.ib, g.bb)

LEMMA GoodIm ==
    ASSUME NEW ib, NEW bb, NEW it, NEW bl, NEW c, NEW V
    PROVE  Good(Im(ib, bb, it, bl, c), V) <=> /\ TreeOK(ib, bb, it, bl, V)
                                              /\ c \in Counters
                                              /\ V = {} => Enough(c, ib, bb)
  BY DEF Good, Im

-----------------------------------------------------------------------------
(* What a write changes of the tree of names: nothing, or it adds one entry, *)
(* or it takes one away.  With a name that does not fit its slot nothing is  *)
(* claimed.                                                                  *)

InEntries(it, bl, d, n, i) ==
    /\ it[i].type # "FREE"
    /\ \E k, s : /\ Named(it, bl, d, k, s)
                 /\ CellOf(it, bl, d, k, s).inode = i /\ CellOf(it, bl, d, k, s).name = n

OfTree(it, bl, i) == i = Root \/ \E d, n : InEntries(it, bl, d, n, i)

SameDirs(it, bl, it2) ==
    \A i : OfTree(it, bl, i) => (it2[i].type = "DIR" <=> it[i].type = "DIR")

Kept(it, bl, it2, bl2) ==
    /\ \A d, n, i : InEntries(it2, bl2, d, n, i) <=> InEntries(it, bl, d, n, i)
    /\ SameDirs(it, bl, it2)

Grown(it, bl, it2, bl2, par, n, i) ==
    /\ n \in ShortNames /\ i \in Inodes /\ i # Root
    /\ it[par].type = "DIR" /\ OfTree(it, bl, par) /\ ~OfTree(it, bl, i)
    /\ \A j : ~InEntries(it, bl, par, n, j)
    /\ \A d, m, j : InEntries(it2, bl2, d, m, j) <=>
                       InEntries(it, bl, d, m, j) \/ (d = par /\ m = n /\ j = i)
    /\ SameDirs(it, bl, it2)

Shrunk(it, bl, it2, bl2, par, n, i) ==
    /\ i # Root /\ InEntries(it, bl, par, n, i)
    /\ \A m, j : ~InEntries(it, bl, i, m, j)
    /\ \A d, m, j : InEntries(it2, bl2, d, m, j) <=>
                       InEntries(it, bl, d, m, j) /\ ~(d = par /\ m = n /\ j = i)
    /\ \A d, m, j : InEntries(it2, bl2, d, m, j) => j # i
    /\ SameDirs(it2, bl2, it)

TreeStep(it, bl, it2, bl2) ==
    \/ Kept(it, bl, it2, bl2)
    \/ \E par, n, i : Grown(it, bl, it2, bl2, par, n, i)
    \/ \E par, n, i : Shrunk(it, bl, it2, bl2, par, n, i)

Moves(g, h) == LongNames = {} => TreeStep(g.it, g.bl, h.it, h.bl)

\* The named entries stay, and what their inodes are.
Alike(it, bl, it2, bl2) ==
    /\ it2[Root].type = it[Root].type
    /\ \A d, k, s :
          /\ Named(it2, bl2, d, k, s) <=> Named(it, bl, d, k, s)
          /\ Named(it, bl, d, k, s) =>
                /\ CellOf(it2, bl2, d, k, s) = CellOf(it, bl, d, k, s)
                /\ it2[CellOf(it, bl, d, k, s).inode].type = it[CellOf(it, bl, d, k, s).inode].type

LEMMA AlikeKept ==
    ASSUME NEW it, NEW bl, NEW it2, NEW bl2, Alike(it, bl, it2, bl2)
    PROVE  Kept(it, bl, it2, bl2)
<1>1. ASSUME NEW d, NEW n, NEW i, InEntries(it2, bl2, d, n, i) PROVE InEntries(it, bl, d, n, i)
  BY <1>1 DEF InEntries, Alike
<1>2. ASSUME NEW d, NEW n, NEW i, InEntries(it, bl, d, n, i)
      PROVE  InEntries(it2, bl2, d, n, i) /\ it2[i].type = it[i].type
  BY <1>2 DEF InEntries, Alike
<1>3. SameDirs(it, bl, it2)
  BY <1>2 DEF SameDirs, OfTree, Alike
<1>4. QED
  BY <1>1, <1>2, <1>3 DEF Kept

LEMMA MovesIm ==
    ASSUME NEW ib, NEW bb, NEW it, NEW bl, NEW c, NEW ib2, NEW bb2, NEW it2, NEW bl2, NEW c2
    PROVE  /\ (LongNames = {} => TreeStep(it, bl, it2, bl2))
                => Moves(Im(ib, bb, it, bl, c), Im(ib2, bb2, it2, bl2, c2))
           /\ Alike(it, bl, it2, bl2) => Moves(Im(ib, bb, it, bl, c), Im(ib2, bb2, it2, bl2, c2))
  BY AlikeKept DEF Moves, Im, TreeStep

\* Bitmaps and counters are not seen.
LEMMA MovesSame ==
    ASSUME NEW ib, NEW bb, NEW it, NEW bl, NEW c, NEW ib2, NEW bb2, NEW c2
    PROVE  Moves(Im(ib, bb, it, bl, c), Im(ib2, bb2, it, bl, c2))
<1>1. Alike(it, bl, it, bl)
  BY DEF Alike
<1>2. QED
  BY <1>1, MovesIm

-----------------------------------------------------------------------------
(* Ways through good images *)

\* The writes p, with counters c in memory, lead from image g to h, every image
\* before the last write is good, and each write changes one entry at most.
PathBy(g, p, V, c, h, f) ==
    /\ f[0] = g /\ f[Len(p)] = h
    /\ \A m \in 1 .. Len(p) : f[m] = Written(f[m - 1], p[m], c) /\ Moves(f[m - 1], f[m])
    /\ \A m \in 0 .. Len(p) : m < Len(p) => Good(f[m], V)

Path(g, p, V, c, h) == p \in Seq(BlockWrites) /\ \E f : PathBy(g, p, V, c, h, f)

\* The writes p end well: the last image is good with nothing taken apart, and
\* the counters in memory do not fall short of it.
Safe(g, p, V, c) ==
    \E h : Path(g, p, V, c, h) /\ Good(h, {}) /\ c \in Counters /\ Enough(c, h.ib, h.bb)

LEMMA PathNone ==
    ASSUME NEW g, NEW V, NEW c
    PROVE  Path(g, <<>>, V, c, g)
<1>1. <<>> \in Seq(BlockWrites) /\ Len(<<>>) = 0
  BY EmptySeq
<1> DEFINE f == [m \in {0} |-> g]
<1>2. f[0] = g
  OBVIOUS
<1> HIDE DEF f
<1>3. PathBy(g, <<>>, V, c, g, f)
  BY <1>1, <1>2 DEF PathBy
<1>4. QED
  BY <1>1, <1>3 DEF Path

LEMMA PathOne ==
    ASSUME NEW g, NEW V, NEW c, NEW w \in BlockWrites, Good(g, V), Moves(g, Written(g, w, c))
    PROVE  Path(g, <<w>>, V, c, Written(g, w, c))
<1>1. <<w>> \in Seq(BlockWrites) /\ Len(<<w>>) = 1 /\ <<w>>[1] = w
  OBVIOUS
<1> DEFINE h == Written(g, w, c)
           f == [m \in 0 .. 1 |-> IF m = 0 THEN g ELSE h]
<1>2. f[0] = g /\ f[1] = h
  OBVIOUS
<1>h. h = Written(g, w, c) /\ Moves(g, h)
  OBVIOUS
<1> HIDE DEF f, h
<1>3. PathBy(g, <<w>>, V, c, h, f)
  BY <1>1, <1>2, <1>h DEF PathBy
<1>4. QED
  BY <1>1, <1>3, <1>h DEF Path

LEMMA PathJoin ==
    ASSUME NEW g, NEW V, NEW c, NEW p, NEW h, Path(g, p, V, c, h),
           NEW q, NEW i, Path(h, q, V, c, i)
    PROVE  Path(g, p \o q, V, c, i)
<1>1. PICK f : PathBy(g, p, V, c, h, f)
  BY DEF Path
<1>2. PICK e : PathBy(h, q, V, c, i, e)
  BY DEF Path
<1>3. p \in Seq(BlockWrites) /\ q \in Seq(BlockWrites)
  BY DEF Path
<1> DEFINE r == p \o q
           n == Len(p)
           k == Len(q)
           d == [m \in 0 .. n + k |-> IF m <= n THEN f[m] ELSE e[m - n]]
<1>4. n \in Nat /\ k \in Nat
  BY <1>3, LenProperties
<1>5. /\ r \in Seq(BlockWrites) /\ Len(r) = n + k
      /\ \A m \in 1 .. n + k : r[m] = IF m <= n THEN p[m] ELSE q[m - n]
  BY <1>3, ConcatProperties
<1>6. /\ f[0] = g /\ f[n] = h
      /\ \A m \in 1 .. n : f[m] = Written(f[m - 1], p[m], c) /\ Moves(f[m - 1], f[m])
      /\ \A m \in 0 .. n : m < n => Good(f[m], V)
  BY <1>1 DEF PathBy
<1>7. /\ e[0] = h /\ e[k] = i
      /\ \A m \in 1 .. k : e[m] = Written(e[m - 1], q[m], c) /\ Moves(e[m - 1], e[m])
      /\ \A m \in 0 .. k : m < k => Good(e[m], V)
  BY <1>2 DEF PathBy
<1>8. \A m \in 0 .. n + k : d[m] = IF m <= n THEN f[m] ELSE e[m - n]
  OBVIOUS
<1> HIDE DEF r, n, k, d
<1>9. \A m \in 0 .. n + k : m >= n => d[m] = e[m - n]
  BY <1>4, <1>6, <1>7, <1>8
<1>10. d[0] = g /\ d[n + k] = i
  <2>1. (n + k) - n = k /\ n + k \in 0 .. n + k /\ n + k >= n /\ 0 \in 0 .. n + k
    BY <1>4
  <2>2. QED
    BY <1>4, <1>6, <1>7, <1>8, <1>9, <2>1
<1>11. ASSUME NEW m \in 1 .. n + k 
       PROVE  d[m] = Written(d[m - 1], r[m], c) /\ Moves(d[m - 1], d[m])
  <2>1. CASE m <= n
    <3>1. m \in 1 .. n /\ m \in 0 .. n + k /\ m - 1 \in 0 .. n + k /\ m - 1 <= n
      BY <1>4, <2>1
    <3>2. d[m] = f[m] /\ d[m - 1] = f[m - 1] /\ r[m] = p[m]
      BY <1>5, <1>8, <2>1, <3>1
    <3>3. QED
      BY <1>6, <3>1, <3>2
  <2>2. CASE ~(m <= n)
    <3>1. /\ m - n \in 1 .. k /\ m \in 0 .. n + k /\ m >= n
          /\ m - 1 \in 0 .. n + k /\ m - 1 >= n /\ (m - 1) - n = (m - n) - 1
      BY <1>4, <2>2
    <3>2. d[m] = e[m - n] /\ d[m - 1] = e[(m - n) - 1] /\ r[m] = q[m - n]
      BY <1>5, <1>9, <2>2, <3>1
    <3>3. QED
      BY <1>7, <3>1, <3>2
  <2>3. QED
    BY <2>1, <2>2
<1>12. ASSUME NEW m \in 0 .. n + k, m < n + k PROVE Good(d[m], V)
  <2>1. CASE m < n
    BY <1>4, <1>6, <1>8, <2>1
  <2>2. CASE ~(m < n)
    <3>1. m - n \in 0 .. k /\ m - n < k /\ m >= n
      BY <1>4, <1>12, <2>2
    <3>2. QED
      BY <1>7, <1>9, <3>1
  <2>3. QED
    BY <2>1, <2>2
<1>13. PathBy(g, r, V, c, i, d)
  BY <1>5, <1>10, <1>11, <1>12 DEF PathBy
<1>14. QED
  BY <1>5, <1>13 DEF Path, r

LEMMA PathTwo ==
    ASSUME NEW g, NEW V, NEW c, NEW a \in BlockWrites, NEW b \in BlockWrites, NEW h,
           Good(g, V), h = Written(g, a, c), Good(h, V),
           Moves(g, h), Moves(h, Written(h, b, c))
    PROVE  Path(g, <<a, b>>, V, c, Written(h, b, c))
<1>1. Path(g, <<a>>, V, c, h) /\ Path(h, <<b>>, V, c, Written(h, b, c))
  BY PathOne
<1>2. <<a, b>> = <<a>> \o <<b>>
  BY TwoWrites
<1>3. QED
  BY <1>1, <1>2, PathJoin

LEMMA PathThree ==
    ASSUME NEW g, NEW V, NEW c, NEW a \in BlockWrites, NEW b \in BlockWrites, NEW d \in BlockWrites,
           NEW h, NEW i, Good(g, V), h = Written(g, a, c), Good(h, V),
           i = Written(h, b, c), Good(i, V),
           Moves(g, h), Moves(h, i), Moves(i, Written(i, d, c))
    PROVE  Path(g, <<a, b, d>>, V, c, Written(i, d, c))
<1>1. Path(g, <<a, b>>, V, c, i) /\ Path(i, <<d>>, V, c, Written(i, d, c))
  BY PathOne, PathTwo
<1>2. <<a, b, d>> = <<a, b>> \o <<d>>
  BY ThreeWrites
<1>3. QED
  BY <1>1, <1>2, PathJoin

\* Of writes that end well the first leaves writes that end well.
LEMMA SafePop ==
    ASSUME NEW g, NEW p, NEW V, NEW c, Safe(g, p, V, c), p # <<>>
    PROVE  /\ Good(g, V) /\ p \in Seq(BlockWrites) /\ Head(p) \in BlockWrites
           /\ Safe(Written(g, Head(p), c), Tail(p), V, c)
           /\ Moves(g, Written(g, Head(p), c))
<1>1. PICK h : Path(g, p, V, c, h) /\ Good(h, {}) /\ c \in Counters /\ Enough(c, h.ib, h.bb)
  BY DEF Safe
<1>2. PICK f : PathBy(g, p, V, c, h, f)
  BY <1>1 DEF Path
<1>3. p \in Seq(BlockWrites)
  BY <1>1 DEF Path
<1> DEFINE n == Len(p)
           q == Tail(p)
           e == [m \in 0 .. n - 1 |-> f[m + 1]]
<1>4. n \in Nat /\ n > 0
  BY <1>3, EmptySeq
<1>5. /\ Head(p) \in BlockWrites /\ Head(p) = p[1]
      /\ q \in Seq(BlockWrites) /\ Len(q) = n - 1 /\ \A m \in 1 .. n - 1 : q[m] = p[m + 1]
  BY <1>3, HeadTailProperties
<1>6. /\ f[0] = g /\ f[n] = h
      /\ \A m \in 1 .. n : f[m] = Written(f[m - 1], p[m], c) /\ Moves(f[m - 1], f[m])
      /\ \A m \in 0 .. n : m < n => Good(f[m], V)
  BY <1>2 DEF PathBy
<1>7. \A m \in 0 .. n - 1 : e[m] = f[m + 1]
  OBVIOUS
<1> HIDE DEF n, q, e
<1>8. Good(g, V)
  BY <1>4, <1>6
<1>9. e[0] = Written(g, Head(p), c) /\ e[n - 1] = h
  <2>1. 1 \in 1 .. n /\ 1 - 1 = 0 /\ (n - 1) + 1 = n /\ 0 \in 0 .. n - 1 /\ n - 1 \in 0 .. n - 1
    BY <1>4
  <2>2. f[1] = Written(f[0], p[1], c)
    BY <1>6, <2>1
  <2>3. e[0] = f[1] /\ e[n - 1] = f[n]
    BY <1>7, <2>1
  <2>4. QED
    BY <1>5, <1>6, <2>2, <2>3
<1>10. ASSUME NEW m \in 1 .. n - 1 
       PROVE  e[m] = Written(e[m - 1], q[m], c) /\ Moves(e[m - 1], e[m])
  <2>1. m + 1 \in 1 .. n /\ (m + 1) - 1 = m /\ (m - 1) + 1 = m /\ m \in 0 .. n - 1 /\ m - 1 \in 0 .. n - 1
    BY <1>4
  <2>2. f[m + 1] = Written(f[m], p[m + 1], c) /\ Moves(f[m], f[m + 1])
    BY <1>6, <2>1
  <2>3. QED
    BY <1>5, <1>7, <2>1, <2>2
<1>11. ASSUME NEW m \in 0 .. n - 1, m < n - 1 PROVE Good(e[m], V)
  <2>1. m + 1 \in 0 .. n /\ m + 1 < n
    BY <1>4, <1>11
  <2>2. QED
    BY <1>6, <1>7, <2>1
<1>12. PathBy(Written(g, Head(p), c), q, V, c, h, e)
  BY <1>5, <1>9, <1>10, <1>11 DEF PathBy
<1>13. Safe(Written(g, Head(p), c), q, V, c)
  BY <1>1, <1>5, <1>12 DEF Safe, Path
<1>14. Moves(g, Written(g, Head(p), c))
  <2>1. 1 \in 1 .. n /\ 1 - 1 = 0
    BY <1>4
  <2>2. f[1] = Written(f[0], p[1], c) /\ Moves(f[0], f[1])
    BY <1>6, <2>1
  <2>3. QED
    BY <1>5, <1>6, <2>2
<1>15. QED
  BY <1>3, <1>5, <1>8, <1>13, <1>14 DEF q

\* Nothing left to write.
LEMMA SafeNone ==
    ASSUME NEW g, NEW V, NEW c, Safe(g, <<>>, V, c)
    PROVE  Good(g, {}) /\ Enough(c, g.ib, g.bb) /\ c \in Counters
<1>1. PICK h : Path(g, <<>>, V, c, h) /\ Good(h, {}) /\ c \in Counters /\ Enough(c, h.ib, h.bb)
  BY DEF Safe
<1>2. PICK f : PathBy(g, <<>>, V, c, h, f)
  BY <1>1 DEF Path
<1>3. h = g
  BY <1>2, EmptySeq DEF PathBy
<1>4. QED
  BY <1>1, <1>3

-----------------------------------------------------------------------------
(* Single writes of the callbacks that grow the tree *)

Unref(it, b) == \A i \in Inodes, k \in Idx : it[i].direct[k] # b

Unlinked(it, bl, i) == \A d, k, s : Named(it, bl, d, k, s) => CellOf(it, bl, d, k, s).inode # i

PlainCell(x) == x.name \in {NoName, Dot, DotDot}

LEMMA Fields ==
    ASSUME NEW ib, NEW bb, NEW it, NEW bl, ImageType(ib, bb, it, bl), NEW i \in Inodes
    PROVE  /\ it[i] \in Inode /\ it[i].type \in {"FREE", "FILE", "DIR"} /\ it[i].blocks_used \in Nat
           /\ it[i].direct \in [Idx -> DataBlocks \cup {NoBlock}]
           /\ \A k \in Idx : it[i].direct[k] # NoBlock =>
                 /\ it[i].direct[k] \in DataBlocks
                 /\ \A s \in Slots : bl[it[i].direct[k]][s] \in Cell
  BY DEF ImageType, Inode, Contents

\* A block that nobody points to is free of charge; so is a bit more.
LEMMA MarkBlock ==
    ASSUME NEW ib, NEW bb, NEW it, NEW bl, TreeOK(ib, bb, it, bl, {}), NEW B \in SUBSET DataBlocks
    PROVE  TreeOK(ib, bb \cup B, it, bl, {})
  BY DEF TreeOK, ImageType, Marked

LEMMA MarkInode ==
    ASSUME NEW ib, NEW bb, NEW it, NEW bl, TreeOK(ib, bb, it, bl, {}), NEW i \in Inodes
    PROVE  TreeOK(ib \cup {i}, bb, it, bl, {})
  BY DEF TreeOK, ImageType, Resolve, Hung

\* What a clear bit says: no inode points there, and no entry.
LEMMA ClearBlock ==
    ASSUME NEW ib, NEW bb, NEW it, NEW bl, TreeOK(ib, bb, it, bl, {}), NEW b \in DataBlocks \ bb
    PROVE  Unref(it, b)
  BY Basics DEF TreeOK, Marked, Unref

LEMMA ClearInode ==
    ASSUME NEW ib, NEW bb, NEW it, NEW bl, TreeOK(ib, bb, it, bl, {}), NEW i \in Inodes \ ib
    PROVE  Unlinked(it, bl, i) /\ i # Root
  BY DEF TreeOK, Resolve, Unlinked, ImageType

\* Writing a block that is no directory's, or that no entry leads to, before and
\* after without entries.
Quiet(it, bl, b, c) ==
    \A d \in Inodes, k \in Idx : it[d].type = "DIR" /\ it[d].direct[k] = b =>
        Unlinked(it, bl, d) /\ \A s \in Slots : PlainCell(bl[b][s]) /\ PlainCell(c[s])

LEMMA QuietContent ==
    ASSUME NEW ib, NEW bb, NEW it, NEW bl, TreeOK(ib, bb, it, bl, {}),
           NEW b \in DataBlocks, NEW c \in Contents, Quiet(it, bl, b, c)
    PROVE  /\ TreeOK(ib, bb, it, [bl EXCEPT ![b] = c], {})
           /\ Alike(it, bl, it, [bl EXCEPT ![b] = c])
<1> DEFINE bl2 == [bl EXCEPT ![b] = c]
<1>1. ImageType(ib, bb, it, bl2)
  BY DEF TreeOK, ImageType
<1>t. ImageType(ib, bb, it, bl) /\ bl \in [DataBlocks -> Contents]
  BY DEF TreeOK, ImageType
<1>2. bl2[b] = c /\ \A x : x # b => bl2[x] = bl[x]
  BY <1>t
<1> HIDE DEF bl2
<1>3. ASSUME NEW d, NEW k, NEW s
      PROVE  /\ Named(it, bl2, d, k, s) <=> Named(it, bl, d, k, s)
             /\ Named(it, bl, d, k, s) => CellOf(it, bl2, d, k, s) = CellOf(it, bl, d, k, s)
  <2>1. CASE d \in Inodes /\ k \in Idx /\ s \in Slots /\ it[d].type = "DIR" /\ it[d].direct[k] = b
    <3>1. PlainCell(bl[b][s]) /\ PlainCell(c[s])
      BY <2>1 DEF Quiet
    <3>2. QED
      BY <1>2, <2>1, <3>1 DEF Named, CellOf, PlainCell
  <2>2. CASE ~(d \in Inodes /\ k \in Idx /\ s \in Slots /\ it[d].type = "DIR" /\ it[d].direct[k] = b)
    BY <1>2, <2>2 DEF Named, CellOf
  <2>3. QED
    BY <2>1, <2>2
<1>4. Resolve(ib, it, bl2, {}) /\ Once(it, bl2) /\ Hung(ib, it, bl2)
  BY <1>3 DEF TreeOK, Resolve, Once, Hung
<1>5. NoBytes(it, bl2, {})
  <2> SUFFICES ASSUME NEW d \in Inodes, NEW k \in Idx, NEW s \in Slots,
                      it[d].type = "DIR", it[d].direct[k] # NoBlock
               PROVE  CellOf(it, bl2, d, k, s).name # FileBytes
    BY DEF NoBytes
  <2>1. CASE it[d].direct[k] = b
    BY <1>2, <2>1, Basics DEF Quiet, PlainCell, CellOf
  <2>2. CASE it[d].direct[k] # b
    BY <1>2, <2>2 DEF TreeOK, NoBytes, CellOf
  <2>3. QED
    BY <2>1, <2>2
<1>6. Dotted(it, bl2, {})
  <2> SUFFICES ASSUME NEW d, NEW k, NEW s, NEW i, i = CellOf(it, bl2, d, k, s).inode,
                      Named(it, bl2, d, k, s), it[i].type = "DIR"
               PROVE  DotsIn(it, bl2, i, d)
    BY DEF Dotted
  <2>1. Named(it, bl, d, k, s) /\ i = CellOf(it, bl, d, k, s).inode
    BY <1>3
  <2>2. DotsIn(it, bl, i, d)
    BY <2>1 DEF TreeOK, Dotted
  <2>3. i \in Inodes /\ ~Unlinked(it, bl, i)
    BY <2>1 DEF TreeOK, Resolve, ImageType, Unlinked
  <2>4. it[i].direct[0] # b
    BY <2>3, Basics DEF Quiet
  <2>5. QED
    BY <1>2, <2>2, <2>4 DEF DotsIn, CellOf
<1>7. TreeOK(ib, bb, it, bl2, {})
  BY <1>1, <1>4, <1>5, <1>6 DEF TreeOK
<1>8. Alike(it, bl, it, bl2)
  BY <1>3 DEF Alike
<1>9. QED
  BY <1>7, <1>8 DEF bl2

\* The record of a new inode, under a clear bit or just before its entry.
FreshRecord(it, bl, bb, r) ==
    \/ r = NewFile
    \/ \E b \in bb : r = NewDir(b) /\ Unref(it, b) /\ \A s \in Slots : PlainCell(bl[b][s])

FreshFields(it, bl, bb, r) ==
    /\ r \in Inode /\ Used(r) /\ r.type \in {"FILE", "DIR"}
    /\ \A k \in Idx : r.direct[k] # NoBlock =>
          /\ r.direct[k] \in bb /\ k = 0 /\ Unref(it, r.direct[k])
          /\ \A s \in Slots : PlainCell(bl[r.direct[k]][s])

LEMMA FreshIs ==
    ASSUME NEW it, NEW bl, NEW bb \in SUBSET DataBlocks, NEW r, FreshRecord(it, bl, bb, r)
    PROVE  FreshFields(it, bl, bb, r)
<1>1. CASE r = NewFile
  <2>1. r \in Inode /\ r.type = "FILE" /\ \A k \in Idx : r.direct[k] = NoBlock
    BY <1>1 DEF NewFile, Inode, NoPointers
  <2>2. Pointers(r) = {} /\ r.blocks_used = 0
    BY <1>1, <2>1 DEF Pointers, NewFile
  <2>3. QED
    BY <2>1, <2>2, FS_EmptySet DEF Used, FreshFields
<1>2. ASSUME NEW b \in bb, r = NewDir(b), Unref(it, b), \A s \in Slots : PlainCell(bl[b][s])
      PROVE  FreshFields(it, bl, bb, r)
  <2>1. r = [type |-> "DIR", blocks_used |-> 1, direct |-> [NoPointers EXCEPT ![0] = b]]
    BY <1>2 DEF NewDir
  <2>2. \A k \in Idx : [NoPointers EXCEPT ![0] = b][k] = IF k = 0 THEN b ELSE NoBlock
    BY Basics DEF NoPointers
  <2>3. [NoPointers EXCEPT ![0] = b] \in [Idx -> DataBlocks \cup {NoBlock}]
    BY Basics DEF NoPointers
  <2>4. r \in Inode /\ r.type = "DIR" /\ r.blocks_used = 1
    BY <2>1, <2>3 DEF Inode
  <2>5. \A k \in Idx : r.direct[k] = IF k = 0 THEN b ELSE NoBlock
    BY <2>1, <2>2
  <2>6. Pointers(r) = {0}
    BY <2>5, Basics DEF Pointers
  <2>7. Used(r)
    BY <2>4, <2>6, FS_Singleton DEF Used
  <2>8. QED
    BY <1>2, <2>4, <2>5, <2>7 DEF FreshFields
<1>3. QED
  BY <1>1, <1>2 DEF FreshRecord

LEMMA NewRecord ==
    ASSUME NEW ib, NEW bb, NEW it, NEW bl, TreeOK(ib, bb, it, bl, {}),
           NEW i \in Inodes \ ib, NEW r, FreshRecord(it, bl, bb, r)
    PROVE  /\ TreeOK(ib, bb, [it EXCEPT ![i] = r], bl, {})
           /\ Alike(it, bl, [it EXCEPT ![i] = r], bl)
<1>t. /\ it \in [Inodes -> Inode] /\ bb \subseteq DataBlocks /\ Root \in ib
      /\ ImageType(ib, bb, it, bl)
  BY DEF TreeOK, ImageType
<1>u. Unlinked(it, bl, i) /\ i # Root
  BY ClearInode
<1>1. FreshFields(it, bl, bb, r)
  BY <1>t, FreshIs
<1> DEFINE it2 == [it EXCEPT ![i] = r]
<1>2. it2[i] = r /\ (\A j \in Inodes : j # i => it2[j] = it[j]) /\ it2 \in [Inodes -> Inode]
  BY <1>t, <1>1 DEF FreshFields
<1> HIDE DEF it2
<1>3. ImageType(ib, bb, it2, bl)
  BY <1>t, <1>u, <1>2 DEF ImageType
<1>4. \A j \in Inodes : Used(it2[j])
  BY <1>1, <1>2 DEF FreshFields, TreeOK
<1>5. Marked(bb, it2, {})
  BY <1>1, <1>2 DEF FreshFields, TreeOK, Marked
<1>6. Apart(it2)
  <2> SUFFICES ASSUME NEW d \in Inodes, NEW e \in Inodes, NEW k \in Idx, NEW l \in Idx,
                      it2[d].direct[k] # NoBlock, it2[d].direct[k] = it2[e].direct[l]
               PROVE  d = e /\ k = l
    BY DEF Apart
  <2>1. CASE d = i /\ e = i
    BY <1>1, <1>2, <2>1 DEF FreshFields
  <2>2. CASE d = i /\ e # i
    BY <1>1, <1>2, <2>2 DEF FreshFields, Unref
  <2>3. CASE d # i /\ e = i
    BY <1>1, <1>2, <2>3 DEF FreshFields, Unref
  <2>4. CASE d # i /\ e # i
    BY <1>2, <2>4 DEF TreeOK, Apart
  <2>5. QED
    BY <2>1, <2>2, <2>3, <2>4
<1>7. ASSUME NEW d, NEW k, NEW s, Named(it2, bl, d, k, s)
      PROVE  d # i /\ Named(it, bl, d, k, s) /\ CellOf(it2, bl, d, k, s) = CellOf(it, bl, d, k, s)
  <2>1. d # i
    BY <1>1, <1>2, <1>7 DEF FreshFields, Named, CellOf, PlainCell
  <2>2. QED
    BY <1>2, <1>7, <2>1 DEF Named, CellOf
<1>8. Alike(it, bl, it2, bl)
  <2>1. ASSUME NEW d, NEW k, NEW s, Named(it, bl, d, k, s)
        PROVE  /\ Named(it2, bl, d, k, s) /\ CellOf(it2, bl, d, k, s) = CellOf(it, bl, d, k, s)
               /\ it2[CellOf(it, bl, d, k, s).inode].type = it[CellOf(it, bl, d, k, s).inode].type
    <3>1. d \in ib /\ d \in Inodes /\ d # i
      BY <1>t, <2>1 DEF TreeOK, Hung, ImageType
    <3>2. CellOf(it, bl, d, k, s).inode \in Inodes /\ CellOf(it, bl, d, k, s).inode # i
      BY <1>t, <1>u, <2>1 DEF Unlinked, TreeOK, Resolve, ImageType
    <3>3. QED
      BY <1>2, <2>1, <3>1, <3>2 DEF Named, CellOf
  <2>2. it2[Root] = it[Root]
    BY <1>2, <1>u, Basics
  <2>3. QED
    BY <1>7, <2>1, <2>2 DEF Alike
<1>h. Hung(ib, it2, bl)
  BY <1>7 DEF TreeOK, Hung
<1>9. Resolve(ib, it2, bl, {})
  <2> SUFFICES ASSUME NEW d, NEW k, NEW s, NEW j, j = CellOf(it2, bl, d, k, s).inode,
                      Named(it2, bl, d, k, s)
               PROVE  j # Root /\ j \in ib /\ it2[j].type # "FREE"
    BY DEF Resolve
  <2>1. j # Root /\ j \in ib /\ it[j].type # "FREE"
    BY <1>7 DEF TreeOK, Resolve
  <2>2. QED
    BY <1>2, <1>t, <2>1 DEF ImageType
<1>10. Once(it2, bl)
  BY <1>7 DEF TreeOK, Once
<1>11. NoBytes(it2, bl, {})
  BY <1>1, <1>2, Basics DEF FreshFields, TreeOK, NoBytes, CellOf, PlainCell
<1>12. Dotted(it2, bl, {})
  <2> SUFFICES ASSUME NEW d, NEW k, NEW s, NEW j, j = CellOf(it2, bl, d, k, s).inode,
                      Named(it2, bl, d, k, s), it2[j].type = "DIR"
               PROVE  DotsIn(it2, bl, j, d)
    BY DEF Dotted
  <2>1. Named(it, bl, d, k, s) /\ j = CellOf(it, bl, d, k, s).inode
    BY <1>7
  <2>2. j # i /\ j \in Inodes
    BY <1>t, <1>u, <2>1 DEF Unlinked, TreeOK, Resolve, ImageType
  <2>3. it2[j] = it[j]
    BY <1>2, <2>2
  <2>4. DotsIn(it, bl, j, d)
    BY <2>1, <2>3 DEF TreeOK, Dotted
  <2>5. QED
    BY <2>3, <2>4 DEF DotsIn, CellOf
<1>13. TreeOK(ib, bb, it2, bl, {})
  BY <1>3, <1>4, <1>5, <1>6, <1>9, <1>10, <1>11, <1>12, <1>h DEF TreeOK
<1>14. QED
  BY <1>8, <1>13 DEF it2

\* A directory that is the root or has an entry, and has none of name n.
Welcome(it, bl, d, n) ==
    /\ d = Root \/ ~Unlinked(it, bl, d)
    /\ LongNames = {} => \A k, s : Named(it, bl, d, k, s) => CellOf(it, bl, d, k, s).name # n

LEMMA AlikeKeeps ==
    ASSUME NEW it, NEW bl, NEW it2, NEW bl2, Alike(it, bl, it2, bl2)
    PROVE  /\ \A i : Unlinked(it, bl, i) => Unlinked(it2, bl2, i)
           /\ \A d, n : Welcome(it, bl, d, n) => Welcome(it2, bl2, d, n)
<1>1. \A i : Unlinked(it, bl, i) <=> Unlinked(it2, bl2, i)
  BY DEF Alike, Unlinked
<1>2. \A d, n : (\A k, s : Named(it, bl, d, k, s) => CellOf(it, bl, d, k, s).name # n)
                 => \A k, s : Named(it2, bl2, d, k, s) => CellOf(it2, bl2, d, k, s).name # n
  BY DEF Alike
<1>3. QED
  BY <1>1, <1>2 DEF Welcome

\* What a new entry x of directory d may say: its inode is in use and has no other
\* name, is a directory only with its dots written; the name is new in d, which
\* is a directory of the tree.
Entrant(ib, it, bl, d, x) ==
    /\ x.inode \in ib /\ x.inode # Root /\ x.inode # d /\ it[x.inode].type # "FREE"
    /\ Unlinked(it, bl, x.inode)
    /\ it[x.inode].type = "DIR" => DotsIn(it, bl, x.inode, d)
    /\ d \in ib /\ Welcome(it, bl, d, x.name)

\* One entry more, in slot (k, s) of directory d; the dots stay.
Joined(it, bl, it2, bl2, d, k, s, x) ==
    /\ \A e, l, t :
          /\ Named(it2, bl2, e, l, t) <=> Named(it, bl, e, l, t) \/ (e = d /\ l = k /\ t = s)
          /\ Named(it, bl, e, l, t) => CellOf(it2, bl2, e, l, t) = CellOf(it, bl, e, l, t)
    /\ CellOf(it2, bl2, d, k, s) = x
    /\ ~Named(it, bl, d, k, s)
    /\ \A i \in Inodes : it2[i].type = it[i].type
    /\ \A i \in Inodes : \A e : DotsIn(it, bl, i, e) => DotsIn(it2, bl2, i, e)

LEMMA JoinedOK ==
    ASSUME NEW ib, NEW bb, NEW it, NEW bl, TreeOK(ib, bb, it, bl, {}),
           NEW it2, NEW bl2, NEW d, NEW k, NEW s, NEW x, Joined(it, bl, it2, bl2, d, k, s, x),
           Entrant(ib, it, bl, d, x)
    PROVE  /\ Resolve(ib, it2, bl2, {}) /\ Once(it2, bl2) /\ Dotted(it2, bl2, {}) /\ Hung(ib, it2, bl2)
           /\ it[d].type = "DIR" /\ x.name \in ShortNames /\ LongNames = {} => TreeStep(it, bl, it2, bl2)
<1>t. ib \subseteq Inodes
  BY DEF TreeOK, ImageType
<1>1. ASSUME NEW e, NEW l, NEW t, Named(it2, bl2, e, l, t)
      PROVE  \/ Named(it, bl, e, l, t) /\ CellOf(it2, bl2, e, l, t) = CellOf(it, bl, e, l, t)
             \/ e = d /\ l = k /\ t = s /\ CellOf(it2, bl2, e, l, t) = x
  BY <1>1 DEF Joined
<1>2. Resolve(ib, it2, bl2, {})
  <2> SUFFICES ASSUME NEW e, NEW l, NEW t, NEW i, i = CellOf(it2, bl2, e, l, t).inode,
                      Named(it2, bl2, e, l, t)
               PROVE  i # Root /\ i \in ib /\ it2[i].type # "FREE"
    BY DEF Resolve
  <2>1. i # Root /\ i \in ib /\ it[i].type # "FREE"
    BY <1>1 DEF TreeOK, Resolve, Entrant
  <2>2. QED
    BY <1>t, <2>1 DEF Joined
<1>h. Hung(ib, it2, bl2)
  BY <1>1 DEF TreeOK, Hung, Entrant
<1>3. Once(it2, bl2)
  <2> SUFFICES ASSUME NEW e, NEW l, NEW t, NEW f, NEW m, NEW u,
                      Named(it2, bl2, e, l, t), Named(it2, bl2, f, m, u),
                      CellOf(it2, bl2, e, l, t).inode = CellOf(it2, bl2, f, m, u).inode
               PROVE  e = f /\ l = m /\ t = u
    BY DEF Once
  <2>1. CASE Named(it, bl, e, l, t) /\ Named(it, bl, f, m, u)
    <3>1. CellOf(it, bl, e, l, t).inode = CellOf(it, bl, f, m, u).inode
      BY <1>1, <2>1 DEF Joined
    <3>2. QED
      BY <2>1, <3>1 DEF TreeOK, Once
  <2>2. CASE Named(it, bl, e, l, t) /\ ~Named(it, bl, f, m, u)
    <3>1. CellOf(it, bl, e, l, t).inode = x.inode
      BY <1>1, <2>2 DEF Joined
    <3>2. QED
      BY <2>2, <3>1 DEF Entrant, Unlinked
  <2>3. CASE ~Named(it, bl, e, l, t) /\ Named(it, bl, f, m, u)
    <3>1. CellOf(it, bl, f, m, u).inode = x.inode
      BY <1>1, <2>3 DEF Joined
    <3>2. QED
      BY <2>3, <3>1 DEF Entrant, Unlinked
  <2>4. CASE ~Named(it, bl, e, l, t) /\ ~Named(it, bl, f, m, u)
    BY <1>1, <2>4
  <2>5. QED
    BY <2>1, <2>2, <2>3, <2>4
<1>4. Dotted(it2, bl2, {})
  <2> SUFFICES ASSUME NEW e, NEW l, NEW t, NEW i, i = CellOf(it2, bl2, e, l, t).inode,
                      Named(it2, bl2, e, l, t), it2[i].type = "DIR"
               PROVE  DotsIn(it2, bl2, i, e)
    BY DEF Dotted
  <2>1. i \in Inodes
    BY <1>t, <1>2 DEF Resolve
  <2>2. it[i].type = "DIR"
    BY <2>1 DEF Joined
  <2>3. DotsIn(it, bl, i, e)
    BY <1>1, <2>2 DEF TreeOK, Dotted, Entrant
  <2>4. QED
    BY <2>1, <2>3 DEF Joined
<1>5. ASSUME it[d].type = "DIR", x.name \in ShortNames, LongNames = {}
      PROVE  Grown(it, bl, it2, bl2, d, x.name, x.inode)
  <2>1. \A e, m, j : InEntries(it, bl, e, m, j) => j \in Inodes /\ j # x.inode
    BY <1>t DEF InEntries, TreeOK, Resolve, Entrant, Unlinked
  <2>2. Named(it2, bl2, d, k, s) /\ CellOf(it2, bl2, d, k, s) = x /\ it2[x.inode].type # "FREE"
    BY <1>t DEF Joined, Entrant
  <2>3. ASSUME NEW e, NEW m, NEW j, InEntries(it2, bl2, e, m, j)
        PROVE  InEntries(it, bl, e, m, j) \/ (e = d /\ m = x.name /\ j = x.inode)
    <3>1. PICK l, t : /\ Named(it2, bl2, e, l, t) /\ CellOf(it2, bl2, e, l, t).inode = j
                      /\ CellOf(it2, bl2, e, l, t).name = m
      BY <2>3 DEF InEntries
    <3>2. j \in Inodes
      BY <1>2, <1>t, <3>1 DEF Resolve
    <3>3. it[j].type # "FREE"
      BY <2>3, <3>2 DEF InEntries, Joined
    <3>4. QED
      BY <1>1, <3>1, <3>3 DEF InEntries
  <2>4. ASSUME NEW e, NEW m, NEW j, InEntries(it, bl, e, m, j)
        PROVE  InEntries(it2, bl2, e, m, j)
    <3>1. it2[j].type # "FREE"
      BY <2>1, <2>4 DEF InEntries, Joined
    <3>2. QED
      BY <2>4, <3>1 DEF InEntries, Joined
  <2>5. InEntries(it2, bl2, d, x.name, x.inode)
    BY <2>2 DEF InEntries
  <2>6. SameDirs(it, bl, it2)
    BY <2>1, Basics DEF SameDirs, OfTree, Joined
  <2>7. OfTree(it, bl, d)
    <3>1. CASE d # Root
      <4>1. PICK e, l, t : Named(it, bl, e, l, t) /\ CellOf(it, bl, e, l, t).inode = d
        BY <3>1 DEF Entrant, Welcome, Unlinked
      <4>2. InEntries(it, bl, e, CellOf(it, bl, e, l, t).name, d)
        BY <1>5, <4>1 DEF InEntries
      <4>3. QED
        BY <4>2 DEF OfTree
    <3>2. QED
      BY <3>1 DEF OfTree
  <2>8. ~OfTree(it, bl, x.inode)
    BY <2>1 DEF OfTree, Entrant
  <2>9. \A j : ~InEntries(it, bl, d, x.name, j)
    BY <1>5 DEF InEntries, Entrant, Welcome
  <2>10. x.inode \in Inodes /\ x.inode # Root
    BY <1>t DEF Entrant
  <2>11. QED
    BY <1>5, <2>3, <2>4, <2>5, <2>6, <2>7, <2>8, <2>9, <2>10 DEF Grown
<1>6. QED
  BY <1>2, <1>3, <1>4, <1>5, <1>h DEF TreeStep

\* An entry into a free slot.
LEMMA FillCell ==
    ASSUME NEW ib, NEW bb, NEW it, NEW bl, TreeOK(ib, bb, it, bl, {}),
           NEW d \in Inodes, NEW k \in Idx, NEW s \in Slots,
           it[d].type = "DIR", it[d].direct[k] # NoBlock, CellOf(it, bl, d, k, s).name = NoName,
           NEW x \in Cell, x.name \in ShortNames, Entrant(ib, it, bl, d, x)
    PROVE  /\ TreeOK(ib, bb, it, [bl EXCEPT ![it[d].direct[k]] = [bl[it[d].direct[k]] EXCEPT ![s] = x]], {})
           /\ LongNames = {} =>
                 TreeStep(it, bl, it,
                          [bl EXCEPT ![it[d].direct[k]] = [bl[it[d].direct[k]] EXCEPT ![s] = x]])
<1> DEFINE b == it[d].direct[k]
           c == [bl[b] EXCEPT ![s] = x]
           bl2 == [bl EXCEPT ![b] = c]
<1>t. ImageType(ib, bb, it, bl) /\ bl \in [DataBlocks -> Contents]
  BY DEF TreeOK, ImageType
<1>1. b \in DataBlocks /\ bl[b] \in Contents
  BY <1>t, Fields
<1>2. c[s] = x /\ (\A t \in Slots : t # s => c[t] = bl[b][t]) /\ c \in Contents
  BY <1>1 DEF Contents
<1> HIDE DEF c
<1>3. bl2[b] = c /\ (\A y : y # b => bl2[y] = bl[y]) /\ bl2 \in [DataBlocks -> Contents]
  BY <1>t, <1>1, <1>2
<1>4. \A e \in Inodes, l \in Idx : it[e].direct[l] = b => e = d /\ l = k
  BY DEF TreeOK, Apart
<1>b. CellOf(it, bl, d, k, s) = bl[b][s]
  BY DEF CellOf
<1> HIDE DEF bl2
<1>5. \A e \in Inodes, l \in Idx, t \in Slots : CellOf(it, bl2, e, l, t)
          = IF e = d /\ l = k /\ t = s THEN x ELSE CellOf(it, bl, e, l, t)
  BY <1>2, <1>3, <1>4 DEF CellOf
<1>6. /\ {NoName, Dot, DotDot, FileBytes} \cap ShortNames = {} /\ NoName # Dot /\ NoName # DotDot
      /\ 0 \in Slots /\ 1 \in Slots /\ 0 \in Idx
  BY Basics, NameAssumption
<1>7. ASSUME NEW e, NEW l, NEW t
      PROVE  /\ Named(it, bl2, e, l, t) <=> Named(it, bl, e, l, t) \/ (e = d /\ l = k /\ t = s)
             /\ Named(it, bl, e, l, t) => CellOf(it, bl2, e, l, t) = CellOf(it, bl, e, l, t)
             /\ ~Named(it, bl, d, k, s)
  BY <1>5, <1>6 DEF Named
<1>8. ASSUME NEW i \in Inodes, NEW e, DotsIn(it, bl, i, e) PROVE DotsIn(it, bl2, i, e)
  <2>1. CellOf(it, bl, i, 0, 0).name = Dot /\ CellOf(it, bl, i, 0, 1).name = DotDot
    BY <1>8 DEF DotsIn
  <2>2. CellOf(it, bl2, i, 0, 0) = CellOf(it, bl, i, 0, 0)
        /\ CellOf(it, bl2, i, 0, 1) = CellOf(it, bl, i, 0, 1)
    BY <1>5, <1>6, <2>1
  <2>3. QED
    BY <1>8, <2>2 DEF DotsIn
<1>9. Joined(it, bl, it, bl2, d, k, s, x)
  BY <1>5, <1>7, <1>8 DEF Joined
<1>10. /\ Resolve(ib, it, bl2, {}) /\ Once(it, bl2) /\ Dotted(it, bl2, {}) /\ Hung(ib, it, bl2)
       /\ LongNames = {} => TreeStep(it, bl, it, bl2)
  BY <1>9, JoinedOK
<1>11. NoBytes(it, bl2, {})
  BY <1>5, <1>6 DEF TreeOK, NoBytes
<1>12. ImageType(ib, bb, it, bl2)
  BY <1>t, <1>3 DEF ImageType
<1>13. TreeOK(ib, bb, it, bl2, {})
  BY <1>10, <1>11, <1>12 DEF TreeOK
<1>14. QED
  BY <1>10, <1>13 DEF bl2, c

\* An inode in use gets a marked block that nobody has.
GrownTo(ib, bb, it, bl, i, k, b, it2) ==
    /\ ImageType(ib, bb, it2, bl)
    /\ \A j \in Inodes : Used(it2[j]) /\ it2[j].type = it[j].type
    /\ \A j \in Inodes, l \in Idx :
          it2[j].direct[l] = IF j = i /\ l = k THEN b ELSE it[j].direct[l]
    /\ Marked(bb, it2, {}) /\ Apart(it2)

LEMMA GrownToIs ==
    ASSUME NEW ib, NEW bb, NEW it, NEW bl, TreeOK(ib, bb, it, bl, {}),
           NEW i \in Inodes, NEW k \in Holes(it[i]), NEW b \in bb, Unref(it, b)
    PROVE  GrownTo(ib, bb, it, bl, i, k, b, [it EXCEPT ![i] = WithBlock(it[i], k, b)])
<1>t. /\ it \in [Inodes -> Inode] /\ bb \subseteq DataBlocks /\ ImageType(ib, bb, it, bl)
      /\ it[i] \in Inode /\ b \in DataBlocks /\ k \in Idx
  BY DEF TreeOK, ImageType, Holes
<1> DEFINE r == WithBlock(it[i], k, b)
           it2 == [it EXCEPT ![i] = r]
<1>1. r \in Inode /\ Used(r)
  BY <1>t, WithBlockType, WithBlockUsed DEF TreeOK
<1>2. r.type = it[i].type /\ \A l \in Idx : r.direct[l] = IF l = k THEN b ELSE it[i].direct[l]
  BY <1>t DEF WithBlock, Inode
<1> HIDE DEF r
<1>3. it2[i] = r /\ (\A j \in Inodes : j # i => it2[j] = it[j]) /\ it2 \in [Inodes -> Inode]
  BY <1>t, <1>1
<1> HIDE DEF it2
<1>4. \A j \in Inodes : Used(it2[j]) /\ it2[j].type = it[j].type
  BY <1>1, <1>2, <1>3 DEF TreeOK
<1>5. \A j \in Inodes, l \in Idx : it2[j].direct[l] = IF j = i /\ l = k THEN b ELSE it[j].direct[l]
  BY <1>2, <1>3
<1>6. ImageType(ib, bb, it2, bl)
  BY <1>t, <1>3, <1>4, Basics DEF ImageType
<1>7. Marked(bb, it2, {})
  BY <1>5 DEF TreeOK, Marked
<1>8. Apart(it2)
  BY <1>5 DEF TreeOK, Apart, Unref
<1>9. GrownTo(ib, bb, it, bl, i, k, b, it2)
  BY <1>4, <1>5, <1>6, <1>7, <1>8 DEF GrownTo
<1>10. QED
  BY <1>9 DEF it2, r

\* An entry in the first slot of a new block of the directory.
LEMMA GrowDir ==
    ASSUME NEW ib, NEW bb, NEW it, NEW bl, TreeOK(ib, bb, it, bl, {}),
           NEW d \in Inodes, NEW k \in Holes(it[d]), NEW b \in bb, Unref(it, b), it[d].type = "DIR",
           NEW x \in Cell, x.name \in ShortNames, Entrant(ib, it, bl, d, x),
           bl[b] = [ZeroBlock EXCEPT ![0] = x]
    PROVE  /\ TreeOK(ib, bb, [it EXCEPT ![d] = WithBlock(it[d], k, b)], bl, {})
           /\ LongNames = {} => TreeStep(it, bl, [it EXCEPT ![d] = WithBlock(it[d], k, b)], bl)
<1> DEFINE it2 == [it EXCEPT ![d] = WithBlock(it[d], k, b)]
<1>g. GrownTo(ib, bb, it, bl, d, k, b, it2)
  BY GrownToIs
<1> HIDE DEF it2
<1>1. /\ ImageType(ib, bb, it2, bl)
      /\ \A j \in Inodes : Used(it2[j]) /\ it2[j].type = it[j].type
      /\ \A j \in Inodes, l \in Idx :
            it2[j].direct[l] = IF j = d /\ l = k THEN b ELSE it[j].direct[l]
      /\ Marked(bb, it2, {}) /\ Apart(it2)
  BY <1>g DEF GrownTo
<1>2. b # NoBlock /\ k \in Idx /\ it[d].direct[k] = NoBlock
  BY Basics DEF TreeOK, ImageType, Holes
<1>3. /\ {NoName, Dot, DotDot, FileBytes} \cap ShortNames = {} /\ NoName # FileBytes
      /\ 0 \in Slots /\ 1 \in Slots /\ 0 \in Idx
  BY Basics
<1>4. bl[b][0] = x /\ \A t \in Slots : t # 0 => bl[b][t].name = NoName
  BY <1>3 DEF ZeroBlock, FreeCell
<1>5. \A e \in Inodes, l \in Idx : \A t :
        CellOf(it2, bl, e, l, t) = IF e = d /\ l = k THEN bl[b][t] ELSE CellOf(it, bl, e, l, t)
  BY <1>1 DEF CellOf
<1>6. ASSUME NEW e, NEW l, NEW t
      PROVE  /\ Named(it2, bl, e, l, t) <=> Named(it, bl, e, l, t) \/ (e = d /\ l = k /\ t = 0)
             /\ Named(it, bl, e, l, t) => CellOf(it2, bl, e, l, t) = CellOf(it, bl, e, l, t)
             /\ ~Named(it, bl, d, k, 0)
  <2>1. CASE e \in Inodes /\ l \in Idx /\ t \in Slots
    BY <1>1, <1>2, <1>3, <1>4, <1>5, <2>1 DEF Named
  <2>2. CASE ~(e \in Inodes /\ l \in Idx /\ t \in Slots)
    BY <1>2, <1>3, <2>2 DEF Named
  <2>3. QED
    BY <2>1, <2>2
<1>7. ASSUME NEW i \in Inodes, NEW e, DotsIn(it, bl, i, e) PROVE DotsIn(it2, bl, i, e)
  <2>1. ~(i = d /\ k = 0)
    BY <1>2, <1>7 DEF DotsIn
  <2>2. QED
    BY <1>1, <1>3, <1>5, <1>7, <2>1 DEF DotsIn
<1>8. CellOf(it2, bl, d, k, 0) = x
  BY <1>2, <1>4, <1>5
<1>9. Joined(it, bl, it2, bl, d, k, 0, x)
  BY <1>1, <1>6, <1>7, <1>8 DEF Joined
<1>10. /\ Resolve(ib, it2, bl, {}) /\ Once(it2, bl) /\ Dotted(it2, bl, {}) /\ Hung(ib, it2, bl)
       /\ LongNames = {} => TreeStep(it, bl, it2, bl)
  BY <1>9, JoinedOK
<1>11. NoBytes(it2, bl, {})
  <2> SUFFICES ASSUME NEW e \in Inodes, NEW l \in Idx, NEW t \in Slots,
                      it2[e].type = "DIR", it2[e].direct[l] # NoBlock
               PROVE  CellOf(it2, bl, e, l, t).name # FileBytes
    BY DEF NoBytes
  <2>1. CASE e = d /\ l = k
    BY <1>3, <1>4, <1>5, <2>1
  <2>2. CASE ~(e = d /\ l = k)
    BY <1>1, <1>5, <2>2 DEF TreeOK, NoBytes
  <2>3. QED
    BY <2>1, <2>2
<1>12. TreeOK(ib, bb, it2, bl, {})
  BY <1>1, <1>10, <1>11 DEF TreeOK
<1>13. QED
  BY <1>10, <1>12 DEF it2

\* A file gets a block.
LEMMA GrowFile ==
    ASSUME NEW ib, NEW bb, NEW it, NEW bl, TreeOK(ib, bb, it, bl, {}),
           NEW i \in Inodes, NEW k \in Holes(it[i]), NEW b \in bb, Unref(it, b), it[i].type = "FILE"
    PROVE  /\ TreeOK(ib, bb, [it EXCEPT ![i] = WithBlock(it[i], k, b)], bl, {})
           /\ Alike(it, bl, [it EXCEPT ![i] = WithBlock(it[i], k, b)], bl)
<1> DEFINE it2 == [it EXCEPT ![i] = WithBlock(it[i], k, b)]
<1>g. GrownTo(ib, bb, it, bl, i, k, b, it2)
  BY GrownToIs
<1> HIDE DEF it2
<1>1. /\ ImageType(ib, bb, it2, bl)
      /\ \A j \in Inodes : Used(it2[j]) /\ it2[j].type = it[j].type
      /\ \A j \in Inodes, l \in Idx :
            it2[j].direct[l] = IF j = i /\ l = k THEN b ELSE it[j].direct[l]
      /\ Marked(bb, it2, {}) /\ Apart(it2)
  BY <1>g DEF GrownTo
<1>2. \A e \in Inodes, l \in Idx : \A t : it[e].type = "DIR" =>
        CellOf(it2, bl, e, l, t) = CellOf(it, bl, e, l, t) /\ it2[e].direct[l] = it[e].direct[l]
  BY <1>1 DEF CellOf
<1>3. ASSUME NEW e, NEW l, NEW t
      PROVE  /\ Named(it2, bl, e, l, t) <=> Named(it, bl, e, l, t)
             /\ Named(it, bl, e, l, t) => CellOf(it2, bl, e, l, t) = CellOf(it, bl, e, l, t)
  BY <1>1, <1>2 DEF Named
<1>4. Resolve(ib, it2, bl, {})
  <2> SUFFICES ASSUME NEW e, NEW l, NEW t, NEW j, j = CellOf(it2, bl, e, l, t).inode,
                      Named(it2, bl, e, l, t)
               PROVE  j # Root /\ j \in ib /\ it2[j].type # "FREE"
    BY DEF Resolve
  <2>1. j # Root /\ j \in ib /\ it[j].type # "FREE"
    BY <1>3 DEF TreeOK, Resolve
  <2>2. QED
    BY <1>1, <2>1 DEF ImageType
<1>5. Once(it2, bl) /\ Hung(ib, it2, bl)
  BY <1>3 DEF TreeOK, Once, Hung
<1>a. Alike(it, bl, it2, bl)
  <2>1. \A d, l, t : Named(it, bl, d, l, t) => CellOf(it, bl, d, l, t).inode \in Inodes
    BY DEF TreeOK, Resolve, ImageType
  <2>2. QED
    BY <1>1, <1>3, <2>1, Basics DEF Alike
<1>6. NoBytes(it2, bl, {})
  BY <1>1, <1>2 DEF TreeOK, NoBytes
<1>7. Dotted(it2, bl, {})
  <2> SUFFICES ASSUME NEW e, NEW l, NEW t, NEW j, j = CellOf(it2, bl, e, l, t).inode,
                      Named(it2, bl, e, l, t), it2[j].type = "DIR"
               PROVE  DotsIn(it2, bl, j, e)
    BY DEF Dotted
  <2>1. j \in Inodes /\ Named(it, bl, e, l, t) /\ j = CellOf(it, bl, e, l, t).inode
    BY <1>1, <1>3, <1>4 DEF Resolve, ImageType
  <2>2. it[j].type = "DIR"
    BY <1>1, <2>1
  <2>3. DotsIn(it, bl, j, e)
    BY <2>1, <2>2 DEF TreeOK, Dotted
  <2>4. QED
    BY <1>2, <2>1, <2>2, <2>3, Basics DEF DotsIn
<1>8. TreeOK(ib, bb, it2, bl, {})
  BY <1>1, <1>4, <1>5, <1>6, <1>7 DEF TreeOK
<1>9. QED
  BY <1>8, <1>a DEF it2

\* The bytes of a file are in no directory.
LEMMA FileQuiet ==
    ASSUME NEW ib, NEW bb, NEW it, NEW bl, TreeOK(ib, bb, it, bl, {}), NEW i \in Inodes, NEW k \in Idx,
           it[i].type = "FILE", it[i].direct[k] # NoBlock, NEW c
    PROVE  Quiet(it, bl, it[i].direct[k], c)
  BY DEF TreeOK, Apart, Quiet

LEMMA UnrefQuiet ==
    ASSUME NEW it, NEW bl, NEW b, Unref(it, b), NEW c
    PROVE  Quiet(it, bl, b, c)
  BY DEF Unref, Quiet

LEMMA UnrefContent ==
    ASSUME NEW ib, NEW bb, NEW it, NEW bl, TreeOK(ib, bb, it, bl, {}),
           NEW b \in DataBlocks, NEW c \in Contents, Unref(it, b)
    PROVE  /\ TreeOK(ib, bb, it, [bl EXCEPT ![b] = c], {})
           /\ [bl EXCEPT ![b] = c][b] = c
           /\ Alike(it, bl, it, [bl EXCEPT ![b] = c])
           /\ \A d, x : Entrant(ib, it, bl, d, x) => Entrant(ib, it, [bl EXCEPT ![b] = c], d, x)
<1> DEFINE bl2 == [bl EXCEPT ![b] = c]
<1>t. bl \in [DataBlocks -> Contents] /\ ib \subseteq Inodes
  BY DEF TreeOK, ImageType
<1>1. TreeOK(ib, bb, it, bl2, {}) /\ Alike(it, bl, it, bl2)
  BY QuietContent, UnrefQuiet
<1>2. bl2[b] = c /\ \A y : y # b => bl2[y] = bl[y]
  BY <1>t
<1> HIDE DEF bl2
<1>3. ASSUME NEW d, NEW x, Entrant(ib, it, bl, d, x) PROVE Entrant(ib, it, bl2, d, x)
  <2>1. x.inode \in Inodes /\ it[x.inode].direct[0] # b
    BY <1>3, <1>t, Basics DEF Entrant, Unref
  <2>2. DotsIn(it, bl, x.inode, d) => DotsIn(it, bl2, x.inode, d)
    BY <1>2, <2>1 DEF DotsIn, CellOf
  <2>3. Unlinked(it, bl2, x.inode) /\ Welcome(it, bl2, d, x.name)
    BY <1>1, <1>3, AlikeKeeps DEF Entrant
  <2>4. QED
    BY <1>3, <2>2, <2>3 DEF Entrant
<1>4. QED
  BY <1>1, <1>2, <1>3 DEF bl2

-----------------------------------------------------------------------------
(* Lookups, the directories of paths, counters *)

\* Directory d has an entry for i under the name n, the first of that name.
EntryFor(it, bl, d, n, i) ==
    \E k, s : /\ Named(it, bl, d, k, s) /\ <<k, s>> \in FirstPos(Matches(it[d], bl, n))
              /\ CellOf(it, bl, d, k, s).inode = i /\ CellOf(it, bl, d, k, s).name = n

\* A lookup ends at such an entry.
LEMMA LookupNamed ==
    ASSUME NEW ib, NEW bb, NEW it, NEW bl, ImageType(ib, bb, it, bl), NEW d \in Inodes,
           it[d].type = "DIR", NEW n \in Names, NEW i \in Lookup(it, bl, d, n)
    PROVE  EntryFor(it, bl, d, n, i)
<1>1. PICK p \in FirstPos(Matches(it[d], bl, n)) : i = CellAt(it[d], bl, p).inode
  BY DEF Lookup
<1>2. p \in Positions(it[d]) /\ CellAt(it[d], bl, p).name = n
  BY <1>1 DEF FirstPos, Matches
<1>3. p = <<p[1], p[2]>> /\ p[1] \in Idx /\ p[2] \in Slots /\ it[d].direct[p[1]] # NoBlock
  BY <1>2 DEF Positions, Pointers
<1>4. CellAt(it[d], bl, p) = CellOf(it, bl, d, p[1], p[2])
  BY DEF CellAt, CellOf
<1>5. n \notin {NoName, Dot, DotDot}
  BY NameAssumption DEF Names
<1>6. Named(it, bl, d, p[1], p[2])
  BY <1>2, <1>3, <1>4, <1>5 DEF Named
<1>7. QED
  BY <1>1, <1>2, <1>3, <1>4, <1>6 DEF EntryFor

\* The directories that paths reach are in use.
LEMMA PathDirsInUse ==
    ASSUME NEW ib, NEW bb, NEW it, NEW bl, TreeOK(ib, bb, it, bl, {}), NEW d \in PathDirs(it, bl)
    PROVE  d \in ib
<1>t. ImageType(ib, bb, it, bl) /\ Disks(it, bl) /\ ib \subseteq Inodes
  BY DEF TreeOK, ImageType, Disks, Contents
<1> DEFINE S == {e \in ib : it[e].type = "DIR"}
<1>1. S \in SUBSET Inodes /\ Root \in S
  BY <1>t DEF ImageType
<1>2. ASSUME NEW e \in S, NEW i \in Inodes, Child(it, bl, e, i) PROVE i \in S
  <2>1. PICK n \in ShortNames : i \in Lookup(it, bl, e, n)
    BY <1>2 DEF Child, NamedChild
  <2>2. e \in Inodes /\ it[e].type = "DIR" /\ n \in Names
    BY <1>1 DEF Names
  <2>3. EntryFor(it, bl, e, n, i)
    BY <1>t, <2>1, <2>2, LookupNamed
  <2>4. i \in ib
    BY <2>3 DEF EntryFor, TreeOK, Resolve
  <2>5. QED
    BY <1>2, <2>4 DEF Child, NamedChild
<1>3. Closed(it, bl, S)
  BY <1>2 DEF Closed
<1> HIDE DEF S
<1>4. PathDirs(it, bl) \subseteq S
  BY <1>t, <1>1, <1>3, PathDirsAre
<1>5. QED
  BY <1>4 DEF S

\* Of some positions one comes first.
LEMMA FirstExists ==
    ASSUME NEW dir, NEW P \in SUBSET Positions(dir), P # {}
    PROVE  FirstPos(P) # {}
<1>1. \A p \in P : p = <<p[1], p[2]>> /\ p[1] \in Nat /\ p[2] \in Nat
  BY GeometryAssumption DEF Positions, Pointers, Idx, Slots
<1> DEFINE K == {p[1] : p \in P}
<1>2. K \in SUBSET Nat /\ K # {}
  BY <1>1
<1>3. PICK k \in K : \A j \in K : k <= j
  BY <1>2, LeastNat
<1> DEFINE S == {p[2] : p \in {q \in P : q[1] = k}}
<1>4. S \in SUBSET Nat /\ S # {}
  BY <1>1
<1>5. PICK s \in S : \A u \in S : s <= u
  BY <1>4, LeastNat
<1>6. PICK p \in P : p[1] = k /\ p[2] = s
  OBVIOUS
<1>7. ASSUME NEW q \in P PROVE Before(p, q)
  <2>1. k <= q[1] /\ (q[1] = k => s <= q[2]) /\ q[1] \in Nat /\ k \in Nat
    BY <1>1, <1>2, <1>3, <1>5
  <2>2. QED
    BY <1>6, <2>1 DEF Before
<1>8. p \in FirstPos(P)
  BY <1>7 DEF FirstPos
<1>9. QED
  BY <1>8

\* Where a path leads and a lookup fails, a name is new.
LEMMA NewName ==
    ASSUME NEW ib, NEW bb, NEW it, NEW bl, TreeOK(ib, bb, it, bl, {}), NEW d \in PathDirs(it, bl),
           NEW n \in Names, Lookup(it, bl, d, n) = {}
    PROVE  Welcome(it, bl, d, Stored(n))
<1>t. ImageType(ib, bb, it, bl) /\ Disks(it, bl) /\ ib \subseteq Inodes
  BY DEF TreeOK, ImageType, Disks, Contents
<1> DEFINE S == {e \in Inodes : it[e].type = "DIR" /\ (e = Root \/ ~Unlinked(it, bl, e))}
<1>1. S \in SUBSET Inodes /\ Root \in S
  BY <1>t, Basics DEF ImageType
<1>2. ASSUME NEW e \in S, NEW i \in Inodes, Child(it, bl, e, i) PROVE i \in S
  <2>1. PICK m \in ShortNames : i \in Lookup(it, bl, e, m)
    BY <1>2 DEF Child, NamedChild
  <2>2. e \in Inodes /\ it[e].type = "DIR" /\ m \in Names
    BY <1>1 DEF Names
  <2>3. EntryFor(it, bl, e, m, i)
    BY <1>t, <2>1, <2>2, LookupNamed
  <2>4. ~Unlinked(it, bl, i)
    BY <2>3 DEF EntryFor, Unlinked
  <2>5. QED
    BY <1>2, <2>4 DEF Child, NamedChild
<1>3. Closed(it, bl, S)
  BY <1>2 DEF Closed
<1> HIDE DEF S
<1>4. PathDirs(it, bl) \subseteq S
  BY <1>t, <1>1, <1>3, PathDirsAre
<1>5. d = Root \/ ~Unlinked(it, bl, d)
  BY <1>4 DEF S
<1>6. ASSUME LongNames = {}, NEW k, NEW s, Named(it, bl, d, k, s), CellOf(it, bl, d, k, s).name = Stored(n)
      PROVE  FALSE
  <2>1. CellOf(it, bl, d, k, s).name = n
    BY <1>6 DEF Stored
  <2>2. <<k, s>> \in Matches(it[d], bl, n)
    BY <1>6, <2>1 DEF Matches, Positions, Pointers, CellAt, CellOf, Named
  <2>3. FirstPos(Matches(it[d], bl, n)) # {}
    BY <2>2, FirstExists DEF Matches
  <2>4. QED
    BY <2>3 DEF Lookup
<1>7. QED
  BY <1>5, <1>6 DEF Welcome

\* Taking a block whose bit is set, or is set while the counter still counts it.
LEMMA EnoughBlock ==
    ASSUME NEW c \in Counters, NEW ib, NEW bb, Enough(c, ib, bb), NEW b \in DataBlocks \ bb
    PROVE  /\ Enough(c, ib, bb \cup {b}) /\ Enough(TakeBlock(c), ib, bb \cup {b})
           /\ TakeBlock(c) \in Counters
<1> DEFINE F == DataBlocks \ bb
<1>1. IsFiniteSet(DataBlocks)
  BY Basics
<1>2. IsFiniteSet(F)
  BY <1>1, FS_Subset
<1>3. DataBlocks \ (bb \cup {b}) = F \ {b} /\ b \in F
  OBVIOUS
<1>4. c.free_blocks >= Cardinality(F)
  BY DEF Enough
<1> HIDE DEF F
<1>5. Cardinality(F) \in Nat /\ Cardinality(F \ {b}) = Cardinality(F) - 1
  BY <1>2, <1>3, FS_RemoveElement, FS_CardinalityType
<1>6. Cardinality(F \ {b}) \in Nat
  BY <1>2, FS_Subset, FS_CardinalityType
<1>7. /\ c.free_blocks \in Nat /\ TakeBlock(c).free_inodes = c.free_inodes
      /\ TakeBlock(c).free_blocks = IF c.free_blocks > 0 THEN c.free_blocks - 1 ELSE c.free_blocks
  BY DEF Counters, TakeBlock, Taken
<1>8. TakeBlock(c) \in Counters
  BY DEF Counters, TakeBlock, Taken
<1>9. c.free_blocks >= Cardinality(F \ {b}) /\ TakeBlock(c).free_blocks >= Cardinality(F \ {b})
  BY <1>4, <1>5, <1>6, <1>7
<1>10. QED
  BY <1>3, <1>7, <1>8, <1>9 DEF Enough

LEMMA EnoughInode ==
    ASSUME NEW c \in Counters, NEW ib, NEW bb, Enough(c, ib, bb), NEW i \in Inodes \ ib
    PROVE  /\ Enough(c, ib \cup {i}, bb) /\ Enough(TakeInode(c), ib \cup {i}, bb)
           /\ TakeInode(c) \in Counters
<1> DEFINE F == Inodes \ ib
<1>1. IsFiniteSet(Inodes)
  BY Basics
<1>2. IsFiniteSet(F)
  BY <1>1, FS_Subset
<1>3. Inodes \ (ib \cup {i}) = F \ {i} /\ i \in F
  OBVIOUS
<1>4. c.free_inodes >= Cardinality(F)
  BY DEF Enough
<1> HIDE DEF F
<1>5. Cardinality(F) \in Nat /\ Cardinality(F \ {i}) = Cardinality(F) - 1
  BY <1>2, <1>3, FS_RemoveElement, FS_CardinalityType
<1>6. Cardinality(F \ {i}) \in Nat
  BY <1>2, FS_Subset, FS_CardinalityType
<1>7. /\ c.free_inodes \in Nat /\ TakeInode(c).free_blocks = c.free_blocks
      /\ TakeInode(c).free_inodes = IF c.free_inodes > 0 THEN c.free_inodes - 1 ELSE c.free_inodes
  BY DEF Counters, TakeInode, Taken
<1>8. TakeInode(c) \in Counters
  BY DEF Counters, TakeInode, Taken
<1>9. c.free_inodes >= Cardinality(F \ {i}) /\ TakeInode(c).free_inodes >= Cardinality(F \ {i})
  BY <1>4, <1>5, <1>6, <1>7
<1>10. QED
  BY <1>3, <1>7, <1>8, <1>9 DEF Enough

LEMMA WriteTypes ==
    /\ \A i \in Inodes, u \in BOOLEAN : InodeBit(i, u) \in BlockWrites
    /\ \A B \in SUBSET DataBlocks, u \in BOOLEAN : BlockBits(B, u) \in BlockWrites
    /\ \A i \in Inodes, r \in Inode : InodeRec(i, r) \in BlockWrites
    /\ \A b \in DataBlocks, c \in Contents : Content(b, c) \in BlockWrites
    /\ Superblock \in BlockWrites
  BY DEF BlockWrites, InodeBit, BlockBits, InodeRec, Content, Superblock

-----------------------------------------------------------------------------
(* The writes of an entry *)

\* The writes p lead to another good image with the same inodes in use; the
\* counters s are not short of it.
Leads(ib, bb, it, bl, d, p, c, s) ==
    \E bb2, it2, bl2 :
        /\ Path(Im(ib, bb, it, bl, d), p, {}, c, Im(ib, bb2, it2, bl2, d))
        /\ TreeOK(ib, bb2, it2, bl2, {})
        /\ d \in Counters /\ Enough(d, ib, bb2) /\ s \in Counters /\ Enough(s, ib, bb2)

LEMMA EntryInPlace ==
    ASSUME NEW ib, NEW bb, NEW it, NEW bl, TreeOK(ib, bb, it, bl, {}),
           NEW d \in Inodes, it[d].type = "DIR", NEW x \in Cell, x.name \in ShortNames,
           Entrant(ib, it, bl, d, x), NEW p \in FirstPos(FreeSlots(it[d], bl)),
           NEW g \in Counters, Enough(g, ib, bb), NEW s \in Counters, Enough(s, ib, bb), NEW c
    PROVE  Leads(ib, bb, it, bl, g,
                 <<Content(it[d].direct[p[1]], [bl[it[d].direct[p[1]]] EXCEPT ![p[2]] = x])>>, c, s)
<1>t. ImageType(ib, bb, it, bl)
  BY DEF TreeOK
<1>1. p \in Positions(it[d]) /\ CellAt(it[d], bl, p).name = NoName
  BY DEF FirstPos, FreeSlots
<1>2. p[1] \in Idx /\ p[2] \in Slots /\ it[d].direct[p[1]] # NoBlock
  BY <1>1 DEF Positions, Pointers
<1>3. CellOf(it, bl, d, p[1], p[2]).name = NoName
  BY <1>1 DEF CellAt, CellOf
<1> DEFINE b == it[d].direct[p[1]]
           y == [bl[b] EXCEPT ![p[2]] = x]
           bl2 == [bl EXCEPT ![b] = y]
<1>4. b \in DataBlocks /\ bl[b] \in Contents
  BY <1>t, <1>2, Fields DEF ImageType
<1>5. y \in Contents
  BY <1>4, <1>2 DEF Contents
<1>6. /\ TreeOK(ib, bb, it, bl2, {})
      /\ LongNames = {} => TreeStep(it, bl, it, bl2)
  BY <1>2, <1>3, FillCell
<1> HIDE DEF b, y
<1>7. Written(Im(ib, bb, it, bl, g), Content(b, y), c) = Im(ib, bb, it, bl2, g)
  BY DEF Written, Im, BlockBits, Content, InodeRec
<1>8. Good(Im(ib, bb, it, bl, g), {})
  BY GoodIm
<1>9. Content(b, y) \in BlockWrites
  BY <1>4, <1>5, WriteTypes
<1> HIDE DEF bl2
<1>m. Moves(Im(ib, bb, it, bl, g), Im(ib, bb, it, bl2, g))
  BY <1>6, MovesIm
<1>10. Path(Im(ib, bb, it, bl, g), <<Content(b, y)>>, {}, c, Im(ib, bb, it, bl2, g))
  BY <1>7, <1>8, <1>9, <1>m, PathOne
<1>11. Leads(ib, bb, it, bl, g, <<Content(b, y)>>, c, s)
  BY <1>6, <1>10 DEF Leads
<1>12. QED
  BY <1>11 DEF b, y

LEMMA EntryInNewBlock ==
    ASSUME NEW ib, NEW bb, NEW it, NEW bl, TreeOK(ib, bb, it, bl, {}),
           NEW d \in Inodes, it[d].type = "DIR", NEW x \in Cell, x.name \in ShortNames,
           Entrant(ib, it, bl, d, x), NEW k \in Holes(it[d]), NEW b \in DataBlocks \ bb,
           NEW g \in Counters, Enough(g, ib, bb), NEW s \in Counters, Enough(s, ib, bb), NEW c
    PROVE  Leads(ib, bb, it, bl, g,
                 Allocation(b) \o <<Content(b, [ZeroBlock EXCEPT ![0] = x]),
                                    InodeRec(d, WithBlock(it[d], k, b))>>, c, TakeBlock(s))
<1> DEFINE y == [ZeroBlock EXCEPT ![0] = x]
           r == WithBlock(it[d], k, b)
           bb2 == bb \cup {b}
           bl1 == [bl EXCEPT ![b] = ZeroBlock]
           bl2 == [bl1 EXCEPT ![b] = y]
           it2 == [it EXCEPT ![d] = r]
<1>1. y \in Contents /\ ZeroBlock \in Contents /\ r \in Inode
  BY ContentsType, WithBlockType DEF Contents, Holes, TreeOK, ImageType
<1>2. Unref(it, b)
  BY ClearBlock
<1>3. TreeOK(ib, bb2, it, bl, {})
  BY MarkBlock
<1>y. y = [ZeroBlock EXCEPT ![0] = x]
  OBVIOUS
<1> HIDE DEF y
<1>4. TreeOK(ib, bb2, it, bl1, {}) /\ Entrant(ib, it, bl1, d, x) /\ Alike(it, bl, it, bl1)
  BY <1>1, <1>2, <1>3, UnrefContent
<1>5. /\ TreeOK(ib, bb2, it, bl2, {}) /\ Entrant(ib, it, bl2, d, x) /\ bl2[b] = y
      /\ Alike(it, bl1, it, bl2)
  <2> HIDE DEF bl1
  <2>1. QED
    BY <1>1, <1>2, <1>4, UnrefContent
<1>6. /\ TreeOK(ib, bb2, it2, bl2, {})
      /\ LongNames = {} => TreeStep(it, bl2, it2, bl2)
  <2> HIDE DEF bl2
  <2>1. b \in bb2 /\ bl2[b] = [ZeroBlock EXCEPT ![0] = x]
    BY <1>5, <1>y
  <2> HIDE DEF bb2
  <2>2. QED
    BY <1>2, <1>5, <2>1, GrowDir
<1>7. Enough(g, ib, bb2) /\ Enough(TakeBlock(s), ib, bb2) /\ TakeBlock(s) \in Counters
  BY EnoughBlock
<1>8. /\ BlockBits({b}, TRUE) \in BlockWrites /\ Content(b, ZeroBlock) \in BlockWrites
      /\ Content(b, y) \in BlockWrites /\ InodeRec(d, r) \in BlockWrites
  BY <1>1, WriteTypes
<1> HIDE DEF r
<1>9. /\ Written(Im(ib, bb, it, bl, g), BlockBits({b}, TRUE), c) = Im(ib, bb2, it, bl, g)
      /\ Written(Im(ib, bb2, it, bl, g), Content(b, ZeroBlock), c) = Im(ib, bb2, it, bl1, g)
  BY DEF Written, Im, BlockBits, Content, InodeRec
<1>10. /\ Written(Im(ib, bb2, it, bl1, g), Content(b, y), c) = Im(ib, bb2, it, bl2, g)
       /\ Written(Im(ib, bb2, it, bl2, g), InodeRec(d, r), c) = Im(ib, bb2, it2, bl2, g)
  <2> HIDE DEF bl1, bb2
  <2>1. QED
    BY DEF Written, Im, BlockBits, Content, InodeRec
<1> HIDE DEF bb2, bl1, bl2, it2
<1>11. /\ Good(Im(ib, bb, it, bl, g), {}) /\ Good(Im(ib, bb2, it, bl, g), {})
       /\ Good(Im(ib, bb2, it, bl1, g), {}) /\ Good(Im(ib, bb2, it, bl2, g), {})
  BY <1>3, <1>4, <1>5, <1>7, GoodIm
<1>m. /\ Moves(Im(ib, bb, it, bl, g), Im(ib, bb2, it, bl, g))
      /\ Moves(Im(ib, bb2, it, bl, g), Im(ib, bb2, it, bl1, g))
      /\ Moves(Im(ib, bb2, it, bl1, g), Im(ib, bb2, it, bl2, g))
      /\ Moves(Im(ib, bb2, it, bl2, g), Im(ib, bb2, it2, bl2, g))
  BY <1>4, <1>5, <1>6, MovesIm, MovesSame
<1>12. Path(Im(ib, bb, it, bl, g), Allocation(b), {}, c, Im(ib, bb2, it, bl1, g))
  BY <1>8, <1>9, <1>11, <1>m, PathTwo DEF Allocation
<1>13. Path(Im(ib, bb2, it, bl1, g), <<Content(b, y), InodeRec(d, r)>>, {}, c,
            Im(ib, bb2, it2, bl2, g))
  BY <1>8, <1>10, <1>11, <1>m, PathTwo
<1>14. Path(Im(ib, bb, it, bl, g), Allocation(b) \o <<Content(b, y), InodeRec(d, r)>>, {}, c,
            Im(ib, bb2, it2, bl2, g))
  BY <1>12, <1>13, PathJoin
<1>15. Leads(ib, bb, it, bl, g, Allocation(b) \o <<Content(b, y), InodeRec(d, r)>>, c, TakeBlock(s))
  BY <1>6, <1>7, <1>14 DEF Leads
<1>16. QED
  BY <1>15 DEF y, r

LEMMA EntryLeads ==
    ASSUME NEW ib, NEW bb, NEW it, NEW bl, TreeOK(ib, bb, it, bl, {}),
           NEW d \in Inodes, it[d].type = "DIR", NEW x \in Cell, x.name \in ShortNames,
           Entrant(ib, it, bl, d, x),
           NEW g \in Counters, Enough(g, ib, bb), NEW s \in Counters, Enough(s, ib, bb), NEW c,
           NEW e \in EntryWrites(d, x, it, bl, bb, s)
    PROVE  Leads(ib, bb, it, bl, g, e.writes, c, e.sb)
<1>1. CASE \E p \in FirstPos(FreeSlots(it[d], bl)) :
             e = [writes |-> <<Content(it[d].direct[p[1]],
                                       [bl[it[d].direct[p[1]]] EXCEPT ![p[2]] = x])>>, sb |-> s]
  <2>1. PICK p \in FirstPos(FreeSlots(it[d], bl)) :
             e = [writes |-> <<Content(it[d].direct[p[1]],
                                       [bl[it[d].direct[p[1]]] EXCEPT ![p[2]] = x])>>, sb |-> s]
    BY <1>1
  <2> DEFINE w == <<Content(it[d].direct[p[1]], [bl[it[d].direct[p[1]]] EXCEPT ![p[2]] = x])>>
  <2>2. Leads(ib, bb, it, bl, g, w, c, s)
    BY EntryInPlace
  <2>3. e = [writes |-> w, sb |-> s]
    BY <2>1
  <2> HIDE DEF w
  <2>4. QED
    BY <2>2, <2>3
<1>2. CASE \E z \in FirstFit(Holes(it[d])) \X FirstFit(DataBlocks \ bb) :
             e = [writes |-> Allocation(z[2]) \o <<Content(z[2], [ZeroBlock EXCEPT ![0] = x]),
                                                   InodeRec(d, WithBlock(it[d], z[1], z[2]))>>,
                  sb |-> TakeBlock(s)]
  <2>1. PICK z \in FirstFit(Holes(it[d])) \X FirstFit(DataBlocks \ bb) :
             e = [writes |-> Allocation(z[2]) \o <<Content(z[2], [ZeroBlock EXCEPT ![0] = x]),
                                                   InodeRec(d, WithBlock(it[d], z[1], z[2]))>>,
                  sb |-> TakeBlock(s)]
    BY <1>2
  <2> DEFINE k == z[1]
             b == z[2]
             w == Allocation(b) \o <<Content(b, [ZeroBlock EXCEPT ![0] = x]),
                                     InodeRec(d, WithBlock(it[d], k, b))>>
  <2>2. k \in Holes(it[d]) /\ b \in DataBlocks \ bb
    BY DEF FirstFit
  <2>3. e = [writes |-> w, sb |-> TakeBlock(s)]
    BY <2>1
  <2> HIDE DEF k, b
  <2>4. Leads(ib, bb, it, bl, g, w, c, TakeBlock(s))
    BY <2>2, EntryInNewBlock
  <2> HIDE DEF w
  <2>5. QED
    BY <2>3, <2>4
<1>3. QED
  BY <1>1, <1>2 DEF EntryWrites

-----------------------------------------------------------------------------
(* create, mkdir, write *)

LEMMA GoodLead ==
    ASSUME NEW ib, NEW bb, NEW it, NEW bl, TreeOK(ib, bb, it, bl, {}), NEW d \in Counters, Enough(d, ib, bb)
    PROVE  Good(Im(ib, bb, it, bl, d), {})
  BY GoodIm

\* The superblock is the last write.
LEMMA SafeEnd ==
    ASSUME NEW g, NEW p, NEW c, NEW ib, NEW bb, NEW it, NEW bl, NEW d,
           Path(g, p, {}, c, Im(ib, bb, it, bl, d)), TreeOK(ib, bb, it, bl, {}),
           d \in Counters, Enough(d, ib, bb), c \in Counters, Enough(c, ib, bb)
    PROVE  Safe(g, p, {}, c) /\ Safe(g, p \o <<Superblock>>, {}, c)
<1> DEFINE h == Im(ib, bb, it, bl, d)
           e == Im(ib, bb, it, bl, c)
<1>1. Good(h, {}) /\ Good(e, {})
  BY GoodLead
<1>m. Moves(h, e)
  BY MovesSame
<1>2. Written(h, Superblock, c) = e
  BY DEF Written, Im, Superblock
<1>3. h.ib = ib /\ h.bb = bb /\ e.ib = ib /\ e.bb = bb
  BY DEF Im
<1>4. Path(g, p, {}, c, h)
  OBVIOUS
<1> HIDE DEF h, e
<1>5. Path(h, <<Superblock>>, {}, c, e)
  BY <1>1, <1>2, <1>m, PathOne, WriteTypes
<1>6. Path(g, p \o <<Superblock>>, {}, c, e)
  BY <1>4, <1>5, PathJoin
<1>7. QED
  BY <1>1, <1>3, <1>4, <1>6 DEF Safe

\* The writes of a new inode, the writes of its entry, the superblock.
LEMMA SafeEntry ==
    ASSUME NEW g, NEW p, NEW c, NEW ib, NEW bb, NEW it, NEW bl, NEW d, NEW q,
           Path(g, p, {}, c, Im(ib, bb, it, bl, d)), Leads(ib, bb, it, bl, d, q, c, c)
    PROVE  Safe(g, (p \o q) \o <<Superblock>>, {}, c)
<1>1. PICK bb2, it2, bl2 :
        /\ Path(Im(ib, bb, it, bl, d), q, {}, c, Im(ib, bb2, it2, bl2, d))
        /\ TreeOK(ib, bb2, it2, bl2, {})
        /\ d \in Counters /\ Enough(d, ib, bb2) /\ c \in Counters /\ Enough(c, ib, bb2)
  BY DEF Leads
<1>2. Path(g, p \o q, {}, c, Im(ib, bb2, it2, bl2, d))
  BY <1>1, PathJoin
<1>3. QED
  BY <1>1, <1>2, SafeEnd

\* A callback starts from a good image with counters that are not short.
Ready(ib, bb, it, bl, d, s) ==
    /\ TreeOK(ib, bb, it, bl, {})
    /\ d \in Counters /\ Enough(d, ib, bb) /\ s \in Counters /\ Enough(s, ib, bb)

LEMMA CreateSafe ==
    ASSUME NEW ib, NEW bb, NEW it, NEW bl, NEW d, NEW s, Ready(ib, bb, it, bl, d, s),
           NEW par \in PathDirs(it, bl), it[par].type = "DIR", NEW n \in Names,
           Lookup(it, bl, par, n) = {}, NEW i \in Inodes \ ib
    PROVE  /\ Safe(Im(ib, bb, it, bl, d), <<InodeRec(i, NewFile), InodeBit(i, TRUE)>>, {}, TakeInode(s))
           /\ \A e \in EntryWrites(par, [inode |-> i, name |-> Stored(n)], [it EXCEPT ![i] = NewFile], bl,
                                   bb, TakeInode(s)) :
                 Safe(Im(ib, bb, it, bl, d),
                      (<<InodeRec(i, NewFile), InodeBit(i, TRUE)>> \o e.writes) \o <<Superblock>>, {}, e.sb)
<1>r. /\ TreeOK(ib, bb, it, bl, {})
      /\ d \in Counters /\ Enough(d, ib, bb) /\ s \in Counters /\ Enough(s, ib, bb)
  BY DEF Ready
<1>t. ib \subseteq Inodes /\ bb \in SUBSET DataBlocks /\ it \in [Inodes -> Inode]
  BY <1>r DEF TreeOK, ImageType
<1> DEFINE x == [inode |-> i, name |-> Stored(n)]
           it2 == [it EXCEPT ![i] = NewFile]
           ib2 == ib \cup {i}
           new == <<InodeRec(i, NewFile), InodeBit(i, TRUE)>>
           s2 == TakeInode(s)
<1>1. x \in Cell /\ x.name \in ShortNames /\ x.inode = i
  BY StoredType DEF Cell
<1>2. par \in ib /\ par # i
  BY <1>r, PathDirsInUse
<1>3. FreshRecord(it, bl, bb, NewFile)
  BY DEF FreshRecord
<1>u. i # Root /\ Unlinked(it, bl, i) /\ Welcome(it, bl, par, x.name)
  BY <1>r, ClearInode, NewName
<1>4. /\ TreeOK(ib, bb, it2, bl, {}) /\ Alike(it, bl, it2, bl)
      /\ Unlinked(it2, bl, i) /\ Welcome(it2, bl, par, x.name)
  <2>1. TreeOK(ib, bb, it2, bl, {}) /\ Alike(it, bl, it2, bl)
    BY <1>r, <1>3, NewRecord
  <2>2. QED
    BY <1>u, <2>1, AlikeKeeps
<1>5. it2[i] = NewFile /\ it2[par] = it[par]
  BY <1>2, <1>t
<1>6. InodeRec(i, NewFile) \in BlockWrites /\ InodeBit(i, TRUE) \in BlockWrites
  BY WriteTypes, ContentsType
<1>7. \A c : /\ Written(Im(ib, bb, it, bl, d), InodeRec(i, NewFile), c) = Im(ib, bb, it2, bl, d)
             /\ Written(Im(ib, bb, it2, bl, d), InodeBit(i, TRUE), c) = Im(ib2, bb, it2, bl, d)
  BY DEF Written, Im, InodeRec, InodeBit
<1> HIDE DEF x, it2
<1>8. TreeOK(ib2, bb, it2, bl, {})
  BY <1>4, MarkInode
<1>9. Enough(d, ib2, bb) /\ Enough(s2, ib2, bb) /\ s2 \in Counters
  BY <1>r, EnoughInode
<1>10. Entrant(ib2, it2, bl, par, x)
  BY <1>1, <1>2, <1>4, <1>5, <1>u DEF Entrant, NewFile
<1> HIDE DEF ib2, s2
<1>11. Good(Im(ib, bb, it, bl, d), {}) /\ Good(Im(ib, bb, it2, bl, d), {})
  BY <1>r, <1>4, GoodLead
<1>m. /\ Moves(Im(ib, bb, it, bl, d), Im(ib, bb, it2, bl, d))
      /\ Moves(Im(ib, bb, it2, bl, d), Im(ib2, bb, it2, bl, d))
  BY <1>4, MovesIm, MovesSame
<1>12. ASSUME NEW c PROVE Path(Im(ib, bb, it, bl, d), new, {}, c, Im(ib2, bb, it2, bl, d))
  BY <1>6, <1>7, <1>11, <1>m, PathTwo
<1> HIDE DEF new
<1>13. Safe(Im(ib, bb, it, bl, d), new, {}, s2)
  BY <1>r, <1>8, <1>9, <1>12, SafeEnd
<1>14. ASSUME NEW e \in EntryWrites(par, x, it2, bl, bb, s2)
       PROVE  Safe(Im(ib, bb, it, bl, d), (new \o e.writes) \o <<Superblock>>, {}, e.sb)
  <2>1. par \in Inodes /\ it2[par].type = "DIR" /\ Entrant(ib2, it2, bl, par, x)
    BY <1>1, <1>2, <1>5, <1>10, <1>t
  <2>2. Leads(ib2, bb, it2, bl, d, e.writes, e.sb, e.sb)
    BY <1>r, <1>1, <1>8, <1>9, <2>1, EntryLeads
  <2>3. QED
    BY <1>12, <2>2, SafeEntry
<1>15. QED
  BY <1>13, <1>14 DEF new, x, it2, s2

\* The block of a new directory, its inode, its bit, its dots.
MkdirWrites(i, b, par) ==
    Allocation(b) \o <<InodeRec(i, NewDir(b)), InodeBit(i, TRUE), Content(b, DotsBlock(i, par))>>

LEMMA DotsAre ==
    ASSUME NEW i \in Inodes, NEW par \in Inodes
    PROVE  /\ DotsBlock(i, par)[0] = [inode |-> i, name |-> Dot]
           /\ DotsBlock(i, par)[1] = [inode |-> par, name |-> DotDot]
           /\ \A t \in Slots : PlainCell(DotsBlock(i, par)[t]) /\ PlainCell(ZeroBlock[t])
<1>1. 0 \in Slots /\ 1 \in Slots
  BY Basics
<1>2. \A t \in Slots : ZeroBlock[t].name = NoName
  BY DEF ZeroBlock, FreeCell
<1>3. /\ DotsBlock(i, par)[0] = [inode |-> i, name |-> Dot]
      /\ DotsBlock(i, par)[1] = [inode |-> par, name |-> DotDot]
      /\ \A t \in Slots : t # 0 /\ t # 1 => DotsBlock(i, par)[t] = ZeroBlock[t]
  BY <1>1 DEF DotsBlock, ZeroBlock
<1>4. QED
  BY <1>2, <1>3 DEF PlainCell

LEMMA MkdirSafe ==
    ASSUME NEW ib, NEW bb, NEW it, NEW bl, NEW d, NEW s, Ready(ib, bb, it, bl, d, s),
           NEW par \in PathDirs(it, bl), it[par].type = "DIR", NEW n \in Names,
           Lookup(it, bl, par, n) = {}, NEW i \in Inodes \ ib, NEW b \in DataBlocks \ bb
    PROVE  /\ Safe(Im(ib, bb, it, bl, d), MkdirWrites(i, b, par), {}, TakeInode(TakeBlock(s)))
           /\ \A e \in EntryWrites(par, [inode |-> i, name |-> Stored(n)], [it EXCEPT ![i] = NewDir(b)],
                                   [bl EXCEPT ![b] = DotsBlock(i, par)],
                                   bb \cup {b}, TakeInode(TakeBlock(s))) :
                 Safe(Im(ib, bb, it, bl, d), (MkdirWrites(i, b, par) \o e.writes) \o <<Superblock>>, {}, e.sb)
<1>r. /\ TreeOK(ib, bb, it, bl, {})
      /\ d \in Counters /\ Enough(d, ib, bb) /\ s \in Counters /\ Enough(s, ib, bb)
  BY DEF Ready
<1>t. /\ ib \subseteq Inodes /\ bb \in SUBSET DataBlocks /\ it \in [Inodes -> Inode]
      /\ bl \in [DataBlocks -> Contents]
  BY <1>r DEF TreeOK, ImageType
<1> DEFINE x == [inode |-> i, name |-> Stored(n)]
           dots == DotsBlock(i, par)
           bb2 == bb \cup {b}
           ib2 == ib \cup {i}
           it2 == [it EXCEPT ![i] = NewDir(b)]
           bl1 == [bl EXCEPT ![b] = ZeroBlock]
           bl2 == [bl1 EXCEPT ![b] = dots]
           rest == <<InodeRec(i, NewDir(b)), InodeBit(i, TRUE), Content(b, dots)>>
           s1 == TakeBlock(s)
           s2 == TakeInode(s1)
<1>1. x \in Cell /\ x.name \in ShortNames /\ x.inode = i
  BY StoredType DEF Cell
<1>2. par \in ib /\ par # i
  BY <1>r, PathDirsInUse
<1>3. /\ Unref(it, b) /\ i # Root
      /\ Unlinked(it, bl, i) /\ Welcome(it, bl, par, x.name)
  BY <1>r, ClearBlock, ClearInode, NewName
<1>4. /\ dots \in Contents /\ ZeroBlock \in Contents /\ NewDir(b) \in Inode
      /\ dots[0] = [inode |-> i, name |-> Dot] /\ dots[1] = [inode |-> par, name |-> DotDot]
      /\ \A t \in Slots : PlainCell(dots[t]) /\ PlainCell(ZeroBlock[t])
  BY <1>2, <1>t, ContentsType, DotsAre DEF Contents
<1>5. it2[i] = NewDir(b) /\ it2[par] = it[par]
  BY <1>2, <1>t
<1>6. bl2 = [bl EXCEPT ![b] = dots]
  OBVIOUS
<1>7. /\ BlockBits({b}, TRUE) \in BlockWrites /\ Content(b, ZeroBlock) \in BlockWrites
      /\ InodeRec(i, NewDir(b)) \in BlockWrites /\ InodeBit(i, TRUE) \in BlockWrites
  BY <1>4, WriteTypes
<1>8. Content(b, dots) \in BlockWrites
  BY <1>4, WriteTypes
<1>9. \A c : /\ Written(Im(ib, bb, it, bl, d), BlockBits({b}, TRUE), c) = Im(ib, bb2, it, bl, d)
             /\ Written(Im(ib, bb2, it, bl, d), Content(b, ZeroBlock), c) = Im(ib, bb2, it, bl1, d)
  BY DEF Written, Im, BlockBits, Content
<1> HIDE DEF dots
<1>10. \A c : /\ Written(Im(ib, bb2, it, bl1, d), InodeRec(i, NewDir(b)), c) = Im(ib, bb2, it2, bl1, d)
              /\ Written(Im(ib, bb2, it2, bl1, d), InodeBit(i, TRUE), c) = Im(ib2, bb2, it2, bl1, d)
              /\ Written(Im(ib2, bb2, it2, bl1, d), Content(b, dots), c) = Im(ib2, bb2, it2, bl2, d)
  <2> HIDE DEF bb2, bl1
  <2>1. QED
    BY DEF Written, Im, InodeRec, InodeBit, Content
<1>11. TreeOK(ib, bb2, it, bl, {}) /\ bb2 \in SUBSET DataBlocks /\ b \in bb2
  BY <1>r, <1>t, MarkBlock
<1>12. Enough(d, ib2, bb2) /\ Enough(s2, ib2, bb2) /\ s2 \in Counters /\ Enough(d, ib, bb2)
  <2>1. Enough(d, ib, bb2) /\ Enough(s1, ib, bb2) /\ s1 \in Counters
    BY <1>r, EnoughBlock
  <2> HIDE DEF bb2, s1
  <2>2. QED
    BY <1>r, <2>1, EnoughInode
<1> HIDE DEF bb2, s2
<1>13. TreeOK(ib, bb2, it, bl1, {}) /\ bl1[b] = ZeroBlock /\ Alike(it, bl, it, bl1)
  BY <1>3, <1>4, <1>11, UnrefContent
<1> HIDE DEF bl1
<1>14. /\ TreeOK(ib, bb2, it2, bl1, {}) /\ Alike(it, bl1, it2, bl1)
       /\ Unlinked(it2, bl1, i) /\ Welcome(it2, bl1, par, x.name)
  <2>1. FreshRecord(it, bl1, bb2, NewDir(b))
    BY <1>3, <1>4, <1>11, <1>13 DEF FreshRecord
  <2>2. TreeOK(ib, bb2, it2, bl1, {}) /\ Alike(it, bl1, it2, bl1)
    BY <1>13, <2>1, NewRecord
  <2>3. Unlinked(it, bl1, i) /\ Welcome(it, bl1, par, x.name)
    BY <1>3, <1>13, AlikeKeeps
  <2>4. QED
    BY <2>2, <2>3, AlikeKeeps
<1> HIDE DEF it2
<1>15. TreeOK(ib2, bb2, it2, bl1, {})
  BY <1>14, MarkInode
<1>16. it2[i].type = "DIR" /\ it2[i].direct[0] = b /\ b # NoBlock
  BY <1>5, Basics DEF NewDir, NoPointers
<1> HIDE DEF ib2
<1>17. Quiet(it2, bl1, b, dots)
  BY <1>4, <1>13, <1>14, <1>16, Basics DEF Quiet, TreeOK, Apart
<1>18. /\ TreeOK(ib2, bb2, it2, bl2, {}) /\ Alike(it2, bl1, it2, bl2) /\ bl2[b] = dots
       /\ Unlinked(it2, bl2, i) /\ Welcome(it2, bl2, par, x.name)
  <2>1. TreeOK(ib2, bb2, it2, bl2, {}) /\ Alike(it2, bl1, it2, bl2)
    BY <1>4, <1>15, <1>17, QuietContent
  <2>2. bl1 \in [DataBlocks -> Contents]
    BY <1>14 DEF TreeOK, ImageType
  <2>3. bl2[b] = dots
    BY <2>2
  <2>4. QED
    BY <1>14, <2>1, <2>3, AlikeKeeps
<1> HIDE DEF bl2
<1>19. DotsIn(it2, bl2, i, par)
  BY <1>4, <1>16, <1>18 DEF DotsIn, CellOf
<1>20. Entrant(ib2, it2, bl2, par, x)
  BY <1>1, <1>2, <1>3, <1>16, <1>18, <1>19 DEF Entrant, ib2
<1>21. /\ Good(Im(ib, bb, it, bl, d), {}) /\ Good(Im(ib, bb2, it, bl, d), {})
       /\ Good(Im(ib, bb2, it, bl1, d), {}) /\ Good(Im(ib, bb2, it2, bl1, d), {})
       /\ Good(Im(ib2, bb2, it2, bl1, d), {})
  BY <1>r, <1>11, <1>12, <1>13, <1>14, <1>15, GoodLead
<1>m. /\ Moves(Im(ib, bb, it, bl, d), Im(ib, bb2, it, bl, d))
      /\ Moves(Im(ib, bb2, it, bl, d), Im(ib, bb2, it, bl1, d))
      /\ Moves(Im(ib, bb2, it, bl1, d), Im(ib, bb2, it2, bl1, d))
      /\ Moves(Im(ib, bb2, it2, bl1, d), Im(ib2, bb2, it2, bl1, d))
      /\ Moves(Im(ib2, bb2, it2, bl1, d), Im(ib2, bb2, it2, bl2, d))
  BY <1>13, <1>14, <1>18, MovesIm, MovesSame
<1>w. MkdirWrites(i, b, par) = Allocation(b) \o rest
  BY DEF MkdirWrites, dots
<1>22. ASSUME NEW c
       PROVE  Path(Im(ib, bb, it, bl, d), MkdirWrites(i, b, par), {}, c, Im(ib2, bb2, it2, bl2, d))
  <2>1. Path(Im(ib, bb, it, bl, d), Allocation(b), {}, c, Im(ib, bb2, it, bl1, d))
    <3> DEFINE g == Im(ib, bb, it, bl, d)
               h == Im(ib, bb2, it, bl, d)
               e == Im(ib, bb2, it, bl1, d)
    <3>1. h = Written(g, BlockBits({b}, TRUE), c) /\ e = Written(h, Content(b, ZeroBlock), c)
      BY <1>9
    <3>2. Good(g, {}) /\ Good(h, {}) /\ Moves(g, h) /\ Moves(h, e)
      BY <1>21, <1>m
    <3>3. Path(g, Allocation(b), {}, c, e)
      <4> HIDE DEF g, h, e, x, rest, s1
      <4>1. QED
        BY <1>7, <3>1, <3>2, PathTwo DEF Allocation
    <3>4. QED
      BY <3>3
  <2> DEFINE g == Im(ib, bb2, it, bl1, d)
             h == Im(ib, bb2, it2, bl1, d)
             e == Im(ib2, bb2, it2, bl1, d)
             f == Im(ib2, bb2, it2, bl2, d)
  <2>w. /\ h = Written(g, InodeRec(i, NewDir(b)), c) /\ e = Written(h, InodeBit(i, TRUE), c)
        /\ f = Written(e, Content(b, dots), c)
    BY <1>10
  <2>g. Good(g, {}) /\ Good(h, {}) /\ Good(e, {})
    BY <1>21
  <2>m. Moves(g, h) /\ Moves(h, e) /\ Moves(e, f)
    BY <1>m
  <2>2. Path(g, rest, {}, c, f)
    <3> HIDE DEF g, h, e, f
    <3>1. QED
      BY <1>7, <1>8, <2>w, <2>g, <2>m, PathThree
  <2> HIDE DEF rest
  <2>3. QED
    BY <1>w, <2>1, <2>2, PathJoin
<1>23. Safe(Im(ib, bb, it, bl, d), MkdirWrites(i, b, par), {}, s2)
  BY <1>r, <1>12, <1>18, <1>22, SafeEnd
<1> HIDE DEF x
<1>24. ASSUME NEW e \in EntryWrites(par, x, it2, bl2, bb2, s2)
       PROVE  Safe(Im(ib, bb, it, bl, d), (MkdirWrites(i, b, par) \o e.writes) \o <<Superblock>>, {}, e.sb)
  <2>1. par \in Inodes /\ it2[par].type = "DIR"
    BY <1>2, <1>5, <1>t
  <2>2. Leads(ib2, bb2, it2, bl2, d, e.writes, e.sb, e.sb)
    BY <1>r, <1>1, <1>12, <1>18, <1>20, <2>1, EntryLeads
  <2>3. QED
    BY <1>22, <2>2, SafeEntry
<1>25. \A e \in EntryWrites(par, x, it2, [bl EXCEPT ![b] = dots], bb2, s2) :
          Safe(Im(ib, bb, it, bl, d), (MkdirWrites(i, b, par) \o e.writes) \o <<Superblock>>, {}, e.sb)
  BY <1>6, <1>24
<1>26. QED
  BY <1>23, <1>25 DEF x, it2, s2, dots, bb2

LEMMA OverwriteSafe ==
    ASSUME NEW ib, NEW bb, NEW it, NEW bl, NEW d, NEW s, Ready(ib, bb, it, bl, d, s),
           NEW i \in Inodes, NEW k \in Idx, it[i].type = "FILE", it[i].direct[k] # NoBlock
    PROVE  Safe(Im(ib, bb, it, bl, d),
                <<Content(it[i].direct[k], DataBlock), InodeRec(i, it[i]), Superblock>>, {}, s)
<1>r. /\ TreeOK(ib, bb, it, bl, {}) /\ ImageType(ib, bb, it, bl) /\ it \in [Inodes -> Inode]
      /\ d \in Counters /\ Enough(d, ib, bb) /\ s \in Counters /\ Enough(s, ib, bb)
  BY DEF Ready, TreeOK, ImageType
<1> DEFINE b == it[i].direct[k]
           bl2 == [bl EXCEPT ![b] = DataBlock]
           g == Im(ib, bb, it, bl, d)
           h == Im(ib, bb, it, bl2, d)
           e == Im(ib, bb, it, bl2, s)
<1>1. b \in DataBlocks /\ DataBlock \in Contents /\ it[i] \in Inode
  BY <1>r, Fields, ContentsType DEF Contents
<1>2. Quiet(it, bl, b, DataBlock)
  BY <1>r, FileQuiet
<1> HIDE DEF b
<1>3. TreeOK(ib, bb, it, bl2, {}) /\ Alike(it, bl, it, bl2)
  BY <1>r, <1>1, <1>2, QuietContent
<1>4. Written(g, Content(b, DataBlock), s) = h
  BY DEF Written, Im, Content
<1> HIDE DEF bl2
<1>i. [it EXCEPT ![i] = it[i]] = it
  BY <1>r
<1>5. Written(h, InodeRec(i, it[i]), s) = h /\ Written(h, Superblock, s) = e
  BY <1>i DEF Written, Im, InodeRec, Superblock
<1>6. /\ Content(b, DataBlock) \in BlockWrites /\ InodeRec(i, it[i]) \in BlockWrites
      /\ Superblock \in BlockWrites
  BY <1>1, WriteTypes
<1>7. Good(g, {}) /\ Good(h, {}) /\ Good(e, {})
  BY <1>r, <1>3, GoodLead
<1>8. e.ib = ib /\ e.bb = bb
  BY DEF Im
<1>m. Moves(g, h) /\ Moves(h, h) /\ Moves(h, e)
  BY <1>3, MovesIm, MovesSame
<1> HIDE DEF g, h, e
<1>9. Path(g, <<Content(b, DataBlock), InodeRec(i, it[i]), Superblock>>, {}, s, e)
  BY <1>4, <1>5, <1>6, <1>7, <1>m, PathThree
<1>10. Safe(g, <<Content(b, DataBlock), InodeRec(i, it[i]), Superblock>>, {}, s)
  BY <1>r, <1>7, <1>8, <1>9 DEF Safe
<1>11. QED
  BY <1>10 DEF b, g

LEMMA AppendSafe ==
    ASSUME NEW ib, NEW bb, NEW it, NEW bl, NEW d, NEW s, Ready(ib, bb, it, bl, d, s),
           NEW i \in Inodes, NEW k \in Idx, it[i].type = "FILE", it[i].direct[k] = NoBlock,
           NEW b \in DataBlocks \ bb
    PROVE  Safe(Im(ib, bb, it, bl, d),
                Allocation(b) \o <<Content(b, DataBlock), InodeRec(i, WithBlock(it[i], k, b)), Superblock>>,
                {}, TakeBlock(s))
<1>r. /\ TreeOK(ib, bb, it, bl, {}) /\ ImageType(ib, bb, it, bl) /\ it \in [Inodes -> Inode]
      /\ d \in Counters /\ Enough(d, ib, bb) /\ s \in Counters /\ Enough(s, ib, bb)
  BY DEF Ready, TreeOK, ImageType
<1> DEFINE r == WithBlock(it[i], k, b)
           c == TakeBlock(s)
           bb2 == bb \cup {b}
           bl1 == [bl EXCEPT ![b] = ZeroBlock]
           bl2 == [bl1 EXCEPT ![b] = DataBlock]
           it2 == [it EXCEPT ![i] = r]
           rest == <<Content(b, DataBlock), InodeRec(i, r), Superblock>>
<1>1. DataBlock \in Contents /\ ZeroBlock \in Contents /\ r \in Inode
  BY <1>r, ContentsType, WithBlockType DEF Contents
<1>2. Unref(it, b) /\ k \in Holes(it[i])
  BY <1>r, ClearBlock DEF Holes
<1>3. TreeOK(ib, bb2, it, bl, {}) /\ b \in bb2
  BY <1>r, MarkBlock
<1>4. TreeOK(ib, bb2, it, bl1, {}) /\ Alike(it, bl, it, bl1)
  BY <1>1, <1>2, <1>3, UnrefContent
<1>5. TreeOK(ib, bb2, it, bl2, {}) /\ Alike(it, bl1, it, bl2)
  <2> HIDE DEF bl1
  <2>1. QED
    BY <1>1, <1>2, <1>4, UnrefContent
<1>6. TreeOK(ib, bb2, it2, bl2, {}) /\ Alike(it, bl2, it2, bl2)
  <2> HIDE DEF bl2, bb2
  <2>1. QED
    BY <1>2, <1>3, <1>5, GrowFile
<1>7. Enough(d, ib, bb2) /\ Enough(c, ib, bb2) /\ c \in Counters
  BY <1>r, EnoughBlock
<1>8. /\ BlockBits({b}, TRUE) \in BlockWrites /\ Content(b, ZeroBlock) \in BlockWrites
      /\ Content(b, DataBlock) \in BlockWrites /\ InodeRec(i, r) \in BlockWrites
      /\ Superblock \in BlockWrites
  BY <1>1, WriteTypes
<1> HIDE DEF r, c
<1>9. /\ Written(Im(ib, bb, it, bl, d), BlockBits({b}, TRUE), c) = Im(ib, bb2, it, bl, d)
      /\ Written(Im(ib, bb2, it, bl, d), Content(b, ZeroBlock), c) = Im(ib, bb2, it, bl1, d)
  BY DEF Written, Im, BlockBits, Content
<1>10. /\ Written(Im(ib, bb2, it, bl1, d), Content(b, DataBlock), c) = Im(ib, bb2, it, bl2, d)
       /\ Written(Im(ib, bb2, it, bl2, d), InodeRec(i, r), c) = Im(ib, bb2, it2, bl2, d)
       /\ Written(Im(ib, bb2, it2, bl2, d), Superblock, c) = Im(ib, bb2, it2, bl2, c)
  <2> HIDE DEF bl1, bb2
  <2>1. QED
    BY DEF Written, Im, Content, InodeRec, Superblock
<1> HIDE DEF bb2, bl1, bl2, it2
<1>11. /\ Good(Im(ib, bb, it, bl, d), {}) /\ Good(Im(ib, bb2, it, bl, d), {})
       /\ Good(Im(ib, bb2, it, bl1, d), {}) /\ Good(Im(ib, bb2, it, bl2, d), {})
       /\ Good(Im(ib, bb2, it2, bl2, d), {}) /\ Good(Im(ib, bb2, it2, bl2, c), {})
  BY <1>r, <1>3, <1>4, <1>5, <1>6, <1>7, GoodLead
<1>m. /\ Moves(Im(ib, bb, it, bl, d), Im(ib, bb2, it, bl, d))
      /\ Moves(Im(ib, bb2, it, bl, d), Im(ib, bb2, it, bl1, d))
      /\ Moves(Im(ib, bb2, it, bl1, d), Im(ib, bb2, it, bl2, d))
      /\ Moves(Im(ib, bb2, it, bl2, d), Im(ib, bb2, it2, bl2, d))
      /\ Moves(Im(ib, bb2, it2, bl2, d), Im(ib, bb2, it2, bl2, c))
  BY <1>4, <1>5, <1>6, MovesIm, MovesSame
<1>12. Path(Im(ib, bb, it, bl, d), Allocation(b), {}, c, Im(ib, bb2, it, bl1, d))
  BY <1>8, <1>9, <1>11, <1>m, PathTwo DEF Allocation
<1>13. Path(Im(ib, bb2, it, bl1, d), rest, {}, c, Im(ib, bb2, it2, bl2, c))
  BY <1>8, <1>10, <1>11, <1>m, PathThree
<1> HIDE DEF rest
<1>14. Path(Im(ib, bb, it, bl, d), Allocation(b) \o rest, {}, c, Im(ib, bb2, it2, bl2, c))
  BY <1>12, <1>13, PathJoin
<1>15. Im(ib, bb2, it2, bl2, c).ib = ib /\ Im(ib, bb2, it2, bl2, c).bb = bb2
  BY DEF Im
<1>16. Safe(Im(ib, bb, it, bl, d), Allocation(b) \o rest, {}, c)
  BY <1>7, <1>11, <1>14, <1>15 DEF Safe
<1>17. QED
  BY <1>16 DEF rest, r, c

-----------------------------------------------------------------------------
(* Freeing the blocks of an inode, in the order of its pointers *)

Rank(K, k) == Cardinality({j \in K : j < k})

\* A finite set of numbers has a member of each rank below its size.
LEMMA RankExists ==
    ASSUME NEW K \in SUBSET Idx, NEW m \in 1 .. Cardinality(K)
    PROVE  \E k \in K : Rank(K, k) = m - 1
<1> DEFINE n == Cardinality(K)
           T == 0 .. n - 1
           f == [k \in K |-> Rank(K, k)]
<1>1. IsFiniteSet(K) /\ n \in Nat /\ K \in SUBSET Int
  BY IdxCardinality DEF Idx
<1>2. ASSUME NEW k \in K PROVE Rank(K, k) \in Nat /\ Rank(K, k) < n /\ IsFiniteSet({j \in K : j < k})
  <2> DEFINE L == {j \in K : j < k}
  <2>1. IsFiniteSet(K \ {k}) /\ Cardinality(K \ {k}) = n - 1
    BY <1>1, FS_RemoveElement
  <2>2. L \in SUBSET (K \ {k})
    BY <1>1
  <2> HIDE DEF L
  <2>3. IsFiniteSet(L) /\ Cardinality(L) <= n - 1 /\ Cardinality(L) \in Nat
    BY <2>1, <2>2, FS_Subset, FS_CardinalityType
  <2>4. QED
    BY <1>1, <2>3 DEF L, Rank
<1>3. ASSUME NEW k \in K, NEW l \in K, k < l PROVE Rank(K, k) < Rank(K, l)
  <2> DEFINE L == {j \in K : j < k}
             M == {j \in K : j < l}
  <2>0. k \in Int /\ l \in Int /\ \A j \in K : j \in Int
    BY <1>1
  <2>1. k \notin L /\ L \cup {k} \in SUBSET M
    <3>1. \A j \in K : j < k => j < l
      BY <1>3, <2>0
    <3>2. ~(k < k)
      BY <2>0
    <3>3. QED
      BY <1>3, <3>1, <3>2
  <2>2. IsFiniteSet(L) /\ IsFiniteSet(M) /\ Cardinality(L) \in Nat /\ Cardinality(M) \in Nat
    BY <1>2 DEF Rank
  <2>r. Rank(K, k) = Cardinality(L) /\ Rank(K, l) = Cardinality(M)
    BY DEF Rank
  <2> HIDE DEF L, M
  <2>3. Cardinality(L \cup {k}) = Cardinality(L) + 1 /\ Cardinality(L \cup {k}) <= Cardinality(M)
    BY <2>1, <2>2, FS_AddElement, FS_Subset
  <2>4. QED
    BY <2>2, <2>3, <2>r
<1>n. n = Cardinality(K) /\ m \in 1 .. n
  OBVIOUS
<1>i. \A k \in K : k \in Int /\ Rank(K, k) \in Nat /\ Rank(K, k) < n
  BY <1>1, <1>2
<1> HIDE DEF n
<1>6. IsFiniteSet(T) /\ Cardinality(T) = n
  BY <1>1, FS_Interval
<1>m. m - 1 \in T /\ \A k \in K : Rank(K, k) \in T
  BY <1>1, <1>n, <1>i
<1> HIDE DEF T
<1>4. f \in [K -> T]
  BY <1>m
<1>f. \A k \in K : f[k] = Rank(K, k)
  OBVIOUS
<1> HIDE DEF f
<1>5. ASSUME NEW k \in K, NEW l \in K, f[k] = f[l] PROVE k = l
  <2>1. Rank(K, k) = Rank(K, l) /\ Rank(K, k) \in Nat /\ k \in Int /\ l \in Int
    BY <1>5, <1>f, <1>i
  <2>2. ~(k < l) /\ ~(l < k)
    BY <1>3, <2>1
  <2>3. QED
    BY <2>1, <2>2
<1>7. f \in Injection(K, T)
  BY <1>4, <1>5 DEF Injection, IsInjective
<1>8. f \in Surjection(K, T)
  BY <1>6, <1>7, <1>n, FS_Injection
<1>9. QED
  BY <1>8, <1>f, <1>m DEF Surjection

FreedBy(ino, q, n) == [m \in 1 .. n |-> BlockBits({ino.direct[q[m]]}, FALSE)]

LEMMA FreeingIs ==
    ASSUME NEW ino, NEW K \in SUBSET Idx
    PROVE  \E q \in [1 .. Cardinality(K) -> K] : Freeing(ino, K) = FreedBy(ino, q, Cardinality(K))
<1> DEFINE n == Cardinality(K)
           nth(m) == CHOOSE k \in K : Cardinality({j \in K : j < k}) = m - 1
           q == [m \in 1 .. n |-> nth(m)]
<1>1. ASSUME NEW m \in 1 .. n PROVE nth(m) \in K
  <2>1. \E k \in K : Cardinality({j \in K : j < k}) = m - 1
    BY RankExists DEF Rank
  <2>2. QED
    BY <2>1
<1>2. Freeing(ino, K) = [m \in 1 .. n |-> BlockBits({ino.direct[nth(m)]}, FALSE)]
  BY DEF Freeing
<1> HIDE DEF nth
<1>3. q \in [1 .. n -> K]
  BY <1>1
<1>4. Freeing(ino, K) = FreedBy(ino, q, n)
  BY <1>2 DEF FreedBy
<1>5. QED
  BY <1>3, <1>4

RefsAt(ino, K) == {ino.direct[k] : k \in K}

LEMMA FreeingPath ==
    ASSUME NEW ib, NEW bb, NEW it, NEW bl, NEW d, NEW V, NEW c,
           NEW ino \in Inode, NEW K \in SUBSET Pointers(ino),
           \A D \in SUBSET RefsAt(ino, K) : Good(Im(ib, bb \ D, it, bl, d), V)
    PROVE  \E D \in SUBSET RefsAt(ino, K) :
              Path(Im(ib, bb, it, bl, d), Freeing(ino, K), V, c, Im(ib, bb \ D, it, bl, d))
<1>0. K \in SUBSET Idx /\ \A k \in K : ino.direct[k] \in DataBlocks
  BY DEF Pointers, Inode
<1> DEFINE n == Cardinality(K)
<1>1. n \in Nat
  BY <1>0, IdxCardinality
<1>2. PICK q \in [1 .. n -> K] : Freeing(ino, K) = FreedBy(ino, q, n)
  BY <1>0, FreeingIs
<1> DEFINE p == FreedBy(ino, q, n)
           D(m) == {ino.direct[q[j]] : j \in 1 .. m}
           f == [m \in 0 .. n |-> Im(ib, bb \ D(m), it, bl, d)]
<1> HIDE DEF n
<1>3. p = [m \in 1 .. n |-> BlockBits({ino.direct[q[m]]}, FALSE)]
  BY DEF FreedBy
<1>4. \A m \in 1 .. n : BlockBits({ino.direct[q[m]]}, FALSE) \in BlockWrites
  BY <1>0, <1>2, WriteTypes
<1> HIDE DEF p
<1>6. \A m \in 1 .. n : p[m] = BlockBits({ino.direct[q[m]]}, FALSE)
  BY <1>3
<1>5. p \in Seq(BlockWrites) /\ Len(p) = n
  <2>1. p = [m \in 1 .. n |-> p[m]] /\ \A m \in 1 .. n : p[m] \in BlockWrites
    BY <1>3, <1>4, <1>6
  <2>2. p \in [1 .. n -> BlockWrites]
    BY <2>1
  <2>3. QED
    BY <1>1, <2>2
<1>7. D(0) = {} /\ \A m \in 0 .. n : D(m) \in SUBSET RefsAt(ino, K)
  BY <1>1, <1>2 DEF RefsAt
<1>8. ASSUME NEW m \in 1 .. n PROVE D(m) = D(m - 1) \cup {ino.direct[q[m]]} /\ m - 1 \in 0 .. n
  <2>1. 1 .. m = (1 .. m - 1) \cup {m}
    BY <1>1
  <2>2. QED
    BY <1>1, <2>1
<1>f. \A m \in 0 .. n : f[m] = Im(ib, bb \ D(m), it, bl, d)
  OBVIOUS
<1> HIDE DEF D, f
<1>9. f[0] = Im(ib, bb, it, bl, d) /\ f[n] = Im(ib, bb \ D(n), it, bl, d)
  <2>1. bb \ D(0) = bb
    BY <1>7
  <2>2. 0 \in 0 .. n /\ n \in 0 .. n
    BY <1>1
  <2>3. QED
    BY <1>f, <2>1, <2>2
<1>10. ASSUME NEW m \in 1 .. n PROVE f[m] = Written(f[m - 1], p[m], c) /\ Moves(f[m - 1], f[m])
  <2>1. bb \ D(m) = (bb \ D(m - 1)) \ {ino.direct[q[m]]}
    BY <1>8
  <2>2. f[m - 1] = Im(ib, bb \ D(m - 1), it, bl, d) /\ f[m] = Im(ib, bb \ D(m), it, bl, d)
    BY <1>f, <1>8
  <2> DEFINE x == bb \ D(m - 1)
             y == {ino.direct[q[m]]}
  <2>3. f[m - 1] = Im(ib, x, it, bl, d) /\ f[m] = Im(ib, x \ y, it, bl, d) /\ p[m] = BlockBits(y, FALSE)
    BY <1>6, <2>1, <2>2
  <2> HIDE DEF x, y
  <2>4. Written(Im(ib, x, it, bl, d), BlockBits(y, FALSE), c) = Im(ib, x \ y, it, bl, d)
    BY DEF Written, Im, BlockBits
  <2>5. Moves(f[m - 1], f[m])
    BY <2>3, MovesSame
  <2>6. QED
    BY <2>3, <2>4, <2>5
<1>11. \A m \in 0 .. n : Good(f[m], V)
  BY <1>7, <1>f
<1>12. PathBy(Im(ib, bb, it, bl, d), p, V, c, Im(ib, bb \ D(n), it, bl, d), f)
  BY <1>5, <1>9, <1>10, <1>11 DEF PathBy
<1>13. Path(Im(ib, bb, it, bl, d), p, V, c, Im(ib, bb \ D(n), it, bl, d))
  BY <1>5, <1>12 DEF Path
<1>14. n \in 0 .. n
  BY <1>1
<1>15. QED
  BY <1>2, <1>7, <1>13, <1>14 DEF p

\* The blocks freed are no more than the pointers that led to them.
LEMMA EnoughFreed ==
    ASSUME NEW c \in Counters, NEW ib, NEW bb, Enough(c, ib, bb),
           NEW ino \in Inode, NEW K \in SUBSET Pointers(ino), NEW D \in SUBSET RefsAt(ino, K)
    PROVE  Enough(GiveBlocks(c, K), ib, bb \ D) /\ GiveBlocks(c, K) \in Counters
<1>0. K \in SUBSET Idx
  BY DEF Pointers
<1>1. IsFiniteSet(K) /\ Cardinality(K) \in Nat
  BY <1>0, IdxCardinality
<1> DEFINE f == [k \in K |-> ino.direct[k]]
           R == RefsAt(ino, K)
           F == DataBlocks \ bb
           G == DataBlocks \ (bb \ D)
<1>2. f \in Surjection(K, R)
  BY DEF Surjection, RefsAt
<1> HIDE DEF f
<1>3. IsFiniteSet(R) /\ Cardinality(R) <= Cardinality(K)
  BY <1>1, <1>2, FS_Surjection
<1>4. IsFiniteSet(D) /\ Cardinality(D) <= Cardinality(R) /\ Cardinality(D) \in Nat /\ Cardinality(R) \in Nat
  BY <1>3, FS_Subset, FS_CardinalityType
<1>5. IsFiniteSet(F) /\ F \cap D \subseteq D
  BY Basics, FS_Subset
<1>6. G \in SUBSET (F \cup D)
  OBVIOUS
<1>7. c.free_blocks >= Cardinality(F) /\ c.free_inodes >= Cardinality(Inodes \ ib)
  BY DEF Enough
<1>g. G = DataBlocks \ (bb \ D)
  OBVIOUS
<1> HIDE DEF F, G, R
<1>8. /\ IsFiniteSet(F \cup D) /\ Cardinality(F \cup D) = Cardinality(F) + Cardinality(D) - Cardinality(F \cap D)
      /\ IsFiniteSet(F \cap D)
  BY <1>4, <1>5, FS_Union, FS_Intersection
<1>9. /\ Cardinality(F \cap D) \in Nat /\ Cardinality(F) \in Nat /\ Cardinality(F \cup D) \in Nat
      /\ Cardinality(G) <= Cardinality(F \cup D) /\ Cardinality(G) \in Nat
  BY <1>5, <1>6, <1>8, FS_CardinalityType, FS_Subset
<1>10. /\ c.free_blocks \in Nat /\ c.free_inodes \in Nat
       /\ GiveBlocks(c, K).free_blocks = c.free_blocks + Cardinality(K)
       /\ GiveBlocks(c, K).free_inodes = c.free_inodes
  BY DEF Counters, GiveBlocks
<1>11. GiveBlocks(c, K).free_blocks >= Cardinality(G)
  BY <1>1, <1>3, <1>4, <1>7, <1>8, <1>9, <1>10
<1>12. GiveBlocks(c, K) \in Counters
  BY <1>0, CountersType
<1>13. QED
  BY <1>7, <1>10, <1>11, <1>12, <1>g DEF Enough

LEMMA EnoughGiven ==
    ASSUME NEW c \in Counters, NEW ib, NEW bb, Enough(c, ib, bb), NEW i
    PROVE  Enough(GiveInode(c), ib \ {i}, bb) /\ GiveInode(c) \in Counters
<1> DEFINE F == Inodes \ ib
           G == Inodes \ (ib \ {i})
<1>1. IsFiniteSet(F) /\ IsFiniteSet(G)
  BY Basics, FS_Subset
<1>2. G \in SUBSET (F \cup {i})
  OBVIOUS
<1>3. c.free_inodes >= Cardinality(F) /\ c.free_blocks >= Cardinality(DataBlocks \ bb)
  BY DEF Enough
<1>g. G = Inodes \ (ib \ {i})
  OBVIOUS
<1> HIDE DEF F, G
<1>n. Cardinality(F) \in Nat
  BY <1>1, FS_CardinalityType
<1>a. /\ IsFiniteSet(F \cup {i})
      /\ Cardinality(F \cup {i}) = IF i \in F THEN Cardinality(F) ELSE Cardinality(F) + 1
  BY <1>1, FS_AddElement
<1>4. /\ IsFiniteSet(F \cup {i}) /\ Cardinality(F \cup {i}) <= Cardinality(F) + 1
      /\ Cardinality(F) \in Nat
  BY <1>n, <1>a
<1>5. Cardinality(G) \in Nat /\ Cardinality(G) <= Cardinality(F \cup {i}) /\ Cardinality(F \cup {i}) \in Nat
  BY <1>1, <1>2, <1>4, FS_CardinalityType, FS_Subset
<1>6. /\ c.free_blocks \in Nat /\ c.free_inodes \in Nat /\ GiveInode(c) \in Counters
      /\ GiveInode(c).free_inodes = c.free_inodes + 1 /\ GiveInode(c).free_blocks = c.free_blocks
  BY DEF Counters, GiveInode
<1>7. GiveInode(c).free_inodes >= Cardinality(G)
  BY <1>3, <1>4, <1>5, <1>6
<1>8. QED
  BY <1>3, <1>6, <1>7, <1>g DEF Enough

-----------------------------------------------------------------------------
(* unlink, rmdir, truncate *)

LEMMA Looser ==
    ASSUME NEW ib, NEW bb, NEW it, NEW bl, TreeOK(ib, bb, it, bl, {}), NEW V
    PROVE  TreeOK(ib, bb, it, bl, V)
  BY DEF TreeOK, Marked, Resolve, NoBytes, Dotted

\* While an inode is taken apart the counters say nothing.
LEMMA TornGood ==
    ASSUME NEW ib, NEW bb, NEW it, NEW bl, NEW V, TreeOK(ib, bb, it, bl, V), V # {}, NEW d \in Counters
    PROVE  Good(Im(ib, bb, it, bl, d), V)
  BY GoodIm

\* Blocks of the one inode that is taken apart may be free.
LEMMA Freed ==
    ASSUME NEW ib, NEW bb, NEW it, NEW bl, TreeOK(ib, bb, it, bl, {}), NEW i \in Inodes,
           NEW K \in SUBSET Pointers(it[i]), NEW D \in SUBSET RefsAt(it[i], K)
    PROVE  TreeOK(ib, bb \ D, it, bl, {i})
<1>1. Marked(bb \ D, it, {i})
  <2> SUFFICES ASSUME NEW j \in Inodes \ {i}, NEW k \in Idx, it[j].direct[k] # NoBlock
               PROVE  it[j].direct[k] \in bb \ D
    BY DEF Marked
  <2>1. it[j].direct[k] \in bb
    BY DEF TreeOK, Marked
  <2>2. it[j].direct[k] \notin D
    BY DEF TreeOK, Apart, RefsAt, Pointers
  <2>3. QED
    BY <2>1, <2>2
<1>2. ImageType(ib, bb \ D, it, bl)
  BY DEF TreeOK, ImageType
<1>3. TreeOK(ib, bb, it, bl, {i})
  BY Looser
<1>4. QED
  BY <1>1, <1>2, <1>3 DEF TreeOK

NoEntries(it, bl, i) == \A k, s : ~Named(it, bl, i, k, s)

\* The inode is zeroed.
LEMMA Erased ==
    ASSUME NEW ib, NEW bb, NEW it, NEW bl, NEW i \in Inodes, TreeOK(ib, bb, it, bl, {i}),
           i # Root, it[i].type # "FREE", NoEntries(it, bl, i),
           NEW par, NEW h, NEW t, Named(it, bl, par, h, t), CellOf(it, bl, par, h, t).inode = i
    PROVE  /\ TreeOK(ib, bb, [it EXCEPT ![i] = FreeInode], bl, {i})
           /\ TreeOK(ib \ {i}, bb, [it EXCEPT ![i] = FreeInode], bl, {i})
           /\ TreeStep(it, bl, [it EXCEPT ![i] = FreeInode], bl)
<1> DEFINE it2 == [it EXCEPT ![i] = FreeInode]
<1>t. it \in [Inodes -> Inode] /\ FreeInode \in Inode /\ Root \in ib /\ ib \subseteq Inodes
  BY ContentsType DEF TreeOK, ImageType
<1>1. it2 \in [Inodes -> Inode] /\ it2[i] = FreeInode /\ \A j \in Inodes : j # i => it2[j] = it[j]
  BY <1>t
<1> HIDE DEF it2
<1>f. /\ FreeInode.type = "FREE" /\ Used(FreeInode)
      /\ \A k \in Idx : FreeInode.direct[k] = NoBlock
  BY NewUsed DEF FreeInode, NoPointers
<1>2. ImageType(ib, bb, it2, bl) /\ ImageType(ib \ {i}, bb, it2, bl)
  BY <1>1, <1>t DEF TreeOK, ImageType
<1>3. ASSUME NEW d, NEW k, NEW s, Named(it2, bl, d, k, s)
      PROVE  d # i /\ Named(it, bl, d, k, s) /\ CellOf(it2, bl, d, k, s) = CellOf(it, bl, d, k, s)
  <2>1. d # i
    BY <1>1, <1>3, <1>f DEF Named
  <2>2. QED
    BY <1>1, <1>3, <2>1 DEF Named, CellOf
<1>4. \A j \in Inodes : Used(it2[j])
  BY <1>1, <1>f DEF TreeOK
<1>5. Marked(bb, it2, {i}) /\ Apart(it2)
  BY <1>1, <1>f DEF TreeOK, Marked, Apart
<1>6. Resolve(ib, it2, bl, {i}) /\ Resolve(ib \ {i}, it2, bl, {i})
  <2> SUFFICES ASSUME NEW d, NEW k, NEW s, NEW j, j = CellOf(it2, bl, d, k, s).inode,
                      Named(it2, bl, d, k, s), j \notin {i}
               PROVE  j # Root /\ j \in ib /\ it2[j].type # "FREE"
    BY DEF Resolve
  <2>1. j # Root /\ j \in ib /\ it[j].type # "FREE"
    BY <1>3 DEF TreeOK, Resolve
  <2>2. QED
    BY <1>1, <1>t, <2>1
<1>7. Once(it2, bl) /\ Hung(ib, it2, bl) /\ Hung(ib \ {i}, it2, bl)
  BY <1>3 DEF TreeOK, Once, Hung
<1>8. NoBytes(it2, bl, {i})
  BY <1>1 DEF TreeOK, NoBytes, CellOf
<1>9. Dotted(it2, bl, {i})
  <2> SUFFICES ASSUME NEW d, NEW k, NEW s, NEW j, j = CellOf(it2, bl, d, k, s).inode,
                      Named(it2, bl, d, k, s), j \notin {i}, it2[j].type = "DIR"
               PROVE  DotsIn(it2, bl, j, d)
    BY DEF Dotted
  <2>1. j \in Inodes /\ Named(it, bl, d, k, s) /\ j = CellOf(it, bl, d, k, s).inode
    BY <1>3, <1>t, <1>6 DEF Resolve
  <2>2. it2[j] = it[j]
    BY <1>1, <2>1
  <2>3. DotsIn(it, bl, j, d)
    BY <2>1, <2>2 DEF TreeOK, Dotted
  <2>4. QED
    BY <2>2, <2>3 DEF DotsIn, CellOf
<1>10. TreeOK(ib, bb, it2, bl, {i}) /\ TreeOK(ib \ {i}, bb, it2, bl, {i})
  BY <1>2, <1>4, <1>5, <1>6, <1>7, <1>8, <1>9 DEF TreeOK
<1> DEFINE n == CellOf(it, bl, par, h, t).name
<1>11. InEntries(it, bl, par, n, i) /\ \A m, j : ~InEntries(it, bl, i, m, j)
  BY DEF InEntries, NoEntries
<1>12. ASSUME NEW d, NEW k, NEW s, Named(it, bl, d, k, s) PROVE CellOf(it, bl, d, k, s).inode \in Inodes
  <2>1. ImageType(ib, bb, it, bl)
    BY DEF TreeOK
  <2>2. CellOf(it, bl, d, k, s) \in Cell
    BY <1>12, <2>1, Fields DEF Named, CellOf
  <2>3. QED
    BY <2>2 DEF Cell
<1> HIDE DEF n
<1>13. ASSUME NEW d, NEW m, NEW j, InEntries(it2, bl, d, m, j)
       PROVE  InEntries(it, bl, d, m, j) /\ j # i /\ j \in Inodes
  <2>1. PICK k, s : /\ Named(it2, bl, d, k, s)
                    /\ CellOf(it2, bl, d, k, s).inode = j /\ CellOf(it2, bl, d, k, s).name = m
    BY <1>13 DEF InEntries
  <2>2. /\ Named(it, bl, d, k, s)
        /\ CellOf(it, bl, d, k, s).inode = j /\ CellOf(it, bl, d, k, s).name = m
    BY <1>3, <2>1
  <2>3. j # i /\ j \in Inodes
    BY <1>1, <1>f, <1>12, <1>13, <2>2 DEF InEntries
  <2>4. it[j].type # "FREE"
    BY <1>1, <1>13, <2>3 DEF InEntries
  <2>5. QED
    BY <2>2, <2>3, <2>4 DEF InEntries
<1>14. ASSUME NEW d, NEW m, NEW j, InEntries(it, bl, d, m, j), ~(d = par /\ m = n /\ j = i)
       PROVE  InEntries(it2, bl, d, m, j)
  <2>1. PICK k, s : /\ Named(it, bl, d, k, s)
                    /\ CellOf(it, bl, d, k, s).inode = j /\ CellOf(it, bl, d, k, s).name = m
    BY <1>14 DEF InEntries
  <2>2. CASE j = i
    <3>1. d = par /\ k = h /\ s = t
      BY <2>1, <2>2 DEF TreeOK, Once
    <3>2. QED
      BY <1>14, <2>1, <2>2, <3>1 DEF n
  <2>3. CASE j # i
    <3>1. j \in Inodes /\ d \in Inodes /\ d # i
      BY <1>12, <2>1 DEF Named, NoEntries
    <3>2. it2[j] = it[j] /\ it2[d] = it[d]
      BY <1>1, <2>3, <3>1
    <3>3. Named(it2, bl, d, k, s) /\ CellOf(it2, bl, d, k, s) = CellOf(it, bl, d, k, s)
      BY <2>1, <3>2 DEF Named, CellOf
    <3>4. QED
      BY <1>14, <2>1, <3>2, <3>3 DEF InEntries
  <2>4. QED
    BY <2>2, <2>3
<1>15. SameDirs(it2, bl, it)
  BY <1>1, <1>13, Basics DEF SameDirs, OfTree
<1>16. Shrunk(it, bl, it2, bl, par, n, i)
  <2>1. \A d, m, j : InEntries(it2, bl, d, m, j) <=> InEntries(it, bl, d, m, j) /\ ~(d = par /\ m = n /\ j = i)
    BY <1>13, <1>14
  <2>2. \A d, m, j : InEntries(it2, bl, d, m, j) => j # i
    BY <1>13
  <2>3. QED
    BY <1>11, <1>15, <2>1, <2>2 DEF Shrunk
<1>17. TreeStep(it, bl, it2, bl)
  BY <1>16 DEF TreeStep
<1>18. QED
  BY <1>10, <1>17 DEF it2

\* The entry of the zeroed inode goes.
LEMMA Removed ==
    ASSUME NEW ib, NEW bb, NEW it, NEW bl, NEW i \in Inodes, TreeOK(ib, bb, it, bl, {i}),
           it[i] = FreeInode, NEW d, NEW k, NEW s, Named(it, bl, d, k, s),
           CellOf(it, bl, d, k, s).inode = i
    PROVE  /\ TreeOK(ib, bb, it,
                     [bl EXCEPT ![it[d].direct[k]] = [bl[it[d].direct[k]] EXCEPT ![s] = FreeCell]], {})
           /\ Kept(it, bl, it,
                   [bl EXCEPT ![it[d].direct[k]] = [bl[it[d].direct[k]] EXCEPT ![s] = FreeCell]])
<1> DEFINE b == it[d].direct[k]
           c == [bl[b] EXCEPT ![s] = FreeCell]
           bl2 == [bl EXCEPT ![b] = c]
<1>t. ImageType(ib, bb, it, bl) /\ bl \in [DataBlocks -> Contents]
  BY DEF TreeOK, ImageType
<1>0. d \in Inodes /\ k \in Idx /\ s \in Slots /\ b # NoBlock
  BY DEF Named
<1>1. b \in DataBlocks /\ bl[b] \in Contents
  BY <1>0, <1>t, Fields
<1>c. FreeCell \in Cell /\ FreeCell.name = NoName
  BY ContentsType DEF FreeCell
<1>2. c[s] = FreeCell /\ (\A t \in Slots : t # s => c[t] = bl[b][t]) /\ c \in Contents
  BY <1>0, <1>1, <1>c DEF Contents
<1> HIDE DEF c
<1>3. bl2[b] = c /\ (\A y : y # b => bl2[y] = bl[y]) /\ bl2 \in [DataBlocks -> Contents]
  BY <1>t, <1>1, <1>2
<1>4. \A e \in Inodes, l \in Idx : it[e].direct[l] = b => e = d /\ l = k
  BY <1>0 DEF TreeOK, Apart
<1> HIDE DEF bl2
<1>5. \A e \in Inodes, l \in Idx, t \in Slots : CellOf(it, bl2, e, l, t)
          = IF e = d /\ l = k /\ t = s THEN FreeCell ELSE CellOf(it, bl, e, l, t)
  BY <1>2, <1>3, <1>4 DEF CellOf
<1>6. NoName # FileBytes /\ 0 \in Slots /\ 1 \in Slots /\ 0 \in Idx
  BY Basics
<1>7. ASSUME NEW e, NEW l, NEW t, Named(it, bl2, e, l, t)
      PROVE  /\ Named(it, bl, e, l, t) /\ CellOf(it, bl2, e, l, t) = CellOf(it, bl, e, l, t)
             /\ CellOf(it, bl, e, l, t).inode # i
  <2>1. e \in Inodes /\ l \in Idx /\ t \in Slots /\ ~(e = d /\ l = k /\ t = s)
    BY <1>5, <1>7, <1>c DEF Named
  <2>2. Named(it, bl, e, l, t) /\ CellOf(it, bl2, e, l, t) = CellOf(it, bl, e, l, t)
    BY <1>5, <1>7, <2>1 DEF Named
  <2>3. QED
    BY <2>1, <2>2 DEF TreeOK, Once
<1>8. ASSUME NEW j \in Inodes, NEW e, DotsIn(it, bl, j, e) PROVE DotsIn(it, bl2, j, e)
  <2>1. CellOf(it, bl, j, 0, 0).name = Dot /\ CellOf(it, bl, j, 0, 1).name = DotDot
    BY <1>8 DEF DotsIn
  <2>2. CellOf(it, bl2, j, 0, 0) = CellOf(it, bl, j, 0, 0)
        /\ CellOf(it, bl2, j, 0, 1) = CellOf(it, bl, j, 0, 1)
    BY <1>5, <1>6, <2>1 DEF Named
  <2>3. QED
    BY <1>8, <2>2 DEF DotsIn
<1>9. Marked(bb, it, {})
  BY DEF TreeOK, Marked, FreeInode, NoPointers
<1>10. Resolve(ib, it, bl2, {}) /\ Once(it, bl2) /\ Hung(ib, it, bl2)
  BY <1>7 DEF TreeOK, Resolve, Once, Hung
<1>11. NoBytes(it, bl2, {})
  <2> SUFFICES ASSUME NEW e \in Inodes, NEW l \in Idx, NEW t \in Slots,
                      it[e].type = "DIR", it[e].direct[l] # NoBlock
               PROVE  CellOf(it, bl2, e, l, t).name # FileBytes
    BY DEF NoBytes
  <2>1. e # i
    BY DEF FreeInode
  <2>2. QED
    BY <1>5, <1>6, <1>c, <2>1 DEF TreeOK, NoBytes
<1>12. Dotted(it, bl2, {})
  <2> SUFFICES ASSUME NEW e, NEW l, NEW t, NEW j, j = CellOf(it, bl2, e, l, t).inode,
                      Named(it, bl2, e, l, t), it[j].type = "DIR"
               PROVE  DotsIn(it, bl2, j, e)
    BY DEF Dotted
  <2>1. Named(it, bl, e, l, t) /\ j = CellOf(it, bl, e, l, t).inode /\ j \notin {i}
    BY <1>7
  <2>2. j \in Inodes
    BY <2>1 DEF TreeOK, Resolve, ImageType
  <2>3. DotsIn(it, bl, j, e)
    BY <2>1 DEF TreeOK, Dotted
  <2>4. QED
    BY <1>8, <2>2, <2>3
<1>13. ImageType(ib, bb, it, bl2)
  BY <1>t, <1>3 DEF ImageType
<1>14. TreeOK(ib, bb, it, bl2, {})
  BY <1>9, <1>10, <1>11, <1>12, <1>13 DEF TreeOK
<1>15. Kept(it, bl, it, bl2)
  <2>1. ASSUME NEW e, NEW n, NEW j, InEntries(it, bl2, e, n, j) PROVE InEntries(it, bl, e, n, j)
    BY <1>7, <2>1 DEF InEntries
  <2>2. ASSUME NEW e, NEW n, NEW j, InEntries(it, bl, e, n, j) PROVE InEntries(it, bl2, e, n, j)
    <3>1. PICK l, t : /\ Named(it, bl, e, l, t)
                      /\ CellOf(it, bl, e, l, t).inode = j /\ CellOf(it, bl, e, l, t).name = n
      BY <2>2 DEF InEntries
    <3>2. ~(e = d /\ l = k /\ t = s)
      BY <2>2, <3>1 DEF InEntries, FreeInode
    <3>3. CellOf(it, bl2, e, l, t) = CellOf(it, bl, e, l, t)
      BY <1>5, <3>1, <3>2 DEF Named
    <3>4. QED
      BY <2>2, <3>1, <3>3 DEF InEntries, Named
  <2>3. QED
    BY <2>1, <2>2 DEF Kept, SameDirs
<1>16. QED
  BY <1>14, <1>15 DEF bl2, c

\* The writes of a removal: the first slot with the name is emptied.
Emptied(it, bl, d, p) ==
    <<Content(it[d].direct[p[1]], [bl[it[d].direct[p[1]]] EXCEPT ![p[2]] = FreeCell])>>

LEMMA DeleteSafe ==
    ASSUME NEW ib, NEW bb, NEW it, NEW bl, NEW d, NEW s, Ready(ib, bb, it, bl, d, s),
           NEW par, NEW k, NEW t, NEW i, Named(it, bl, par, k, t),
           CellOf(it, bl, par, k, t).inode = i, NoEntries(it, bl, i)
    PROVE  Safe(Im(ib, bb, it, bl, d),
                ((Freeing(it[i], Pointers(it[i])) \o <<InodeRec(i, FreeInode), InodeBit(i, FALSE)>>)
                   \o <<Content(it[par].direct[k], [bl[it[par].direct[k]] EXCEPT ![t] = FreeCell])>>)
                  \o <<Superblock>>,
                {i}, GiveInode(GiveBlocks(s, Pointers(it[i]))))
<1>r. /\ TreeOK(ib, bb, it, bl, {}) /\ ImageType(ib, bb, it, bl) /\ it \in [Inodes -> Inode]
      /\ ib \subseteq Inodes
      /\ d \in Counters /\ Enough(d, ib, bb) /\ s \in Counters /\ Enough(s, ib, bb)
  BY DEF Ready, TreeOK, ImageType
<1>1. i \in Inodes /\ i # Root /\ par # i /\ par \in Inodes /\ it[i].type # "FREE"
  BY <1>r DEF TreeOK, Resolve, NoEntries, Named
<1> DEFINE K == Pointers(it[i])
           c == GiveInode(GiveBlocks(s, K))
           g == Im(ib, bb, it, bl, d)
           b == it[par].direct[k]
           y == [bl[b] EXCEPT ![t] = FreeCell]
           it2 == [it EXCEPT ![i] = FreeInode]
           ib2 == ib \ {i}
           bl2 == [bl EXCEPT ![b] = y]
           two == <<InodeRec(i, FreeInode), InodeBit(i, FALSE)>>
<1>2. it[i] \in Inode /\ K \in SUBSET Pointers(it[i])
  BY <1>r, <1>1
<1>3. \A D \in SUBSET RefsAt(it[i], K) : TreeOK(ib, bb \ D, it, bl, {i})
  BY <1>r, <1>1, Freed
<1>4. \A D \in SUBSET RefsAt(it[i], K) : Good(Im(ib, bb \ D, it, bl, d), {i})
  BY <1>r, <1>3, TornGood
<1>5. PICK D \in SUBSET RefsAt(it[i], K) :
         Path(g, Freeing(it[i], K), {i}, c, Im(ib, bb \ D, it, bl, d))
  <2> HIDE DEF c, K
  <2>1. K \in SUBSET Pointers(it[i])
    BY DEF K
  <2>2. QED
    BY <1>2, <1>4, <2>1, FreeingPath
<1> DEFINE bb2 == bb \ D
           h0 == Im(ib, bb2, it, bl, d)
           h1 == Im(ib, bb2, it2, bl, d)
           h2 == Im(ib2, bb2, it2, bl, d)
           h3 == Im(ib2, bb2, it2, bl2, d)
           h4 == Im(ib2, bb2, it2, bl2, c)
<1>6. TreeOK(ib, bb2, it, bl, {i})
  BY <1>3
<1>e. Enough(c, ib2, bb2) /\ c \in Counters
  <2>1. Enough(GiveBlocks(s, K), ib, bb2) /\ GiveBlocks(s, K) \in Counters
    BY <1>r, <1>2, EnoughFreed
  <2> HIDE DEF bb2, K
  <2>2. QED
    BY <2>1, EnoughGiven
<1> HIDE DEF bb2, K, c
<1>7. /\ TreeOK(ib, bb2, it2, bl, {i}) /\ TreeOK(ib2, bb2, it2, bl, {i})
      /\ TreeStep(it, bl, it2, bl)
  BY <1>1, <1>6, Erased
<1>8. it2[i] = FreeInode /\ it2[par] = it[par]
  BY <1>r, <1>1
<1>w. /\ h1 = Written(h0, InodeRec(i, FreeInode), c) /\ h2 = Written(h1, InodeBit(i, FALSE), c)
  BY DEF Written, Im, InodeRec, InodeBit
<1> HIDE DEF it2, ib2
<1>9. Named(it2, bl, par, k, t) /\ CellOf(it2, bl, par, k, t).inode = i
  BY <1>8 DEF Named, CellOf
<1>10. TreeOK(ib2, bb2, it2, bl2, {}) /\ Kept(it2, bl, it2, bl2)
  <2>1. /\ TreeOK(ib2, bb2, it2, [bl EXCEPT ![it2[par].direct[k]]
                                    = [bl[it2[par].direct[k]] EXCEPT ![t] = FreeCell]], {})
        /\ Kept(it2, bl, it2, [bl EXCEPT ![it2[par].direct[k]]
                                  = [bl[it2[par].direct[k]] EXCEPT ![t] = FreeCell]])
    BY <1>1, <1>7, <1>8, <1>9, Removed
  <2>2. QED
    BY <1>8, <2>1
<1>11. b \in DataBlocks /\ y \in Contents
  <2>1. par \in Inodes /\ k \in Idx /\ t \in Slots /\ b # NoBlock
    BY DEF Named
  <2>2. b \in DataBlocks /\ bl[b] \in Contents
    BY <1>r, <2>1, Fields DEF ImageType
  <2>3. QED
    BY <2>1, <2>2, ContentsType DEF Contents
<1> HIDE DEF y, b
<1>v. h3 = Written(h2, Content(b, y), c) /\ h4 = Written(h3, Superblock, c)
  BY DEF Written, Im, Content, Superblock
<1> HIDE DEF bl2
<1>12. /\ InodeRec(i, FreeInode) \in BlockWrites /\ InodeBit(i, FALSE) \in BlockWrites
       /\ Content(b, y) \in BlockWrites /\ Superblock \in BlockWrites
  BY <1>1, <1>11, WriteTypes, ContentsType
<1>13. TreeOK(ib2, bb2, it2, bl2, {i})
  BY <1>10, Looser
<1>14. Good(h0, {i}) /\ Good(h1, {i}) /\ Good(h2, {i}) /\ Good(h3, {i})
  BY <1>r, <1>6, <1>7, <1>13, TornGood
<1>15. Good(h4, {})
  BY <1>10, <1>e, GoodLead
<1>16. h4.ib = ib2 /\ h4.bb = bb2
  BY DEF Im
<1>17. Path(g, Freeing(it[i], K), {i}, c, h0)
  BY <1>5 DEF bb2
<1>m. Moves(h0, h1) /\ Moves(h1, h2) /\ Moves(h2, h3) /\ Moves(h3, h4)
  <2>1. TreeStep(it2, bl, it2, bl2)
    BY <1>10 DEF TreeStep
  <2>2. QED
    BY <1>7, <2>1, MovesIm, MovesSame
<1> HIDE DEF g, h0, h1, h2, h3, h4
<1>18. Path(h0, two, {i}, c, h2)
  BY <1>12, <1>14, <1>w, <1>m, PathTwo
<1>19. Path(h2, <<Content(b, y)>>, {i}, c, h3) /\ Path(h3, <<Superblock>>, {i}, c, h4)
  BY <1>12, <1>14, <1>v, <1>m, PathOne
<1> HIDE DEF two
<1>20. Path(g, Freeing(it[i], K) \o two, {i}, c, h2)
  BY <1>17, <1>18, PathJoin
<1>21. Path(g, (Freeing(it[i], K) \o two) \o <<Content(b, y)>>, {i}, c, h3)
  BY <1>19, <1>20, PathJoin
<1>22. Path(g, ((Freeing(it[i], K) \o two) \o <<Content(b, y)>>) \o <<Superblock>>, {i}, c, h4)
  BY <1>19, <1>21, PathJoin
<1>23. Safe(g, ((Freeing(it[i], K) \o two) \o <<Content(b, y)>>) \o <<Superblock>>, {i}, c)
  BY <1>15, <1>16, <1>22, <1>e DEF Safe
<1>24. QED
  BY <1>23 DEF g, K, two, b, y, c

\* The record of a file without the pointers in K.
Shortened(ino, K) ==
    [ino EXCEPT !.direct = [k \in Idx |-> IF k \in K THEN NoBlock ELSE @[k]],
                !.blocks_used = @ - Cardinality(K)]

LEMMA ShortenedIs ==
    ASSUME NEW ino \in Inode, Used(ino), NEW K \in SUBSET Pointers(ino)
    PROVE  /\ Shortened(ino, K) \in Inode /\ Used(Shortened(ino, K))
           /\ Shortened(ino, K).type = ino.type
           /\ \A k \in Idx : Shortened(ino, K).direct[k] = IF k \in K THEN NoBlock ELSE ino.direct[k]
<1> DEFINE q == [k \in Idx |-> IF k \in K THEN NoBlock ELSE ino.direct[k]]
           u == ino.blocks_used - Cardinality(K)
           P == Pointers(ino)
           r == Shortened(ino, K)
<1>1. q \in [Idx -> DataBlocks \cup {NoBlock}]
  BY DEF Inode
<1>2. K \in SUBSET Idx /\ P \in SUBSET Idx
  BY DEF Pointers
<1>3. IsFiniteSet(P) /\ IsFiniteSet(K) /\ Cardinality(P) \in Nat /\ Cardinality(K) \in Nat
  BY <1>2, IdxCardinality
<1>4. P \cap K = K
  OBVIOUS
<1>u. ino.blocks_used = Cardinality(P)
  BY DEF Used
<1>5. Cardinality(P \ K) = Cardinality(P) - Cardinality(K) /\ Cardinality(P \ K) \in Nat
  <2> HIDE DEF P
  <2>1. IsFiniteSet(P \ K) /\ Cardinality(P \ K) = Cardinality(P) - Cardinality(K)
    BY <1>3, <1>4, FS_Difference
  <2>2. QED
    BY <2>1, FS_CardinalityType
<1>6. u = Cardinality(P \ K)
  BY <1>u, <1>5
<1>7. r.type = ino.type /\ r.direct = q /\ r.blocks_used = u /\ r = [ino EXCEPT !.direct = q, !.blocks_used = u]
  BY DEF Shortened, Inode
<1>8. r \in Inode
  <2>1. u \in Nat
    BY <1>5, <1>6
  <2> HIDE DEF q, u
  <2>2. QED
    BY <1>1, <1>7, <2>1 DEF Inode
<1>9. \A k \in Idx : r.direct[k] = IF k \in K THEN NoBlock ELSE ino.direct[k]
  BY <1>7
<1>10. Pointers(r) = P \ K
  BY <1>9 DEF Pointers
<1>11. Used(r)
  BY <1>6, <1>7, <1>10 DEF Used
<1>12. QED
  BY <1>7, <1>8, <1>9, <1>11

\* The file is shortened after its blocks are freed.
LEMMA Cutback ==
    ASSUME NEW ib, NEW bb, NEW it, NEW bl, NEW i \in Inodes, TreeOK(ib, bb, it, bl, {}),
           it[i].type = "FILE", NEW K \in SUBSET Pointers(it[i]), NEW D \in SUBSET RefsAt(it[i], K)
    PROVE  /\ TreeOK(ib, bb \ D, [it EXCEPT ![i] = Shortened(it[i], K)], bl, {})
           /\ Alike(it, bl, [it EXCEPT ![i] = Shortened(it[i], K)], bl)
<1> DEFINE r == Shortened(it[i], K)
           it2 == [it EXCEPT ![i] = r]
<1>t. it \in [Inodes -> Inode] /\ it[i] \in Inode /\ ImageType(ib, bb, it, bl) /\ ib \subseteq Inodes
  BY DEF TreeOK, ImageType
<1>1. /\ r \in Inode /\ Used(r) /\ r.type = "FILE"
      /\ \A k \in Idx : r.direct[k] = IF k \in K THEN NoBlock ELSE it[i].direct[k]
  BY <1>t, ShortenedIs DEF TreeOK
<1> HIDE DEF r
<1>2. it2 \in [Inodes -> Inode] /\ it2[i] = r /\ \A j \in Inodes : j # i => it2[j] = it[j]
  BY <1>t, <1>1
<1> HIDE DEF it2
<1>3. ImageType(ib, bb \ D, it2, bl)
  BY <1>1, <1>2, <1>t DEF ImageType
<1>4. \A j \in Inodes : Used(it2[j]) /\ it2[j].type = it[j].type
  BY <1>1, <1>2 DEF TreeOK
<1>5. \A j \in Inodes, k \in Idx : it2[j].direct[k] # NoBlock =>
         it2[j].direct[k] = it[j].direct[k] /\ ~(j = i /\ k \in K)
  BY <1>1, <1>2
<1>6. Apart(it2)
  BY <1>5 DEF TreeOK, Apart
<1>7. Marked(bb \ D, it2, {})
  <2> SUFFICES ASSUME NEW j \in Inodes, NEW k \in Idx, it2[j].direct[k] # NoBlock
               PROVE  it2[j].direct[k] \in bb \ D
    BY DEF Marked
  <2>1. it2[j].direct[k] = it[j].direct[k] /\ ~(j = i /\ k \in K)
    BY <1>5
  <2>2. it[j].direct[k] \in bb
    BY <2>1 DEF TreeOK, Marked
  <2>3. it[j].direct[k] \notin D
    BY <2>1 DEF TreeOK, Apart, RefsAt, Pointers
  <2>4. QED
    BY <2>1, <2>2, <2>3
<1>8. ASSUME NEW e, NEW l, NEW t
      PROVE  /\ Named(it2, bl, e, l, t) <=> Named(it, bl, e, l, t)
             /\ Named(it, bl, e, l, t) => CellOf(it2, bl, e, l, t) = CellOf(it, bl, e, l, t)
  <2>1. CASE e \in Inodes /\ e # i
    BY <1>2, <2>1 DEF Named, CellOf
  <2>2. CASE ~(e \in Inodes /\ e # i)
    BY <1>1, <1>2, <2>2 DEF Named
  <2>3. QED
    BY <2>1, <2>2
<1>9. Resolve(ib, it2, bl, {})
  <2> SUFFICES ASSUME NEW e, NEW l, NEW t, NEW j, j = CellOf(it2, bl, e, l, t).inode,
                      Named(it2, bl, e, l, t)
               PROVE  j # Root /\ j \in ib /\ it2[j].type # "FREE"
    BY DEF Resolve
  <2>1. j # Root /\ j \in ib /\ it[j].type # "FREE"
    BY <1>8 DEF TreeOK, Resolve
  <2>2. QED
    BY <1>4, <1>t, <2>1
<1>10. Once(it2, bl) /\ Hung(ib, it2, bl)
  BY <1>8 DEF TreeOK, Once, Hung
<1>11. NoBytes(it2, bl, {})
  BY <1>1, <1>2 DEF TreeOK, NoBytes, CellOf
<1>12. Dotted(it2, bl, {})
  <2> SUFFICES ASSUME NEW e, NEW l, NEW t, NEW j, j = CellOf(it2, bl, e, l, t).inode,
                      Named(it2, bl, e, l, t), it2[j].type = "DIR"
               PROVE  DotsIn(it2, bl, j, e)
    BY DEF Dotted
  <2>1. j \in Inodes /\ Named(it, bl, e, l, t) /\ j = CellOf(it, bl, e, l, t).inode
    BY <1>8, <1>9, <1>t DEF Resolve
  <2>2. it2[j] = it[j]
    BY <1>1, <1>2, <2>1
  <2>3. DotsIn(it, bl, j, e)
    BY <2>1, <2>2 DEF TreeOK, Dotted
  <2>4. QED
    BY <2>2, <2>3 DEF DotsIn, CellOf
<1>13. TreeOK(ib, bb \ D, it2, bl, {})
  BY <1>3, <1>4, <1>6, <1>7, <1>9, <1>10, <1>11, <1>12 DEF TreeOK
<1>14. Alike(it, bl, it2, bl)
  <2>1. \A e, l, t : Named(it, bl, e, l, t) => CellOf(it, bl, e, l, t).inode \in Inodes
    BY DEF TreeOK, Resolve, ImageType
  <2>2. QED
    BY <1>4, <1>8, <2>1, Basics DEF Alike
<1>15. QED
  BY <1>13, <1>14 DEF it2, r

LEMMA TruncateSafe ==
    ASSUME NEW ib, NEW bb, NEW it, NEW bl, NEW d, NEW s, Ready(ib, bb, it, bl, d, s),
           NEW i \in Inodes, it[i].type = "FILE", NEW K \in SUBSET Pointers(it[i])
    PROVE  Safe(Im(ib, bb, it, bl, d),
                Freeing(it[i], K) \o <<InodeRec(i, Shortened(it[i], K)), Superblock>>,
                {i}, GiveBlocks(s, K))
<1>r. /\ TreeOK(ib, bb, it, bl, {}) /\ it[i] \in Inode
      /\ d \in Counters /\ Enough(d, ib, bb) /\ s \in Counters /\ Enough(s, ib, bb)
  BY DEF Ready, TreeOK, ImageType
<1> DEFINE r == Shortened(it[i], K)
           c == GiveBlocks(s, K)
           g == Im(ib, bb, it, bl, d)
           it2 == [it EXCEPT ![i] = r]
           two == <<InodeRec(i, r), Superblock>>
<1>1. r \in Inode
  BY <1>r, ShortenedIs DEF TreeOK
<1>3. \A D \in SUBSET RefsAt(it[i], K) : TreeOK(ib, bb \ D, it, bl, {i})
  BY <1>r, Freed
<1>4. \A D \in SUBSET RefsAt(it[i], K) : Good(Im(ib, bb \ D, it, bl, d), {i})
  BY <1>r, <1>3, TornGood
<1>5. PICK D \in SUBSET RefsAt(it[i], K) :
         Path(g, Freeing(it[i], K), {i}, c, Im(ib, bb \ D, it, bl, d))
  <2> HIDE DEF c
  <2>1. QED
    BY <1>r, <1>4, FreeingPath
<1> DEFINE bb2 == bb \ D
           h0 == Im(ib, bb2, it, bl, d)
           h1 == Im(ib, bb2, it2, bl, d)
           h2 == Im(ib, bb2, it2, bl, c)
<1>6. TreeOK(ib, bb2, it, bl, {i})
  BY <1>3
<1>7. TreeOK(ib, bb2, it2, bl, {}) /\ Alike(it, bl, it2, bl)
  BY <1>r, Cutback
<1>e. Enough(c, ib, bb2) /\ c \in Counters
  BY <1>r, EnoughFreed
<1> HIDE DEF bb2, r, c
<1>w. h1 = Written(h0, InodeRec(i, r), c) /\ h2 = Written(h1, Superblock, c)
  BY DEF Written, Im, InodeRec, Superblock
<1> HIDE DEF it2
<1>8. TreeOK(ib, bb2, it2, bl, {i})
  BY <1>7, Looser
<1>9. Good(h0, {i}) /\ Good(h1, {i})
  BY <1>r, <1>6, <1>8, TornGood
<1>10. Good(h2, {})
  BY <1>7, <1>e, GoodLead
<1>11. h2.ib = ib /\ h2.bb = bb2
  BY DEF Im
<1>12. InodeRec(i, r) \in BlockWrites /\ Superblock \in BlockWrites
  BY <1>1, WriteTypes DEF r
<1>13. Path(g, Freeing(it[i], K), {i}, c, h0)
  BY <1>5 DEF bb2
<1>m. Moves(h0, h1) /\ Moves(h1, h2)
  BY <1>7, MovesIm, MovesSame
<1> HIDE DEF g, h0, h1, h2
<1>14. Path(h0, two, {i}, c, h2)
  BY <1>9, <1>12, <1>w, <1>m, PathTwo
<1> HIDE DEF two
<1>15. Path(g, Freeing(it[i], K) \o two, {i}, c, h2)
  BY <1>13, <1>14, PathJoin
<1>16. Safe(g, Freeing(it[i], K) \o two, {i}, c)
  BY <1>10, <1>11, <1>15, <1>e DEF Safe
<1>17. QED
  BY <1>16 DEF g, two, r, c

-----------------------------------------------------------------------------
(* The inductive invariant: the writes to come end well; with no process,   *)
(* or with a cut deletion on the image, it is good but for that inode.       *)

CrashInv ==
    /\ sb \in Counters /\ mounted \in BOOLEAN /\ deaths \in 0 .. MaxDeaths
    /\ deleting \in SUBSET Inodes /\ torn \in SUBSET Inodes
    /\ IF mounted /\ torn = {} THEN Safe(Image, pending, deleting, sb)
                               ELSE pending = <<>> /\ deleting = {} /\ Good(Image, torn)

LEMMA SafeStart ==
    ASSUME NEW g, NEW V, NEW c, Good(g, {}), c \in Counters, Enough(c, g.ib, g.bb)
    PROVE  Safe(g, <<>>, V, c)
  BY PathNone DEF Safe

LEMMA GoodLooser ==
    ASSUME NEW g, NEW V, Good(g, {})
    PROVE  Good(g, V)
  BY Looser DEF Good

\* The image is good but for the inode that is or was taken apart.
LEMMA HurtGood ==
    ASSUME CrashInv
    PROVE  Good(Image, Hurt)
<1>1. CASE mounted /\ torn = {}
  <2>1. Safe(Image, pending, deleting, sb) /\ Hurt = deleting
    BY <1>1 DEF CrashInv, Hurt
  <2>2. CASE pending = <<>>
    BY <2>1, <2>2, SafeNone, GoodLooser
  <2>3. CASE pending # <<>>
    BY <2>1, <2>3, SafePop
  <2>4. QED
    BY <2>2, <2>3
<1>2. CASE ~(mounted /\ torn = {})
  <2>1. Good(Image, torn) /\ deleting = {}
    BY <1>2 DEF CrashInv
  <2>2. Hurt = torn
    BY <2>1 DEF Hurt
  <2>3. QED
    BY <2>1, <2>2
<1>3. QED
  BY <1>1, <1>2

\* mkfs_mini leaves a good image.
LEMMA InitCrash ==
    ASSUME Init
    PROVE  CrashInv
<1> DEFINE it == inodeTable
           bl == block
           ib == {Root}
           bb == {DataStart}
           r == NewDir(DataStart)
<1>g. /\ DataStart \in DataBlocks /\ DataStart # NoBlock /\ Root \in Inodes
      /\ DataStart \in Nat /\ TotalBlocks \in Nat /\ TotalBlocks > DataStart + 1
      /\ MaxInodes \in Nat /\ MaxInodes > 0
  BY GeometryAssumption DEF DataBlocks, NoBlock, Root, Inodes
<1>i. /\ inodeBitmap = ib /\ blockBitmap = bb
      /\ it = [i \in Inodes |-> IF i = Root THEN r ELSE FreeInode]
      /\ bl = [b \in DataBlocks |-> IF b = DataStart THEN DotsBlock(Root, Root) ELSE ZeroBlock]
      /\ diskSb = [free_blocks |-> TotalBlocks - DataStart - 1, free_inodes |-> MaxInodes - 1]
      /\ sb = diskSb /\ mounted = TRUE /\ pending = <<>> /\ deleting = {} /\ torn = {} /\ deaths = 0
  BY DEF Init
<1>r. /\ r \in Inode /\ Used(r) /\ r.type = "DIR"
      /\ \A k \in Idx : r.direct[k] = IF k = 0 THEN DataStart ELSE NoBlock
  BY <1>g, ContentsType, NewUsed, Basics DEF NewDir, NoPointers
<1>f. /\ FreeInode \in Inode /\ Used(FreeInode) /\ FreeInode.type = "FREE"
      /\ \A k \in Idx : FreeInode.direct[k] = NoBlock
  BY ContentsType, NewUsed DEF FreeInode, NoPointers
<1>d. /\ DotsBlock(Root, Root) \in Contents /\ ZeroBlock \in Contents
      /\ \A t \in Slots : PlainCell(DotsBlock(Root, Root)[t])
  BY <1>g, ContentsType, DotsAre DEF Contents
<1> HIDE DEF r, it, bl
<1>1. /\ it[Root] = r /\ \A i \in Inodes : i # Root => it[i] = FreeInode
      /\ it \in [Inodes -> Inode]
  BY <1>g, <1>i, <1>r, <1>f
<1>2. bl[DataStart] = DotsBlock(Root, Root) /\ bl \in [DataBlocks -> Contents]
  BY <1>g, <1>i, <1>d
<1>3. ImageType(ib, bb, it, bl)
  BY <1>g, <1>1, <1>2, <1>r DEF ImageType
<1>4. \A i \in Inodes : Used(it[i])
  BY <1>1, <1>r, <1>f
<1>5. \A i \in Inodes, k \in Idx :
         it[i].direct[k] # NoBlock => i = Root /\ k = 0 /\ it[i].direct[k] = DataStart
  BY <1>1, <1>r, <1>f
<1>6. Marked(bb, it, {}) /\ Apart(it)
  BY <1>5 DEF Marked, Apart
<1>7. \A i \in Inodes, k \in Idx, s \in Slots :
         it[i].direct[k] # NoBlock => PlainCell(CellOf(it, bl, i, k, s))
  BY <1>2, <1>5, <1>d DEF CellOf
<1>8. \A i, k, s : ~Named(it, bl, i, k, s)
  BY <1>7 DEF Named, PlainCell
<1>9. Resolve(ib, it, bl, {}) /\ Once(it, bl) /\ Dotted(it, bl, {}) /\ Hung(ib, it, bl)
  BY <1>8 DEF Resolve, Once, Dotted, Hung
<1>10. NoBytes(it, bl, {})
  BY <1>7, Basics DEF NoBytes, PlainCell
<1>11. TreeOK(ib, bb, it, bl, {})
  BY <1>3, <1>4, <1>6, <1>9, <1>10 DEF TreeOK
<1>12. diskSb \in Counters /\ Enough(diskSb, ib, bb)
  <2>1. /\ IsFiniteSet(DataBlocks) /\ Cardinality(DataBlocks) = TotalBlocks - DataStart
        /\ IsFiniteSet(Inodes) /\ Cardinality(Inodes) = MaxInodes
    <3>1. /\ TotalBlocks - 1 \in Int /\ ~(DataStart > TotalBlocks - 1)
          /\ (TotalBlocks - 1) - DataStart + 1 = TotalBlocks - DataStart
          /\ MaxInodes - 1 \in Int /\ ~(0 > MaxInodes - 1) /\ (MaxInodes - 1) - 0 + 1 = MaxInodes
      BY <1>g
    <3>2. /\ IsFiniteSet(DataStart .. TotalBlocks - 1)
          /\ Cardinality(DataStart .. TotalBlocks - 1) = (TotalBlocks - 1) - DataStart + 1
      BY <1>g, <3>1, FS_Interval
    <3>3. /\ IsFiniteSet(0 .. MaxInodes - 1)
          /\ Cardinality(0 .. MaxInodes - 1) = (MaxInodes - 1) - 0 + 1
      BY <3>1, FS_Interval
    <3>4. QED
      BY <3>1, <3>2, <3>3 DEF DataBlocks, Inodes
  <2>2. /\ Cardinality(DataBlocks \ bb) = Cardinality(DataBlocks) - 1
        /\ Cardinality(Inodes \ ib) = Cardinality(Inodes) - 1
    BY <1>g, <2>1, FS_RemoveElement
  <2>3. diskSb.free_blocks = TotalBlocks - DataStart - 1 /\ diskSb.free_inodes = MaxInodes - 1
    BY <1>i
  <2>4. diskSb \in Counters
    BY <1>g, <1>i DEF Counters
  <2>5. QED
    BY <1>g, <2>1, <2>2, <2>3, <2>4 DEF Enough
<1>13. Image = Im(ib, bb, it, bl, diskSb)
  BY <1>i DEF Image, it, bl
<1>14. Good(Image, {})
  BY <1>11, <1>12, <1>13, GoodLead
<1>15. Image.ib = ib /\ Image.bb = bb
  BY <1>13 DEF Im
<1>16. Safe(Image, pending, deleting, sb)
  BY <1>12, <1>14, <1>15, <1>i, SafeStart
<1>17. deaths \in 0 .. MaxDeaths
  BY <1>i, DeathAssumption
<1>18. QED
  BY <1>12, <1>16, <1>17, <1>i DEF CrashInv

\* Nothing to write: the image is good and the counters are not short.
LEMMA ReadyNow ==
    ASSUME CrashInv, BeforeReuse, mounted, pending = <<>>
    PROVE  /\ Ready(inodeBitmap, blockBitmap, inodeTable, block, diskSb, sb)
           /\ Image = Im(inodeBitmap, blockBitmap, inodeTable, block, diskSb)
<1>1. Safe(Image, <<>>, deleting, sb)
  BY DEF CrashInv, BeforeReuse
<1>2. Good(Image, {}) /\ Enough(sb, Image.ib, Image.bb) /\ sb \in Counters
  BY <1>1, SafeNone
<1>3. Image = Im(inodeBitmap, blockBitmap, inodeTable, block, diskSb)
  BY DEF Image
<1>4. Image.ib = inodeBitmap /\ Image.bb = blockBitmap
  BY <1>3 DEF Im
<1>5. QED
  BY <1>2, <1>3, <1>4, GoodIm DEF Ready

\* A callback whose writes end well.
LEMMA StartInv ==
    ASSUME CrashInv, BeforeReuse, mounted, NEW w, NEW c, NEW V \in SUBSET Inodes, Start(w, c, V),
           Safe(Image, w, V, c)
    PROVE  CrashInv'
<1>1. /\ pending' = w /\ sb' = c /\ deleting' = V /\ UNCHANGED <<mounted, torn, deaths>>
      /\ UNCHANGED <<inodeBitmap, blockBitmap, inodeTable, block, diskSb>>
  BY DEF Start, image
<1>2. Image' = Image
  BY <1>1 DEF Image, Im
<1>3. torn = {} /\ mounted /\ mounted' = mounted /\ torn' = torn
  BY <1>1 DEF BeforeReuse
<1>4. c \in Counters
  BY DEF Safe
<1>5. Safe(Image', pending', deleting', sb')
  BY <1>1, <1>2
<1>6. QED
  BY <1>1, <1>3, <1>4, <1>5 DEF CrashInv

-----------------------------------------------------------------------------
(* Every step keeps the invariant *)

LEMMA StepInv ==
    ASSUME CrashInv, BeforeReuse, Step
    PROVE  CrashInv'
<1>1. CASE mounted
  <2>1. torn = {} /\ Safe(Image, pending, deleting, sb) /\ pending # <<>>
    BY <1>1 DEF CrashInv, BeforeReuse, Step
  <2>2. /\ pending \in Seq(BlockWrites) /\ Head(pending) \in BlockWrites
        /\ Safe(Written(Image, Head(pending), sb), Tail(pending), deleting, sb)
    BY <2>1, SafePop
  <2>3. Image' = Written(Image, Head(pending), sb)
    BY <2>2, StepWrites
  <2>4. Safe(Image', Tail(pending), deleting, sb)
    BY <2>2, <2>3
  <2>5. /\ pending' = Tail(pending) /\ deleting' = IF Len(pending) = 1 THEN {} ELSE deleting
        /\ sb' = sb /\ mounted' = mounted /\ torn' = torn /\ deaths' = deaths
    BY DEF Step
  <2>6. Safe(Image', pending', deleting', sb')
    <3>1. CASE Len(pending) = 1
      <4>1. Tail(pending) = <<>>
        <5>1. Tail(pending) \in Seq(BlockWrites) /\ Len(Tail(pending)) = Len(pending) - 1
          BY <2>1, <2>2, HeadTailProperties
        <5> DEFINE q == Tail(pending)
        <5>2. q \in Seq(BlockWrites) /\ Len(q) = 0
          BY <3>1, <5>1
        <5> HIDE DEF q
        <5>3. q = <<>>
          BY <5>2, EmptySeq
        <5>4. QED
          BY <5>3 DEF q
      <4>2. Good(Image', {}) /\ Enough(sb, Image'.ib, Image'.bb) /\ sb \in Counters
        BY <2>4, <4>1, SafeNone
      <4>3. Safe(Image', <<>>, {}, sb)
        BY <4>2, SafeStart
      <4>4. QED
        BY <2>5, <3>1, <4>1, <4>3
    <3>2. CASE Len(pending) # 1
      BY <2>4, <2>5, <3>2
    <3>3. QED
      BY <3>1, <3>2
  <2>7. QED
    BY <1>1, <2>1, <2>5, <2>6 DEF CrashInv
<1>2. CASE ~mounted
  <2>1. pending = <<>>
    BY <1>2 DEF CrashInv
  <2>2. QED
    BY <2>1 DEF Step
<1>3. QED
  BY <1>1, <1>2

LEMMA KillInv ==
    ASSUME CrashInv, BeforeReuse, Kill
    PROVE  CrashInv'
<1>1. /\ mounted /\ deaths < MaxDeaths /\ deaths' = deaths + 1 /\ mounted' = FALSE /\ pending' = <<>>
      /\ torn' = torn \cup deleting /\ deleting' = {}
      /\ sb' = [free_blocks |-> 0, free_inodes |-> 0]
      /\ UNCHANGED <<inodeBitmap, blockBitmap, inodeTable, block, diskSb>>
  BY DEF Kill, image
<1>2. Image' = Image
  BY <1>1 DEF Image, Im
<1>3. Good(Image, Hurt) /\ torn' = Hurt
  BY <1>1, HurtGood DEF Hurt
<1>4. Good(Image', torn')
  BY <1>2, <1>3
<1>5. sb' \in Counters
  BY <1>1 DEF Counters
<1>6. deaths' \in 0 .. MaxDeaths /\ torn' \in SUBSET Inodes
  BY <1>1, DeathAssumption DEF CrashInv
<1>7. QED
  BY <1>1, <1>4, <1>5, <1>6 DEF CrashInv

LEMMA MountInv ==
    ASSUME CrashInv, Mount
    PROVE  CrashInv'
<1>1. /\ ~mounted /\ mounted' = TRUE /\ sb' = diskSb /\ pending' = pending /\ deleting' = deleting
      /\ torn' = torn /\ deaths' = deaths
      /\ UNCHANGED <<inodeBitmap, blockBitmap, inodeTable, block, diskSb>>
  BY DEF Mount, image
<1>2. Image' = Image /\ Image.sb = diskSb
  BY <1>1 DEF Image, Im
<1>3. pending = <<>> /\ deleting = {} /\ Good(Image, torn)
  BY <1>1 DEF CrashInv
<1>4. diskSb \in Counters
  BY <1>2, <1>3 DEF Good
<1>5. CASE torn = {}
  <2>1. Good(Image, {}) /\ Enough(diskSb, Image.ib, Image.bb)
    BY <1>2, <1>3, <1>5 DEF Good
  <2>2. Safe(Image, <<>>, {}, diskSb)
    BY <1>4, <2>1, SafeStart
  <2>3. Safe(Image', pending', deleting', sb')
    BY <1>1, <1>2, <1>3, <2>2
  <2>4. QED
    BY <1>1, <1>4, <1>5, <2>3 DEF CrashInv
<1>6. CASE torn # {}
  <2>1. Good(Image', torn')
    BY <1>1, <1>2, <1>3
  <2>2. QED
    BY <1>1, <1>3, <1>4, <1>6, <2>1 DEF CrashInv
<1>7. QED
  BY <1>5, <1>6

LEMMA CreateInv ==
    ASSUME CrashInv, BeforeReuse, NEW par \in Inodes, NEW n \in Names, Create(par, n)
    PROVE  CrashInv'
<1>0. /\ mounted /\ pending = <<>> /\ inodeTable[par].type = "DIR"
      /\ par \in PathDirs(inodeTable, block) /\ Lookup(inodeTable, block, par, n) = {}
  BY FitsIn DEF Create, ReadyIn
<1>1. /\ Ready(inodeBitmap, blockBitmap, inodeTable, block, diskSb, sb)
      /\ Image = Im(inodeBitmap, blockBitmap, inodeTable, block, diskSb)
  BY <1>0, ReadyNow
<1>2. PICK i \in FirstFit(Inodes \ inodeBitmap) :
       LET it   == [inodeTable EXCEPT ![i] = NewFile]
           new  == <<InodeRec(i, NewFile), InodeBit(i, TRUE)>>
           fits == EntryWrites(par, [inode |-> i, name |-> Stored(n)], it, block,
                               blockBitmap, TakeInode(sb))
       IN  \/ \E e \in fits : Start(new \o e.writes \o <<Superblock>>, e.sb, {})
           \/ fits = {} /\ Start(new, TakeInode(sb), {})
  BY DEF Create
<1>3. i \in Inodes \ inodeBitmap
  BY DEF FirstFit
<1> DEFINE new == <<InodeRec(i, NewFile), InodeBit(i, TRUE)>>
           fits == EntryWrites(par, [inode |-> i, name |-> Stored(n)],
                               [inodeTable EXCEPT ![i] = NewFile], block, blockBitmap, TakeInode(sb))
<1>4. /\ Safe(Image, new, {}, TakeInode(sb))
      /\ \A e \in fits : Safe(Image, (new \o e.writes) \o <<Superblock>>, {}, e.sb)
  BY <1>0, <1>1, <1>3, CreateSafe
<1>5. \/ \E e \in fits : Start((new \o e.writes) \o <<Superblock>>, e.sb, {})
      \/ Start(new, TakeInode(sb), {})
  BY <1>2
<1> HIDE DEF new, fits
<1>6. CASE \E e \in fits : Start((new \o e.writes) \o <<Superblock>>, e.sb, {})
  BY <1>0, <1>4, <1>6, StartInv
<1>7. CASE Start(new, TakeInode(sb), {})
  BY <1>0, <1>4, <1>7, StartInv
<1>8. QED
  BY <1>5, <1>6, <1>7

LEMMA MkdirInv ==
    ASSUME CrashInv, BeforeReuse, NEW par \in Inodes, NEW n \in Names, Mkdir(par, n)
    PROVE  CrashInv'
<1>0. /\ mounted /\ pending = <<>> /\ inodeTable[par].type = "DIR"
      /\ par \in PathDirs(inodeTable, block) /\ Lookup(inodeTable, block, par, n) = {}
  BY FitsIn DEF Mkdir, ReadyIn
<1>1. /\ Ready(inodeBitmap, blockBitmap, inodeTable, block, diskSb, sb)
      /\ Image = Im(inodeBitmap, blockBitmap, inodeTable, block, diskSb)
  BY <1>0, ReadyNow
<1>2. PICK i \in FirstFit(Inodes \ inodeBitmap), b \in FirstFit(DataBlocks \ blockBitmap) :
       LET it   == [inodeTable EXCEPT ![i] = NewDir(b)]
           bl   == [block EXCEPT ![b] = DotsBlock(i, par)]
           s    == TakeInode(TakeBlock(sb))
           new  == Allocation(b) \o <<InodeRec(i, NewDir(b)), InodeBit(i, TRUE),
                                      Content(b, DotsBlock(i, par))>>
           fits == EntryWrites(par, [inode |-> i, name |-> Stored(n)], it, bl,
                               blockBitmap \cup {b}, s)
       IN  \/ \E e \in fits : Start(new \o e.writes \o <<Superblock>>, e.sb, {})
           \/ fits = {} /\ Start(new, s, {})
  BY DEF Mkdir
<1>3. i \in Inodes \ inodeBitmap /\ b \in DataBlocks \ blockBitmap
  BY DEF FirstFit
<1> DEFINE new == MkdirWrites(i, b, par)
           s == TakeInode(TakeBlock(sb))
           fits == EntryWrites(par, [inode |-> i, name |-> Stored(n)],
                               [inodeTable EXCEPT ![i] = NewDir(b)],
                               [block EXCEPT ![b] = DotsBlock(i, par)], blockBitmap \cup {b}, s)
<1>4. /\ Safe(Image, new, {}, s)
      /\ \A e \in fits : Safe(Image, (new \o e.writes) \o <<Superblock>>, {}, e.sb)
  BY <1>0, <1>1, <1>3, MkdirSafe
<1>5. \/ \E e \in fits : Start((new \o e.writes) \o <<Superblock>>, e.sb, {})
      \/ Start(new, s, {})
  BY <1>2 DEF MkdirWrites
<1> HIDE DEF new, fits, s
<1>6. CASE \E e \in fits : Start((new \o e.writes) \o <<Superblock>>, e.sb, {})
  BY <1>0, <1>4, <1>6, StartInv
<1>7. CASE Start(new, s, {})
  BY <1>0, <1>4, <1>7, StartInv
<1>8. QED
  BY <1>5, <1>6, <1>7

\* The first position is one.
LEMMA FirstPosOne ==
    ASSUME NEW dir, NEW P \in SUBSET Positions(dir), NEW p \in FirstPos(P), NEW q \in FirstPos(P)
    PROVE  p = q
<1>1. /\ p = <<p[1], p[2]>> /\ q = <<q[1], q[2]>>
      /\ p[1] \in Int /\ p[2] \in Int /\ q[1] \in Int /\ q[2] \in Int
  BY DEF FirstPos, Positions, Pointers, Idx, Slots
<1>2. Before(p, q) /\ Before(q, p)
  BY DEF FirstPos
<1>3. p[1] = q[1] /\ p[2] = q[2]
  BY <1>1, <1>2 DEF Before
<1>4. QED
  BY <1>1, <1>3

\* What a lookup in the running image says.
LEMMA LookupNow ==
    ASSUME NEW ib, NEW bb, NEW it, NEW bl, TreeOK(ib, bb, it, bl, {}), NEW d \in Inodes,
           it[d].type = "DIR", NEW n \in Names, NEW i \in Lookup(it, bl, d, n)
    PROVE  EntryFor(it, bl, d, n, i) /\ i \in Inodes /\ i # Root
<1>1. ImageType(ib, bb, it, bl) /\ ib \subseteq Inodes
  BY DEF TreeOK, ImageType
<1>2. EntryFor(it, bl, d, n, i)
  BY <1>1, LookupNamed
<1>3. i \in ib /\ i # Root
  BY <1>2 DEF EntryFor, TreeOK, Resolve
<1>4. QED
  BY <1>1, <1>2, <1>3

LEMMA EmptyDir ==
    ASSUME NEW ib, NEW bb, NEW it, NEW bl, TreeOK(ib, bb, it, bl, {}), NEW i \in Inodes,
           it[i].type = "FILE" \/ (it[i].type = "DIR" /\ Listed(it[i], bl) = {})
    PROVE  NoEntries(it, bl, i)
<1> SUFFICES ASSUME NEW k, NEW s, Named(it, bl, i, k, s) PROVE FALSE
  BY DEF NoEntries
<1>1. it[i].type = "DIR" /\ k \in Idx /\ s \in Slots /\ it[i].direct[k] # NoBlock
  BY DEF Named
<1>2. <<k, s>> \in Positions(it[i]) /\ CellAt(it[i], bl, <<k, s>>) = CellOf(it, bl, i, k, s)
  BY <1>1 DEF Positions, Pointers, CellAt, CellOf
<1>3. CellOf(it, bl, i, k, s).inode # 0 /\ CellOf(it, bl, i, k, s).name \notin {Dot, DotDot}
  BY DEF TreeOK, Resolve, Root, Named
<1>4. <<k, s>> \in Listed(it[i], bl)
  BY <1>2, <1>3 DEF Listed
<1>5. QED
  BY <1>1, <1>4

LEMMA DeleteInv ==
    ASSUME CrashInv, BeforeReuse, NEW par \in Inodes, NEW n \in Names, Delete(par, n)
    PROVE  CrashInv'
<1> DEFINE it == inodeTable
           bl == block
<1>0. /\ mounted /\ pending = <<>> /\ it[par].type = "DIR" /\ par \in PathDirs(it, bl)
  BY FitsIn DEF Delete, ReadyIn
<1>1. /\ Ready(inodeBitmap, blockBitmap, it, bl, diskSb, sb)
      /\ Image = Im(inodeBitmap, blockBitmap, it, bl, diskSb)
  BY <1>0, ReadyNow
<1>t. TreeOK(inodeBitmap, blockBitmap, it, bl, {})
  BY <1>1 DEF Ready
<1>2. PICK i \in Lookup(it, bl, par, n), rm \in RemovalWrites(par, n) :
         /\ it[i].type = "FILE" \/ (it[i].type = "DIR" /\ Listed(it[i], bl) = {})
         /\ Start(Freeing(it[i], Pointers(it[i])) \o <<InodeRec(i, FreeInode), InodeBit(i, FALSE)>>
                       \o rm \o <<Superblock>>,
                  GiveInode(GiveBlocks(sb, Pointers(it[i]))), {i})
  BY DEF Delete
<1>3. PICK p \in FirstPos(Matches(it[par], bl, n)) :
         rm = <<Content(it[par].direct[p[1]], [bl[it[par].direct[p[1]]] EXCEPT ![p[2]] = FreeCell])>>
  BY DEF RemovalWrites
<1>4. EntryFor(it, bl, par, n, i) /\ i \in Inodes
  BY <1>0, <1>t, LookupNow
<1>5. PICK k, t : /\ Named(it, bl, par, k, t) /\ <<k, t>> \in FirstPos(Matches(it[par], bl, n))
                  /\ CellOf(it, bl, par, k, t).inode = i
  BY <1>4 DEF EntryFor
<1>6. p = <<k, t>>
  BY <1>5, FirstPosOne DEF Matches
<1>7. rm = <<Content(it[par].direct[k], [bl[it[par].direct[k]] EXCEPT ![t] = FreeCell])>>
  BY <1>3, <1>6
<1>8. NoEntries(it, bl, i)
  BY <1>2, <1>4, <1>t, EmptyDir
<1> DEFINE w == ((Freeing(it[i], Pointers(it[i])) \o <<InodeRec(i, FreeInode), InodeBit(i, FALSE)>>)
                   \o rm) \o <<Superblock>>
           c == GiveInode(GiveBlocks(sb, Pointers(it[i])))
<1>9. Safe(Image, w, {i}, c)
  <2> HIDE DEF it, bl
  <2>1. Safe(Im(inodeBitmap, blockBitmap, it, bl, diskSb),
             ((Freeing(it[i], Pointers(it[i])) \o <<InodeRec(i, FreeInode), InodeBit(i, FALSE)>>)
                \o <<Content(it[par].direct[k], [bl[it[par].direct[k]] EXCEPT ![t] = FreeCell])>>)
               \o <<Superblock>>, {i}, c)
    BY <1>1, <1>5, <1>8, DeleteSafe
  <2>2. QED
    BY <1>1, <1>7, <2>1
<1>10. Start(w, c, {i}) /\ {i} \in SUBSET Inodes
  BY <1>2, <1>4
<1> HIDE DEF w, c
<1>11. QED
  BY <1>0, <1>9, <1>10, StartInv

LEMMA TruncateInv ==
    ASSUME CrashInv, BeforeReuse, NEW par \in Inodes, NEW n \in Names,
           NEW keep \in 0 .. DirectBlocks, Truncate(par, n, keep)
    PROVE  CrashInv'
<1> DEFINE it == inodeTable
           bl == block
<1>0. /\ mounted /\ pending = <<>> /\ it[par].type = "DIR" /\ par \in PathDirs(it, bl)
  BY FitsIn DEF Truncate, ReadyIn
<1>1. /\ Ready(inodeBitmap, blockBitmap, it, bl, diskSb, sb)
      /\ Image = Im(inodeBitmap, blockBitmap, it, bl, diskSb)
  BY <1>0, ReadyNow
<1>t. TreeOK(inodeBitmap, blockBitmap, it, bl, {})
  BY <1>1 DEF Ready
<1>2. PICK i \in Lookup(it, bl, par, n) :
        LET ino  == it[i]
            drop == {k \in Pointers(ino) : k >= keep}
            r    == [ino EXCEPT !.direct = [k \in Idx |-> IF k \in drop THEN NoBlock ELSE @[k]],
                                !.blocks_used = @ - Cardinality(drop)]
        IN  /\ ino.type = "FILE"
            /\ Start(Freeing(ino, drop) \o <<InodeRec(i, r), Superblock>>,
                     GiveBlocks(sb, drop), {i})
  BY DEF Truncate
<1> DEFINE K == {k \in Pointers(it[i]) : k >= keep}
           w == Freeing(it[i], K) \o <<InodeRec(i, Shortened(it[i], K)), Superblock>>
           c == GiveBlocks(sb, K)
<1>3. i \in Inodes
  BY <1>0, <1>t, LookupNow
<1>4. it[i].type = "FILE" /\ Start(w, c, {i})
  BY <1>2 DEF Shortened
<1>5. K \in SUBSET Pointers(it[i])
  OBVIOUS
<1> HIDE DEF K
<1>6. Safe(Image, w, {i}, c)
  BY <1>1, <1>3, <1>4, <1>5, TruncateSafe
<1>7. {i} \in SUBSET Inodes
  BY <1>3
<1> HIDE DEF w, c
<1>8. QED
  BY <1>0, <1>4, <1>6, <1>7, StartInv

LEMMA WriteInv ==
    ASSUME CrashInv, BeforeReuse, NEW par \in Inodes, NEW n \in Names, NEW k \in Idx, Write(par, n, k)
    PROVE  CrashInv'
<1> DEFINE it == inodeTable
           bl == block
<1>0. /\ mounted /\ pending = <<>> /\ it[par].type = "DIR" /\ par \in PathDirs(it, bl)
  BY FitsIn DEF Write, ReadyIn
<1>1. /\ Ready(inodeBitmap, blockBitmap, it, bl, diskSb, sb)
      /\ Image = Im(inodeBitmap, blockBitmap, it, bl, diskSb)
  BY <1>0, ReadyNow
<1>t. TreeOK(inodeBitmap, blockBitmap, it, bl, {})
  BY <1>1 DEF Ready
<1>2. PICK i \in Lookup(it, bl, par, n) :
        /\ it[i].type = "FILE"
        /\ \/ /\ it[i].direct[k] # NoBlock
              /\ Start(<<Content(it[i].direct[k], DataBlock), InodeRec(i, it[i]), Superblock>>, sb, {})
           \/ /\ it[i].direct[k] = NoBlock
              /\ \E b \in FirstFit(DataBlocks \ blockBitmap) :
                    Start(Allocation(b) \o <<Content(b, DataBlock),
                                             InodeRec(i, WithBlock(it[i], k, b)), Superblock>>,
                          TakeBlock(sb), {})
  BY DEF Write
<1>3. i \in Inodes
  BY <1>0, <1>t, LookupNow
<1>4. CASE it[i].direct[k] # NoBlock
  <2> DEFINE w == <<Content(it[i].direct[k], DataBlock), InodeRec(i, it[i]), Superblock>>
  <2>1. Start(w, sb, {})
    BY <1>2, <1>4
  <2>2. Safe(Image, w, {}, sb)
    BY <1>1, <1>2, <1>3, <1>4, OverwriteSafe
  <2> HIDE DEF w
  <2>3. QED
    BY <1>0, <2>1, <2>2, StartInv
<1>5. CASE it[i].direct[k] = NoBlock
  <2>1. PICK b \in FirstFit(DataBlocks \ blockBitmap) :
               Start(Allocation(b) \o <<Content(b, DataBlock),
                                        InodeRec(i, WithBlock(it[i], k, b)), Superblock>>,
                     TakeBlock(sb), {})
    BY <1>2, <1>5
  <2> DEFINE w == Allocation(b) \o <<Content(b, DataBlock), InodeRec(i, WithBlock(it[i], k, b)), Superblock>>
  <2>2. b \in DataBlocks \ blockBitmap
    BY DEF FirstFit
  <2>3. Safe(Image, w, {}, TakeBlock(sb))
    BY <1>1, <1>2, <1>3, <1>5, <2>2, AppendSafe
  <2>4. Start(w, TakeBlock(sb), {})
    BY <2>1
  <2> HIDE DEF w
  <2>5. QED
    BY <1>0, <2>3, <2>4, StartInv
<1>6. QED
  BY <1>4, <1>5

LEMMA NextInv ==
    ASSUME CrashInv, [BeforeReuse /\ Next]_vars
    PROVE  CrashInv'
<1>1. CASE UNCHANGED vars
  BY <1>1 DEF vars, CrashInv, Image, Im
<1>2. CASE BeforeReuse /\ Next
  <2>1. CASE Step
    BY <1>2, <2>1, StepInv
  <2>2. CASE Kill
    BY <1>2, <2>2, KillInv
  <2>3. CASE Mount
    BY <2>3, MountInv
  <2>4. ASSUME NEW par \in Inodes, NEW n \in Names,
               \/ Create(par, n) \/ Mkdir(par, n) \/ Delete(par, n)
               \/ \E keep \in 0 .. DirectBlocks : Truncate(par, n, keep)
               \/ \E k \in Idx : Write(par, n, k)
        PROVE  CrashInv'
    BY <1>2, <2>4, CreateInv, MkdirInv, DeleteInv, TruncateInv, WriteInv
  <2>5. QED
    BY <1>2, <2>1, <2>2, <2>3, <2>4 DEF Next
<1>3. QED
  BY <1>1, <1>2

THEOREM Invariance == SpecBeforeReuse => []CrashInv
<1>1. Init => CrashInv
  BY InitCrash
<1>2. CrashInv /\ [BeforeReuse /\ Next]_vars => CrashInv'
  BY NextInv
<1>3. QED
  BY <1>1, <1>2, PTL DEF SpecBeforeReuse

-----------------------------------------------------------------------------
(* The safety properties of module MiniFSCrash *)

LEMMA ImageGood ==
    ASSUME CrashInv
    PROVE  /\ TreeOK(inodeBitmap, blockBitmap, inodeTable, block, Hurt) /\ diskSb \in Counters
           /\ Hurt = {} => Enough(diskSb, inodeBitmap, blockBitmap)
  BY HurtGood, GoodIm DEF Image

\* A named entry is an entry of the scans.
LEMMA LinkIs ==
    ASSUME NEW l \in Links
    PROVE  \E k, s : /\ Named(inodeTable, block, l.dir, k, s) /\ l.at = <<k, s>>
                     /\ l = [dir |-> l.dir, at |-> <<k, s>>,
                             id |-> CellOf(inodeTable, block, l.dir, k, s).inode,
                             name |-> CellOf(inodeTable, block, l.dir, k, s).name]
<1>1. PICK d \in DirInodes : \E p \in Positions(inodeTable[d]) :
         /\ CellAt(inodeTable[d], block, p).name \notin {NoName, Dot, DotDot}
         /\ l = [dir |-> d, at |-> p, id |-> CellAt(inodeTable[d], block, p).inode,
                 name |-> CellAt(inodeTable[d], block, p).name]
  BY DEF Links
<1>2. PICK p \in Positions(inodeTable[d]) :
         /\ CellAt(inodeTable[d], block, p).name \notin {NoName, Dot, DotDot}
         /\ l = [dir |-> d, at |-> p, id |-> CellAt(inodeTable[d], block, p).inode,
                 name |-> CellAt(inodeTable[d], block, p).name]
  BY <1>1
<1>3. p = <<p[1], p[2]>> /\ p[1] \in Idx /\ p[2] \in Slots /\ inodeTable[d].direct[p[1]] # NoBlock
  BY DEF Positions, Pointers
<1>4. CellAt(inodeTable[d], block, p) = CellOf(inodeTable, block, d, p[1], p[2])
  BY DEF CellAt, CellOf
<1>5. Named(inodeTable, block, d, p[1], p[2])
  BY <1>2, <1>3, <1>4 DEF Named, DirInodes
<1>6. l.dir = d /\ l.at = p
  BY <1>2
<1>7. QED
  BY <1>2, <1>3, <1>4, <1>5, <1>6

LEMMA TypeFollows ==
    ASSUME CrashInv
    PROVE  TypeOK
  BY ImageGood DEF CrashInv, TypeOK, TreeOK, ImageType, Contents

LEMMA NamesFollow ==
    ASSUME CrashInv
    PROVE  NamesResolve
<1>t. /\ Resolve(inodeBitmap, inodeTable, block, Hurt) /\ Once(inodeTable, block)
  BY ImageGood DEF TreeOK
<1>1. ASSUME NEW l \in Links, l.id \in Sound
      PROVE  l.id # Root /\ l.id \in inodeBitmap /\ inodeTable[l.id].type # "FREE"
  <2>1. PICK k, s : /\ Named(inodeTable, block, l.dir, k, s)
                    /\ l = [dir |-> l.dir, at |-> <<k, s>>,
                            id |-> CellOf(inodeTable, block, l.dir, k, s).inode,
                            name |-> CellOf(inodeTable, block, l.dir, k, s).name]
    BY LinkIs
  <2>2. l.id = CellOf(inodeTable, block, l.dir, k, s).inode
    BY <2>1
  <2>3. QED
    BY <1>1, <1>t, <2>1, <2>2 DEF Resolve, Sound
<1>2. ASSUME NEW l \in Links, NEW m \in Links, l.id = m.id
      PROVE  l = m
  <2>1. PICK k, s : /\ Named(inodeTable, block, l.dir, k, s)
                    /\ l = [dir |-> l.dir, at |-> <<k, s>>,
                            id |-> CellOf(inodeTable, block, l.dir, k, s).inode,
                            name |-> CellOf(inodeTable, block, l.dir, k, s).name]
    BY LinkIs
  <2>2. PICK j, t : /\ Named(inodeTable, block, m.dir, j, t)
                    /\ m = [dir |-> m.dir, at |-> <<j, t>>,
                            id |-> CellOf(inodeTable, block, m.dir, j, t).inode,
                            name |-> CellOf(inodeTable, block, m.dir, j, t).name]
    BY LinkIs
  <2>3. CellOf(inodeTable, block, l.dir, k, s).inode = CellOf(inodeTable, block, m.dir, j, t).inode
    BY <1>2, <2>1, <2>2
  <2>4. l.dir = m.dir /\ k = j /\ s = t
    BY <1>t, <2>1, <2>2, <2>3 DEF Once
  <2>5. QED
    BY <2>1, <2>2, <2>4
<1>3. QED
  BY <1>1, <1>2 DEF NamesResolve

LEMMA PointersFollow ==
    ASSUME CrashInv
    PROVE  PointersMarked
  BY ImageGood DEF TreeOK, Marked, PointersMarked, Sound, Refs, Pointers

LEMMA BlocksFollow ==
    ASSUME CrashInv
    PROVE  NoSharedBlock
  BY ImageGood DEF TreeOK, Apart, NoSharedBlock

LEMMA DirsFollow ==
    ASSUME CrashInv
    PROVE  DirsServable
<1>t. NoBytes(inodeTable, block, Hurt) /\ Dotted(inodeTable, block, Hurt)
  BY ImageGood DEF TreeOK
<1>1. ASSUME NEW d \in DirInodes \cap Sound, NEW p \in Positions(inodeTable[d])
      PROVE  CellAt(inodeTable[d], block, p).name # FileBytes
  BY <1>t DEF NoBytes, DirInodes, Sound, Positions, Pointers, CellAt, CellOf
<1>2. ASSUME NEW l \in Links, l.id \in DirInodes \cap Sound
      PROVE  /\ block[inodeTable[l.id].direct[0]][0] = [inode |-> l.id, name |-> Dot]
             /\ block[inodeTable[l.id].direct[0]][1] = [inode |-> l.dir, name |-> DotDot]
  <2>1. PICK k, s : /\ Named(inodeTable, block, l.dir, k, s)
                    /\ l = [dir |-> l.dir, at |-> <<k, s>>,
                            id |-> CellOf(inodeTable, block, l.dir, k, s).inode,
                            name |-> CellOf(inodeTable, block, l.dir, k, s).name]
    BY LinkIs
  <2>2. l.id = CellOf(inodeTable, block, l.dir, k, s).inode
    BY <2>1
  <2>3. DotsIn(inodeTable, block, l.id, l.dir)
    BY <1>2, <1>t, <2>1, <2>2 DEF Dotted, DirInodes, Sound
  <2>4. QED
    BY <2>3 DEF DotsIn, CellOf
<1>3. QED
  BY <1>1, <1>2 DEF DirsServable

LEMMA CountersFollow ==
    ASSUME CrashInv
    PROVE  CountersNeverShort
  BY ImageGood DEF Enough, CountersNeverShort

\* The image keeps its types wherever the process dies.
THEOREM TypeCorrect == SpecBeforeReuse => []TypeOK
  BY Invariance, TypeFollows, PTL

\* Wherever the process dies between two block writes, each name has its inode,
\* marked and not zeroed, but for the name that was being removed, and no inode
\* has two names.
THEOREM NamesCorrect == SpecBeforeReuse => []NamesResolve
  BY Invariance, NamesFollow, PTL

\* Nor does a pointer lead to a block whose bit is clear, but in the inode that
\* was being removed or shortened.
THEOREM PointersCorrect == SpecBeforeReuse => []PointersMarked
  BY Invariance, PointersFollow, PTL

\* No death leaves two pointers to one block.
THEOREM BlocksCorrect == SpecBeforeReuse => []NoSharedBlock
  BY Invariance, BlocksFollow, PTL

\* A directory with a name has its dots, and no directory shows a file's bytes.
THEOREM DirsCorrect == SpecBeforeReuse => []DirsServable
  BY Invariance, DirsFollow, PTL

\* The counters on disk never fall short of what is free.
THEOREM CountersCorrect == SpecBeforeReuse => []CountersNeverShort
  BY Invariance, CountersFollow, PTL

-----------------------------------------------------------------------------
(* Every callback is atomic for the tree of names *)

\* The definitions of module MiniFSCrash, for any table and blocks.
LinksOf(it, bl) ==
    UNION {{[dir |-> d, at |-> p, id |-> CellAt(it[d], bl, p).inode, name |-> CellAt(it[d], bl, p).name] :
               p \in {q \in Positions(it[d]) : CellAt(it[d], bl, q).name \notin {NoName, Dot, DotDot}}} :
           d \in {e \in Inodes : it[e].type = "DIR"}}

InUseLinks(it, bl) == {l \in LinksOf(it, bl) : it[l.id].type # "FREE"}
EntriesOf(it, bl)  == {[dir |-> l.dir, name |-> l.name, id |-> l.id] : l \in InUseLinks(it, bl)}
DirsOf(it, bl) ==
    {d \in {Root} \cup {l.id : l \in InUseLinks(it, bl)} : d \in {e \in Inodes : it[e].type = "DIR"}}

AreEntries(S, it, bl) ==
    \A x : x \in S <=> \E d, n, i : x = [dir |-> d, name |-> n, id |-> i] /\ InEntries(it, bl, d, n, i)

AreDirs(D, it, bl) == \A i : i \in D <=> i \in Inodes /\ it[i].type = "DIR" /\ OfTree(it, bl, i)

LEMMA ViewsAre ==
    /\ TreeEntries = EntriesOf(inodeTable, block) /\ TreeDirs = DirsOf(inodeTable, block)
    /\ TreeEntries' = EntriesOf(inodeTable', block') /\ TreeDirs' = DirsOf(inodeTable', block')
<1>1. Links = LinksOf(inodeTable, block) /\ Links' = LinksOf(inodeTable', block')
  BY DEF Links, LinksOf, DirInodes, CellAt, Positions, Pointers
<1>2. /\ TreeLinks = InUseLinks(inodeTable, block)
      /\ TreeLinks' = InUseLinks(inodeTable', block')
  BY <1>1 DEF TreeLinks, InUseLinks
<1>3. QED
  BY <1>2 DEF TreeEntries, TreeDirs, EntriesOf, DirsOf, DirInodes

\* The links are the named entries, each once.
LEMMA LinksNamed ==
    ASSUME NEW it, NEW bl, NEW l
    PROVE  l \in LinksOf(it, bl) <=>
              \E d, k, s : /\ Named(it, bl, d, k, s)
                           /\ l = [dir |-> d, at |-> <<k, s>>, id |-> CellOf(it, bl, d, k, s).inode,
                                   name |-> CellOf(it, bl, d, k, s).name]
<1> DEFINE Link(d, p) == [dir |-> d, at |-> p, id |-> CellAt(it[d], bl, p).inode,
                          name |-> CellAt(it[d], bl, p).name]
           InDir(d) == {p \in Positions(it[d]) : CellAt(it[d], bl, p).name \notin {NoName, Dot, DotDot}}
<1>1. ASSUME l \in LinksOf(it, bl)
      PROVE  \E d, k, s : /\ Named(it, bl, d, k, s)
                          /\ l = [dir |-> d, at |-> <<k, s>>, id |-> CellOf(it, bl, d, k, s).inode,
                                  name |-> CellOf(it, bl, d, k, s).name]
  <2>1. PICK d \in Inodes : it[d].type = "DIR" /\ \E p \in InDir(d) : l = Link(d, p)
    BY <1>1 DEF LinksOf
  <2>2. PICK p \in InDir(d) : l = Link(d, p)
    BY <2>1
  <2>3. p = <<p[1], p[2]>> /\ p[1] \in Idx /\ p[2] \in Slots /\ it[d].direct[p[1]] # NoBlock
    BY DEF Positions, Pointers
  <2>4. CellAt(it[d], bl, p) = CellOf(it, bl, d, p[1], p[2])
    BY DEF CellAt, CellOf
  <2>5. Named(it, bl, d, p[1], p[2])
    BY <2>1, <2>3, <2>4 DEF Named
  <2>6. l = [dir |-> d, at |-> <<p[1], p[2]>>, id |-> CellOf(it, bl, d, p[1], p[2]).inode,
             name |-> CellOf(it, bl, d, p[1], p[2]).name]
    BY <2>2, <2>3, <2>4
  <2>7. QED
    BY <2>5, <2>6
<1>2. ASSUME NEW d, NEW k, NEW s, Named(it, bl, d, k, s),
             l = [dir |-> d, at |-> <<k, s>>, id |-> CellOf(it, bl, d, k, s).inode,
                  name |-> CellOf(it, bl, d, k, s).name]
      PROVE  l \in LinksOf(it, bl)
  <2> DEFINE p == <<k, s>>
  <2>1. CellAt(it[d], bl, p) = CellOf(it, bl, d, k, s)
    BY DEF CellAt, CellOf
  <2>2. d \in Inodes /\ it[d].type = "DIR" /\ p \in Positions(it[d])
    BY <1>2 DEF Named, Positions, Pointers
  <2>3. p \in InDir(d)
    BY <1>2, <2>1, <2>2 DEF Named
  <2>4. l = Link(d, p)
    BY <1>2, <2>1
  <2> HIDE DEF p, Link
  <2>5. l \in {Link(d, q) : q \in InDir(d)}
    BY <2>3, <2>4
  <2>6. LinksOf(it, bl) = UNION {{Link(e, q) : q \in InDir(e)} : e \in {e \in Inodes : it[e].type = "DIR"}}
    BY DEF LinksOf, Link
  <2> HIDE DEF InDir
  <2>7. QED
    BY <2>2, <2>5, <2>6
<1>3. QED
  BY <1>1, <1>2

LEMMA ViewsOf ==
    ASSUME NEW it, NEW bl
    PROVE  AreEntries(EntriesOf(it, bl), it, bl) /\ AreDirs(DirsOf(it, bl), it, bl)
<1>1. ASSUME NEW l \in InUseLinks(it, bl)
      PROVE  InEntries(it, bl, l.dir, l.name, l.id)
  <2>1. l \in LinksOf(it, bl) /\ it[l.id].type # "FREE"
    BY DEF InUseLinks
  <2>2. PICK d, k, s : /\ Named(it, bl, d, k, s)
                       /\ l = [dir |-> d, at |-> <<k, s>>, id |-> CellOf(it, bl, d, k, s).inode,
                               name |-> CellOf(it, bl, d, k, s).name]
    BY <2>1, LinksNamed
  <2>3. /\ l.dir = d /\ l.id = CellOf(it, bl, d, k, s).inode
        /\ l.name = CellOf(it, bl, d, k, s).name
    BY <2>2
  <2>4. QED
    BY <2>1, <2>2, <2>3 DEF InEntries
<1>2. ASSUME NEW d, NEW n, NEW i, InEntries(it, bl, d, n, i)
      PROVE  \E l \in InUseLinks(it, bl) : l.dir = d /\ l.name = n /\ l.id = i
  <2>1. PICK k, s : /\ Named(it, bl, d, k, s)
                    /\ CellOf(it, bl, d, k, s).inode = i /\ CellOf(it, bl, d, k, s).name = n
    BY <1>2 DEF InEntries
  <2> DEFINE l == [dir |-> d, at |-> <<k, s>>, id |-> CellOf(it, bl, d, k, s).inode,
                   name |-> CellOf(it, bl, d, k, s).name]
  <2>2. l \in LinksOf(it, bl)
    BY <2>1, LinksNamed
  <2>3. l.dir = d /\ l.name = n /\ l.id = i
    BY <2>1
  <2> HIDE DEF l
  <2>4. it[i].type # "FREE"
    BY <1>2 DEF InEntries
  <2>5. QED
    BY <2>2, <2>3, <2>4 DEF InUseLinks
<1>3. AreEntries(EntriesOf(it, bl), it, bl)
  <2>1. ASSUME NEW x \in EntriesOf(it, bl)
        PROVE  \E d, n, i : x = [dir |-> d, name |-> n, id |-> i] /\ InEntries(it, bl, d, n, i)
    BY <1>1 DEF EntriesOf
  <2>2. ASSUME NEW d, NEW n, NEW i, InEntries(it, bl, d, n, i)
        PROVE  [dir |-> d, name |-> n, id |-> i] \in EntriesOf(it, bl)
    BY <1>2, <2>2 DEF EntriesOf
  <2>3. QED
    BY <2>1, <2>2 DEF AreEntries
<1>4. \A i : i \in {Root} \cup {l.id : l \in InUseLinks(it, bl)} <=> OfTree(it, bl, i)
  BY <1>1, <1>2 DEF OfTree
<1>5. AreDirs(DirsOf(it, bl), it, bl)
  BY <1>4 DEF AreDirs, DirsOf
<1>6. QED
  BY <1>3, <1>5

\* The abstract steps, of the entries and directories given.
AddStep(S, D, S2, D2, e) ==
    /\ e.dir \in D /\ e.name \in ShortNames
    /\ e.id \in Inodes \ ({Root} \cup {f.id : f \in S})
    /\ \A f \in S : ~(f.dir = e.dir /\ f.name = e.name)
    /\ S2 = S \cup {e}
    /\ D2 \in {D, D \cup {e.id}}
    /\ e \in S2 \ S

RemoveStep(S, D, S2, D2, e) ==
    /\ \A f \in S : f.dir # e.id
    /\ S2 = S \ {e}
    /\ D2 = D \ {e.id}
    /\ e \in S \ S2

LEMMA KeptMap ==
    ASSUME NEW it, NEW bl, NEW it2, NEW bl2, Kept(it, bl, it2, bl2),
           NEW S, NEW D, AreEntries(S, it, bl), AreDirs(D, it, bl),
           NEW S2, NEW D2, AreEntries(S2, it2, bl2), AreDirs(D2, it2, bl2)
    PROVE  S2 = S /\ D2 = D
<1>1. \A x : x \in S2 <=> x \in S
  BY DEF AreEntries, Kept
<1>2. \A i : OfTree(it2, bl2, i) <=> OfTree(it, bl, i)
  BY DEF OfTree, Kept
<1>3. \A i : i \in D2 <=> i \in D
  BY <1>2 DEF AreDirs, Kept, SameDirs
<1>4. QED
  BY <1>1, <1>3

\* The fields of an entry.
LEMMA EntryFields ==
    ASSUME NEW d, NEW n, NEW i
    PROVE  /\ [dir |-> d, name |-> n, id |-> i].dir = d
           /\ [dir |-> d, name |-> n, id |-> i].name = n
           /\ [dir |-> d, name |-> n, id |-> i].id = i
  OBVIOUS

LEMMA GrownMap ==
    ASSUME NEW it, NEW bl, NEW it2, NEW bl2, NEW par, NEW n, NEW i,
           Grown(it, bl, it2, bl2, par, n, i), par \in Inodes,
           NEW S, NEW D, AreEntries(S, it, bl), AreDirs(D, it, bl),
           NEW S2, NEW D2, AreEntries(S2, it2, bl2), AreDirs(D2, it2, bl2)
    PROVE  AddStep(S, D, S2, D2, [dir |-> par, name |-> n, id |-> i])
<1> DEFINE e == [dir |-> par, name |-> n, id |-> i]
<1>1. e.dir = par /\ e.name = n /\ e.id = i /\ e = [dir |-> par, name |-> n, id |-> i]
  OBVIOUS
<1>2. par \in D /\ n \in ShortNames /\ i \in Inodes /\ i # Root
  BY DEF Grown, AreDirs
<1>3. ASSUME NEW f \in S PROVE f.id # i /\ ~(f.dir = par /\ f.name = n)
  <2>1. PICK d, m, j : f = [dir |-> d, name |-> m, id |-> j] /\ InEntries(it, bl, d, m, j)
    BY DEF AreEntries
  <2>2. f.dir = d /\ f.name = m /\ f.id = j
    BY <2>1, EntryFields
  <2>3. j # i
    BY <2>1 DEF Grown, OfTree
  <2>4. ~(d = par /\ m = n)
    BY <2>1 DEF Grown
  <2>5. QED
    BY <2>2, <2>3, <2>4
<1> HIDE DEF e
<1>4. S2 = S \cup {e}
  <2>1. ASSUME NEW x \in S2 PROVE x \in S \cup {e}
    <3>1. PICK d, m, j : x = [dir |-> d, name |-> m, id |-> j] /\ InEntries(it2, bl2, d, m, j)
      BY DEF AreEntries
    <3>2. InEntries(it, bl, d, m, j) \/ (d = par /\ m = n /\ j = i)
      BY <3>1 DEF Grown
    <3>3. CASE InEntries(it, bl, d, m, j)
      BY <3>1, <3>3 DEF AreEntries
    <3>4. CASE d = par /\ m = n /\ j = i
      BY <1>1, <3>1, <3>4
    <3>5. QED
      BY <3>2, <3>3, <3>4
  <2>2. ASSUME NEW x \in S PROVE x \in S2
    BY DEF AreEntries, Grown
  <2>3. e \in S2
    BY <1>1 DEF AreEntries, Grown
  <2>4. QED
    BY <2>1, <2>2, <2>3
<1>5. e \notin S
  BY <1>1, <1>3
<1>6. \A j : OfTree(it2, bl2, j) <=> OfTree(it, bl, j) \/ j = i
  BY DEF OfTree, Grown
<1>7. \A j : OfTree(it, bl, j) => (it2[j].type = "DIR" <=> it[j].type = "DIR")
  BY DEF Grown, SameDirs
<1>8. ~OfTree(it, bl, i)
  BY DEF Grown
<1>9. D2 = IF it2[i].type = "DIR" THEN D \cup {i} ELSE D
  BY <1>2, <1>6, <1>7, <1>8 DEF AreDirs
<1>10. e.id \in Inodes \ ({Root} \cup {f.id : f \in S})
  BY <1>1, <1>2, <1>3
<1>11. AddStep(S, D, S2, D2, e)
  BY <1>1, <1>2, <1>3, <1>4, <1>5, <1>9, <1>10 DEF AddStep
<1>12. QED
  BY <1>11 DEF e

LEMMA ShrunkMap ==
    ASSUME NEW it, NEW bl, NEW it2, NEW bl2, NEW par, NEW n, NEW i,
           Shrunk(it, bl, it2, bl2, par, n, i),
           NEW S, NEW D, AreEntries(S, it, bl), AreDirs(D, it, bl),
           NEW S2, NEW D2, AreEntries(S2, it2, bl2), AreDirs(D2, it2, bl2)
    PROVE  RemoveStep(S, D, S2, D2, [dir |-> par, name |-> n, id |-> i])
<1> DEFINE e == [dir |-> par, name |-> n, id |-> i]
<1>1. /\ e.id = i /\ e.dir = par /\ e.name = n
      /\ \A d, m, j : [dir |-> d, name |-> m, id |-> j] = e <=> d = par /\ m = n /\ j = i
  BY EntryFields
<1>2. i # Root /\ e \in S
  BY DEF Shrunk, AreEntries
<1> HIDE DEF e
<1>3. ASSUME NEW f \in S PROVE f.dir # i
  <2>1. PICK d, m, j : f = [dir |-> d, name |-> m, id |-> j] /\ InEntries(it, bl, d, m, j)
    BY DEF AreEntries
  <2>2. f.dir = d /\ d # i
    BY <2>1, EntryFields DEF Shrunk
  <2>3. QED
    BY <2>2
<1>4. ASSUME NEW d, NEW m, NEW j
      PROVE  InEntries(it2, bl2, d, m, j) <=>
                InEntries(it, bl, d, m, j) /\ [dir |-> d, name |-> m, id |-> j] # e
  BY <1>1 DEF Shrunk
<1>5. S2 = S \ {e}
  <2>1. ASSUME NEW x \in S2 PROVE x \in S /\ x # e
    BY <1>4 DEF AreEntries
  <2>2. ASSUME NEW x \in S, x # e PROVE x \in S2
    BY <1>4, <2>2 DEF AreEntries
  <2>3. QED
    BY <2>1, <2>2
<1>6. \A j : OfTree(it2, bl2, j) <=> OfTree(it, bl, j) /\ j # i
  <2>1. ASSUME NEW j, OfTree(it2, bl2, j) PROVE OfTree(it, bl, j) /\ j # i
    BY <1>2, <2>1 DEF OfTree, Shrunk
  <2>2. ASSUME NEW j, OfTree(it, bl, j), j # i PROVE OfTree(it2, bl2, j)
    BY <2>2 DEF OfTree, Shrunk
  <2>3. QED
    BY <2>1, <2>2
<1>7. \A j : OfTree(it2, bl2, j) => (it[j].type = "DIR" <=> it2[j].type = "DIR")
  BY DEF Shrunk, SameDirs
<1>8. D2 = D \ {i}
  BY <1>6, <1>7 DEF AreDirs
<1>9. RemoveStep(S, D, S2, D2, e)
  BY <1>1, <1>2, <1>3, <1>5, <1>8 DEF RemoveStep
<1>10. QED
  BY <1>9 DEF e

\* A write of a callback changes one entry at most; nothing else changes the
\* image.
LEMMA NextMoves ==
    ASSUME LongNames = {}, CrashInv, [BeforeReuse /\ Next]_vars
    PROVE  TreeStep(inodeTable, block, inodeTable', block')
<1>1. CASE Step /\ BeforeReuse
  <2>1. mounted /\ torn = {} /\ pending # <<>> /\ Safe(Image, pending, deleting, sb)
    BY <1>1 DEF CrashInv, BeforeReuse, Step
  <2>2. Head(pending) \in BlockWrites /\ Moves(Image, Written(Image, Head(pending), sb))
    BY <2>1, SafePop
  <2>3. Moves(Image, Image')
    BY <1>1, <2>2, StepWrites
  <2>4. Image.it = inodeTable /\ Image.bl = block /\ Image'.it = inodeTable' /\ Image'.bl = block'
    BY DEF Image, Im
  <2>5. QED
    BY <2>3, <2>4 DEF Moves
<1>2. CASE inodeTable' = inodeTable /\ block' = block
  <2>1. Kept(inodeTable, block, inodeTable, block)
    BY DEF Kept, SameDirs
  <2>2. QED
    BY <1>2, <2>1 DEF TreeStep
<1>3. CASE UNCHANGED vars
  BY <1>2, <1>3 DEF vars
<1>4. CASE BeforeReuse /\ Next
  <2>1. \A w, c, V : Start(w, c, V) => inodeTable' = inodeTable /\ block' = block
    BY DEF Start, image
  <2>2. ASSUME NEW par \in Inodes, NEW n \in Names,
               \/ Create(par, n) \/ Mkdir(par, n) \/ Delete(par, n)
               \/ \E keep \in 0 .. DirectBlocks : Truncate(par, n, keep)
               \/ \E k \in Idx : Write(par, n, k)
        PROVE  inodeTable' = inodeTable /\ block' = block
    <3>1. CASE Create(par, n)
      BY <2>1, <3>1 DEF Create
    <3>2. CASE Mkdir(par, n)
      BY <2>1, <3>2 DEF Mkdir
    <3>3. CASE Delete(par, n)
      BY <2>1, <3>3 DEF Delete
    <3>4. CASE \E keep \in 0 .. DirectBlocks : Truncate(par, n, keep)
      BY <2>1, <3>4 DEF Truncate
    <3>5. CASE \E k \in Idx : Write(par, n, k)
      BY <2>1, <3>5 DEF Write
    <3>6. QED
      BY <2>2, <3>1, <3>2, <3>3, <3>4, <3>5
  <2>3. Kill \/ Mount => inodeTable' = inodeTable /\ block' = block
    BY DEF Kill, Mount, image
  <2>4. QED
    BY <1>1, <1>2, <1>4, <2>2, <2>3 DEF Next
<1>5. QED
  BY <1>3, <1>4

\* Every step is a step of the abstract tree, or none.
LEMMA TreeMap ==
    LongNames = {} /\ CrashInv /\ [BeforeReuse /\ Next]_vars
        => [Tree!Names_Next]_<<TreeEntries, TreeDirs>>
<1> SUFFICES ASSUME LongNames = {}, CrashInv, [BeforeReuse /\ Next]_vars
             PROVE  [Tree!Names_Next]_<<TreeEntries, TreeDirs>>
  OBVIOUS
<1>1. TreeStep(inodeTable, block, inodeTable', block')
  BY NextMoves
<1>2. /\ AreEntries(TreeEntries, inodeTable, block) /\ AreDirs(TreeDirs, inodeTable, block)
      /\ AreEntries(TreeEntries', inodeTable', block') /\ AreDirs(TreeDirs', inodeTable', block')
  BY ViewsAre, ViewsOf
<1>t. ImageType(inodeBitmap, blockBitmap, inodeTable, block)
  BY ImageGood DEF TreeOK
<1>3. CASE Kept(inodeTable, block, inodeTable', block')
  BY <1>2, <1>3, KeptMap
<1>4. ASSUME NEW par, NEW n, NEW i, Grown(inodeTable, block, inodeTable', block', par, n, i)
      PROVE  Tree!Names_Next
  <2> DEFINE e == [dir |-> par, name |-> n, id |-> i]
  <2>0. OfTree(inodeTable, block, par)
    BY <1>4 DEF Grown
  <2>1. par \in Inodes
    <3>1. CASE par = Root
      BY <3>1, Basics
    <3>2. CASE \E d, k, s : /\ Named(inodeTable, block, d, k, s)
                            /\ CellOf(inodeTable, block, d, k, s).inode = par
      <4>1. PICK d, k, s : /\ Named(inodeTable, block, d, k, s)
                           /\ CellOf(inodeTable, block, d, k, s).inode = par
        BY <3>2
      <4>2. CellOf(inodeTable, block, d, k, s) \in Cell
        BY <1>t, <4>1, Fields DEF Named, CellOf
      <4>3. QED
        BY <4>1, <4>2 DEF Cell
    <3>3. QED
      BY <2>0, <3>1, <3>2 DEF OfTree, InEntries
  <2>2. AddStep(TreeEntries, TreeDirs, TreeEntries', TreeDirs', e)
    BY <1>2, <1>4, <2>1, GrownMap
  <2> HIDE DEF e
  <2>3. e \in TreeEntries' \ TreeEntries /\ Tree!Add(e)
    BY <2>2 DEF AddStep, Tree!Add, Tree!Known
  <2>4. QED
    BY <2>3 DEF Tree!Names_Next
<1>5. ASSUME NEW par, NEW n, NEW i, Shrunk(inodeTable, block, inodeTable', block', par, n, i)
      PROVE  Tree!Names_Next
  <2> DEFINE e == [dir |-> par, name |-> n, id |-> i]
  <2>1. RemoveStep(TreeEntries, TreeDirs, TreeEntries', TreeDirs', e)
    BY <1>2, <1>5, ShrunkMap
  <2> HIDE DEF e
  <2>2. e \in TreeEntries \ TreeEntries' /\ Tree!Remove(e)
    BY <2>1 DEF RemoveStep, Tree!Remove
  <2>3. QED
    BY <2>2 DEF Tree!Names_Next
<1>6. QED
  BY <1>1, <1>3, <1>4, <1>5 DEF TreeStep

\* A fresh image is the tree of one directory.
LEMMA TreeStart == Init => Tree!Names_Init
<1> SUFFICES ASSUME Init PROVE Tree!Names_Init
  OBVIOUS
<1>1. AreEntries(TreeEntries, inodeTable, block) /\ AreDirs(TreeDirs, inodeTable, block)
  BY ViewsAre, ViewsOf
<1>2. ImageType(inodeBitmap, blockBitmap, inodeTable, block) /\ Hurt = {} /\ inodeBitmap = {Root}
  BY InitCrash, ImageGood DEF TreeOK, Init, Hurt
<1>3. \A d, n, i : ~InEntries(inodeTable, block, d, n, i)
  <2>1. Resolve(inodeBitmap, inodeTable, block, {})
    BY <1>2, InitCrash, ImageGood DEF TreeOK
  <2>2. QED
    BY <1>2, <2>1 DEF Resolve, InEntries
<1>4. TreeEntries = {}
  BY <1>1, <1>3 DEF AreEntries
<1>5. inodeTable[Root].type = "DIR" /\ Root \in Inodes
  BY <1>2, Basics DEF ImageType
<1>6. TreeDirs = {Root}
  BY <1>1, <1>3, <1>5 DEF AreDirs, OfTree
<1>7. QED
  BY <1>4, <1>6 DEF Tree!Names_Init

\* With names that fit their slot every callback whose path is not cut is atomic
\* for the tree, wherever the process dies: up to the mount of an image with a cut deletion
\* one block write of a callback makes its whole change, and the others change
\* nothing that a path shows.
THEOREM CallbacksCorrect == LongNames = {} /\ SpecBeforeReuse => CallbacksAtomic
<1>1. CASE LongNames = {}
  <2>1. CrashInv /\ [BeforeReuse /\ Next]_vars => [Tree!Names_Next]_<<TreeEntries, TreeDirs>>
    BY <1>1, TreeMap
  <2>2. QED
    BY <2>1, TreeStart, Invariance, PTL DEF SpecBeforeReuse, CallbacksAtomic, Tree!Names_Spec
<1>2. CASE LongNames # {}
  BY <1>2
<1>3. QED
  BY <1>1, <1>2
=============================================================================
