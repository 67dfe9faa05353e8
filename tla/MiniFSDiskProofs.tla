-------------------------- MODULE MiniFSDiskProofs --------------------------
(***************************************************************************)
(* Lemmas about the operators of module MiniFSDisk, for the proofs about   *)
(* the two modules that are built from them: the types of what they yield, *)
(* blocks_used, and the directories that paths resolve to.                 *)
(***************************************************************************)
EXTENDS MiniFSDisk, FiniteSetTheorems, WellFoundedInduction, TLAPS

USE DEF Inodes, DataBlocks, Idx, Slots, Root, NoBlock

-----------------------------------------------------------------------------
(* Lemmas about the structures *)

\* The number of pointers in a set of pointer positions is a natural number.
LEMMA IdxCardinality ==
    ASSUME NEW K \in SUBSET Idx
    PROVE  IsFiniteSet(K) /\ Cardinality(K) \in Nat
<1>1. IsFiniteSet(Idx)
  BY GeometryAssumption, FS_Interval
<1>2. IsFiniteSet(K)
  BY <1>1, FS_Subset
<1>3. QED
  BY <1>2, FS_CardinalityType

\* A visited slot lies in a data block the directory points to.
LEMMA PositionType ==
    ASSUME NEW dir \in Inode, NEW p \in Positions(dir)
    PROVE  /\ p[1] \in Idx
           /\ p[2] \in Slots
           /\ dir.direct[p[1]] \in DataBlocks
  BY DEF Positions, Pointers, Inode

\* A lookup yields inode numbers.
LEMMA LookupType ==
    ASSUME NEW it \in [Inodes -> Inode], NEW bl \in [DataBlocks -> [Slots -> Cell]],
           NEW d \in Inodes, NEW n, NEW i \in Lookup(it, bl, d, n)
    PROVE  i \in Inodes
<1>1. PICK p \in FirstPos(Matches(it[d], bl, n)) : i = CellAt(it[d], bl, p).inode
  BY DEF Lookup
<1>2. p \in Positions(it[d])
  BY <1>1 DEF FirstPos, Matches
<1>3. it[d] \in Inode
  OBVIOUS
<1>4. p[2] \in Slots /\ it[d].direct[p[1]] \in DataBlocks
  BY <1>2, <1>3, PositionType
<1>5. QED
  BY <1>1, <1>4 DEF CellAt, Cell

\* The name a slot stores is a short name.
LEMMA StoredType ==
    ASSUME NEW n \in Names
    PROVE  Stored(n) \in ShortNames
  BY NameAssumption DEF Stored, Names

\* The fixed contents are inodes and blocks.
LEMMA ContentsType ==
    /\ FreeInode \in Inode
    /\ NewFile \in Inode
    /\ \A b \in DataBlocks : NewDir(b) \in Inode
    /\ FreeCell \in Cell
    /\ ZeroBlock \in [Slots -> Cell]
    /\ DataBlock \in [Slots -> Cell]
    /\ \A i, j \in Inodes : DotsBlock(i, j) \in [Slots -> Cell]
<1>1. NoPointers \in [Idx -> DataBlocks \cup {NoBlock}]
  BY DEF NoPointers
<1>2. FreeInode \in Inode /\ NewFile \in Inode
  BY <1>1 DEF FreeInode, NewFile, Inode
<1>3. ASSUME NEW b \in DataBlocks PROVE NewDir(b) \in Inode
  BY <1>1 DEF NewDir, Inode
<1>4. FreeCell \in Cell
  BY GeometryAssumption DEF FreeCell, Cell
<1>5. ZeroBlock \in [Slots -> Cell]
  BY <1>4 DEF ZeroBlock
<1>6. DataBlock \in [Slots -> Cell]
  BY GeometryAssumption DEF DataBlock, Cell
<1>7. ASSUME NEW i \in Inodes, NEW j \in Inodes PROVE DotsBlock(i, j) \in [Slots -> Cell]
  BY <1>5 DEF DotsBlock, Cell
<1>8. QED
  BY <1>2, <1>3, <1>4, <1>5, <1>6, <1>7

\* The counter updates yield counters.
LEMMA CountersType ==
    ASSUME NEW s \in Counters, NEW K \in SUBSET Idx
    PROVE  /\ TakeBlock(s) \in Counters
           /\ TakeInode(s) \in Counters
           /\ GiveBlocks(s, K) \in Counters
           /\ GiveInode(s) \in Counters
<1>1. Cardinality(K) \in Nat
  BY IdxCardinality
<1>2. QED
  BY <1>1 DEF Counters, TakeBlock, TakeInode, GiveBlocks, GiveInode, Taken

\* Setting a pointer yields an inode.
LEMMA WithBlockType ==
    ASSUME NEW ino \in Inode, NEW k \in Idx, NEW b \in DataBlocks
    PROVE  WithBlock(ino, k, b) \in Inode
<1> DEFINE d == [ino.direct EXCEPT ![k] = b]
           u == ino.blocks_used + 1
<1>1. d \in [Idx -> DataBlocks \cup {NoBlock}] /\ u \in Nat
  BY DEF Inode
<1>2. WithBlock(ino, k, b) = [ino EXCEPT !.direct = d, !.blocks_used = u]
  BY DEF WithBlock, Inode
<1> HIDE DEF d, u
<1>3. QED
  BY <1>1, <1>2 DEF Inode

-----------------------------------------------------------------------------
(* blocks_used *)

Used(ino) == ino.blocks_used = Cardinality(Pointers(ino))

\* What mkfs_mini, mfs_create and mfs_mkdir write is counted right.
LEMMA NewUsed ==
    /\ Used(FreeInode)
    /\ Used(NewFile)
    /\ \A b \in DataBlocks : Used(NewDir(b))
<1>1. Pointers(FreeInode) = {} /\ Pointers(NewFile) = {}
  BY DEF Pointers, FreeInode, NewFile, NoPointers
<1>2. ASSUME NEW b \in DataBlocks PROVE Pointers(NewDir(b)) = {0}
  BY GeometryAssumption DEF Pointers, NewDir, NoPointers
<1>3. Cardinality({}) = 0 /\ Cardinality({0}) = 1
  BY FS_EmptySet, FS_Singleton
<1>4. FreeInode.blocks_used = 0 /\ NewFile.blocks_used = 0
  BY DEF FreeInode, NewFile
<1>5. ASSUME NEW b \in DataBlocks PROVE NewDir(b).blocks_used = 1
  BY DEF NewDir
<1>6. QED
  BY <1>1, <1>2, <1>3, <1>4, <1>5 DEF Used

\* Filling an empty pointer adds one to both sides.
LEMMA WithBlockUsed ==
    ASSUME NEW ino \in Inode, NEW k \in Holes(ino), NEW b \in DataBlocks, Used(ino)
    PROVE  Used(WithBlock(ino, k, b))
<1> DEFINE P == Pointers(ino)
<1>1. k \in Idx /\ k \notin P
  BY DEF Holes, Pointers
<1>2. WithBlock(ino, k, b).direct = [ino.direct EXCEPT ![k] = b]
  BY DEF WithBlock, Inode
<1>3. Pointers(WithBlock(ino, k, b)) = P \cup {k}
  BY <1>1, <1>2, GeometryAssumption DEF Pointers, Inode
<1>4. IsFiniteSet(P)
  BY IdxCardinality DEF Pointers
<1> HIDE DEF P
<1>5. Cardinality(P \cup {k}) = Cardinality(P) + 1
  BY <1>1, <1>4, FS_AddElement
<1>6. WithBlock(ino, k, b).blocks_used = ino.blocks_used + 1
  BY DEF WithBlock, Inode
<1>7. QED
  BY <1>3, <1>5, <1>6 DEF Used, P

-----------------------------------------------------------------------------
(* The directories of the paths of k bytes, and of all paths that are not   *)
(* cut: a subset of every set that has the root and, with a directory, the  *)
(* directories that a lookup in it finds.                                   *)

NamedChild(it, bl, d, n, i) == i \in Lookup(it, bl, d, n) /\ it[i].type = "DIR"

Child(it, bl, d, i) == \E n \in ShortNames : NamedChild(it, bl, d, n, i)

\* The step of the recursion of DirsAt, where g holds what shorter paths reach.
StepTo(it, bl, g, k) ==
    LET named(n) == UNION {Lookup(it, bl, d, n) : d \in g[k - 1 - Length[n]]}
        fits     == {n \in ShortNames : Length[n] < k}
    IN  {i \in UNION {named(n) : n \in fits} : it[i].type = "DIR"}

\* g holds what paths of at most n bytes reach.
ByBytes(it, bl, g, n) ==
    g = [k \in 0 .. n |-> IF k = 0 THEN {Root} ELSE StepTo(it, bl, g, k)]

\* A set of numbers that is not empty has a least one.
LEMMA LeastNat ==
    ASSUME NEW K \in SUBSET Nat, K # {}
    PROVE  \E k \in K : \A j \in K : k <= j
<1> DEFINE R == OpToRel(<, Nat)
<1>1. IsWellFoundedOn(R, Nat)
  BY NatLessThanWellFounded
<1>2. \A j, k \in K : j < k => <<j, k>> \in R
  BY DEF OpToRel
<1> HIDE DEF R
<1>3. PICK k \in K : \A j \in K : ~(<<j, k>> \in R)
  BY <1>1, WFMin
<1>4. ASSUME NEW j \in K PROVE k <= j
  <2>1. ~(j < k)
    BY <1>2, <1>3
  <2>2. QED
    BY <2>1
<1>5. QED
  BY <1>4

\* A name that fits in fewer than k bytes leaves a shorter path before it.
LEMMA ShorterPath ==
    ASSUME NEW k \in Nat, NEW n \in ShortNames, Length[n] < k
    PROVE  k - 1 - Length[n] \in Nat /\ k - 1 - Length[n] < k
<1>1. Length[n] \in Nat \ {0}
  BY PathAssumption
<1>2. QED
  BY <1>1

\* A step looks at shorter paths only.
LEMMA StepSame ==
    ASSUME NEW it, NEW bl, NEW g, NEW h, NEW k \in Nat, \A j \in 0 .. k - 1 : g[j] = h[j]
    PROVE  StepTo(it, bl, g, k) = StepTo(it, bl, h, k)
<1> DEFINE named(f, n) == UNION {Lookup(it, bl, d, n) : d \in f[k - 1 - Length[n]]}
           fits        == {n \in ShortNames : Length[n] < k}
<1>1. ASSUME NEW n \in fits PROVE g[k - 1 - Length[n]] = h[k - 1 - Length[n]]
  <2>1. k - 1 - Length[n] \in 0 .. k - 1
    BY ShorterPath
  <2>2. QED
    BY <2>1
<1>2. ASSUME NEW n \in fits PROVE named(g, n) = named(h, n)
  BY <1>1
<1>3. StepTo(it, bl, g, k) = {i \in UNION {named(g, n) : n \in fits} : it[i].type = "DIR"}
  BY DEF StepTo
<1>4. StepTo(it, bl, h, k) = {i \in UNION {named(h, n) : n \in fits} : it[i].type = "DIR"}
  BY DEF StepTo
<1> HIDE DEF named, fits
<1>5. {named(g, n) : n \in fits} = {named(h, n) : n \in fits}
  BY <1>2
<1>6. QED
  BY <1>3, <1>4, <1>5

\* The recursion has a solution for every number of bytes.
LEMMA BytesExist ==
    ASSUME NEW it, NEW bl, NEW n \in Nat
    PROVE  \E g : ByBytes(it, bl, g, n)
<1> DEFINE K == {m \in Nat : ~\E g : ByBytes(it, bl, g, m)}
<1> SUFFICES ASSUME K # {} PROVE FALSE
  OBVIOUS
<1>1. PICK m \in K : \A j \in K : m <= j
  BY LeastNat
<1>2. m \in Nat /\ ~\E g : ByBytes(it, bl, g, m)
  OBVIOUS
<1>3. CASE m = 0
  <2> DEFINE g == [k \in 0 .. 0 |-> {Root}]
  <2>1. ByBytes(it, bl, g, 0)
    BY DEF ByBytes
  <2>2. QED
    BY <1>2, <1>3, <2>1
<1>4. CASE m # 0
  <2>1. m - 1 \in Nat /\ m - 1 \notin K
    BY <1>1, <1>2, <1>4
  <2>2. PICK g : ByBytes(it, bl, g, m - 1)
    BY <2>1
  <2> DEFINE h == [k \in 0 .. m |-> IF k = m THEN StepTo(it, bl, g, m) ELSE g[k]]
  <2>3. \A j \in 0 .. m - 1 : h[j] = g[j]
    BY <1>2
  <2>4. h[m] = StepTo(it, bl, g, m)
    BY <1>2
  <2>5. h = [k \in 0 .. m |-> h[k]]
    OBVIOUS
  <2> HIDE DEF h
  <2>6. ASSUME NEW k \in 0 .. m
        PROVE  h[k] = IF k = 0 THEN {Root} ELSE StepTo(it, bl, h, k)
    <3>1. CASE k = m
      <4>1. StepTo(it, bl, h, m) = StepTo(it, bl, g, m)
        BY <1>2, <2>3, StepSame
      <4>2. QED
        BY <1>4, <2>4, <3>1, <4>1
    <3>2. CASE k # m
      <4>1. k \in 0 .. m - 1 /\ k \in Nat
        BY <1>2, <3>2
      <4>2. g[k] = IF k = 0 THEN {Root} ELSE StepTo(it, bl, g, k)
        BY <2>2, <4>1 DEF ByBytes
      <4>3. \A j \in 0 .. k - 1 : h[j] = g[j]
        BY <1>2, <2>3, <4>1
      <4>4. StepTo(it, bl, h, k) = StepTo(it, bl, g, k)
        BY <4>1, <4>3, StepSame
      <4>5. QED
        BY <2>3, <4>1, <4>2, <4>4
    <3>3. QED
      BY <3>1, <3>2
  <2>7. ByBytes(it, bl, h, m)
    BY <2>5, <2>6 DEF ByBytes
  <2>8. QED
    BY <1>2, <2>7
<1>5. QED
  BY <1>3, <1>4

\* DirsAt is that solution.
LEMMA DirsAtIs ==
    ASSUME NEW it, NEW bl
    PROVE  ByBytes(it, bl, DirsAt(it, bl), PathMax)
<1>1. DirsAt(it, bl) = CHOOSE g : ByBytes(it, bl, g, PathMax)
  BY DEF DirsAt, ByBytes, StepTo
<1>2. \E g : ByBytes(it, bl, g, PathMax)
  BY PathAssumption, BytesExist
<1>3. QED
  BY <1>1, <1>2

\* Where a path of k bytes ends: at the root, or one name below where a shorter
\* one does.
LEMMA DirsAtSteps ==
    ASSUME NEW it, NEW bl
    PROVE  /\ DirsAt(it, bl)[0] = {Root}
           /\ \A k \in 0 .. PathMax : k # 0 =>
                 \A i : i \in DirsAt(it, bl)[k] <=>
                    \E n \in ShortNames : /\ Length[n] < k
                                          /\ \E d \in DirsAt(it, bl)[k - 1 - Length[n]] :
                                                NamedChild(it, bl, d, n, i)
<1> DEFINE f == DirsAt(it, bl)
<1>1. f = [k \in 0 .. PathMax |-> IF k = 0 THEN {Root} ELSE StepTo(it, bl, f, k)]
  BY DirsAtIs DEF ByBytes
<1> HIDE DEF f
<1>2. 0 \in 0 .. PathMax
  BY PathAssumption
<1>3. f[0] = {Root}
  BY <1>1, <1>2
<1>4. ASSUME NEW k \in 0 .. PathMax, k # 0, NEW i
      PROVE  i \in f[k] <=>
                \E n \in ShortNames : /\ Length[n] < k
                                      /\ \E d \in f[k - 1 - Length[n]] : NamedChild(it, bl, d, n, i)
  <2> DEFINE named(n) == UNION {Lookup(it, bl, d, n) : d \in f[k - 1 - Length[n]]}
             fits     == {n \in ShortNames : Length[n] < k}
  <2>1. f[k] = StepTo(it, bl, f, k)
    BY <1>1, <1>4
  <2>2. StepTo(it, bl, f, k) = {j \in UNION {named(n) : n \in fits} : it[j].type = "DIR"}
    BY DEF StepTo
  <2>3. i \in f[k] <=> it[i].type = "DIR" /\ \E n \in fits : i \in named(n)
    BY <2>1, <2>2
  <2>4. \A n : i \in named(n) <=> \E d \in f[k - 1 - Length[n]] : i \in Lookup(it, bl, d, n)
    OBVIOUS
  <2>5. QED
    BY <2>3, <2>4 DEF NamedChild
<1>5. QED
  BY <1>3, <1>4 DEF f

Closed(it, bl, S) == \A d \in S, i \in Inodes : Child(it, bl, d, i) => i \in S

Disks(it, bl) == it \in [Inodes -> Inode] /\ bl \in [DataBlocks -> [Slots -> Cell]]

\* Whatever has the root and the children of what it has, has every directory
\* that a path reaches.
LEMMA PathLeast ==
    ASSUME NEW it, NEW bl, Disks(it, bl), NEW S \in SUBSET Inodes, Root \in S, Closed(it, bl, S),
           NEW k \in 0 .. PathMax
    PROVE  DirsAt(it, bl)[k] \subseteq S
<1> DEFINE f == DirsAt(it, bl)
           K == {j \in Nat : j <= PathMax /\ ~(f[j] \subseteq S)}
<1>1. CASE K = {}
  BY <1>1, PathAssumption
<1>2. CASE K # {}
  <2>1. PICK m \in K : \A j \in K : m <= j
    BY <1>2, LeastNat
  <2>2. m \in Nat /\ m <= PathMax /\ ~(f[m] \subseteq S)
    BY <2>1
  <2>3. m # 0
    BY <2>2, DirsAtSteps
  <2>4. PICK i \in f[m] : i \notin S
    BY <2>2
  <2>5. PICK n \in ShortNames : /\ Length[n] < m
                                /\ \E d \in f[m - 1 - Length[n]] : NamedChild(it, bl, d, n, i)
    <3>1. m \in 0 .. PathMax
      BY <2>2, PathAssumption
    <3> HIDE DEF K
    <3>2. QED
      BY <2>3, <2>4, <3>1, DirsAtSteps
  <2>6. PICK d \in f[m - 1 - Length[n]] : NamedChild(it, bl, d, n, i)
    BY <2>5
  <2>7. m - 1 - Length[n] \in Nat /\ m - 1 - Length[n] < m
    BY <2>2, <2>5, ShorterPath
  <2>8. m - 1 - Length[n] \notin K /\ m - 1 - Length[n] <= PathMax
    BY <2>1, <2>2, <2>7, PathAssumption
  <2>9. d \in S
    BY <2>6, <2>7, <2>8
  <2>10. i \in Inodes
    BY <2>6, <2>9, LookupType DEF NamedChild, Disks
  <2>11. i \in S
    BY <2>6, <2>9, <2>10 DEF Closed, Child
  <2>12. QED
    BY <2>4, <2>11
<1>3. QED
  BY <1>1, <1>2

\* They are inodes.
LEMMA DirsAtType ==
    ASSUME NEW it, NEW bl, Disks(it, bl), NEW k \in 0 .. PathMax
    PROVE  DirsAt(it, bl)[k] \subseteq Inodes
<1>1. Root \in Inodes /\ Closed(it, bl, Inodes)
  BY GeometryAssumption DEF Closed
<1>2. QED
  BY <1>1, PathLeast

\* The directories that paths reach have the root, and are in every set that
\* has the root and with a directory its children.
LEMMA PathDirsAre ==
    ASSUME NEW it, NEW bl, Disks(it, bl)
    PROVE  /\ PathDirs(it, bl) \subseteq Inodes
           /\ Root \in PathDirs(it, bl)
           /\ \A S \in SUBSET Inodes :
                 Root \in S /\ Closed(it, bl, S) => PathDirs(it, bl) \subseteq S
<1>1. \A S \in SUBSET Inodes : Root \in S /\ Closed(it, bl, S) => PathDirs(it, bl) \subseteq S
  BY PathLeast DEF PathDirs
<1>2. PathDirs(it, bl) \subseteq Inodes
  BY DirsAtType DEF PathDirs
<1>3. Root \in PathDirs(it, bl)
  <2>1. 0 \in 0 .. PathMax /\ Root \in DirsAt(it, bl)[0]
    BY DirsAtSteps, PathAssumption
  <2>2. QED
    BY <2>1 DEF PathDirs
<1>4. QED
  BY <1>1, <1>2, <1>3

\* A directory in which a name fits is one that a path reaches.
LEMMA FitsIn ==
    ASSUME NEW it, NEW bl, NEW d, NEW n \in Names, Fits(it, bl, d, n)
    PROVE  d \in PathDirs(it, bl)
<1>1. PICK k \in 0 .. PathMax - 1 - Length[n] : d \in DirsAt(it, bl)[k]
  BY DEF Fits
<1>2. Length[n] \in Nat /\ PathMax \in Nat
  BY PathAssumption DEF Names
<1>3. k \in 0 .. PathMax
  BY <1>2
<1>4. QED
  BY <1>1, <1>3 DEF PathDirs
=============================================================================
