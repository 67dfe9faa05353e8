-------------------------- MODULE MiniFSTreeProofs --------------------------
(***************************************************************************)
(* Proofs about module MiniFS: what paths resolve to, what the free counts *)
(* say, and what leaks.                                                    *)
(*                                                                         *)
(* The directories in use form a tree below the root, a name that create   *)
(* made is found, and the driver implements the abstract tree of module    *)
(* Namespace.  The path search is a recursive function of the bytes of a   *)
(* path: where paths of k bytes lead is one name below where some shorter  *)
(* ones do, and the proofs about paths go by the least number of bytes for *)
(* which a claim would fail.  What directories show is compared before and *)
(* after a step by the cell at each position (View).  These theorems are   *)
(* of names that fit a slot (LongNames = {}) and paths that fit the        *)
(* buffers (~CutPaths): with longer ones they are false, as the runs of a  *)
(* long name and of a long path show.                                      *)
(*                                                                         *)
(* For space, the invariant puts each pair of counters between the number  *)
(* of clear bits and that of the blocks and inodes that neither the tree   *)
(* nor a write under way uses.  A step takes or gives a number on both     *)
(* sides, so the proof is a few lemmas on cardinalities and, for each      *)
(* action, what it does to the blocks and the inodes of the tree.  Names   *)
(* may have any length here, but a cut path breaks these bounds too.       *)
(***************************************************************************)
EXTENDS MiniFSProofs

USE DEF Inodes, DataBlocks, Idx, Slots, Root, NoBlock

-----------------------------------------------------------------------------
(* What a directory shows at each position, and how callbacks change it *)

\* The cell at position p of directory d; the free cell where there is none.
View(it, bl, d, p) ==
    IF it[d].type = "DIR" /\ p \in Positions(it[d]) THEN CellAt(it[d], bl, p) ELSE FreeCell

ViewSame(it, bl, it2, bl2) ==
    \A d \in Inodes, p \in Where : View(it2, bl2, d, p) = View(it, bl, d, p)

\* Position q of directory e shows cell, and all else stays.
ViewPut(it, bl, it2, bl2, e, q, cell) ==
    \A d \in Inodes, p \in Where :
        View(it2, bl2, d, p) = IF d = e /\ p = q THEN cell ELSE View(it, bl, d, p)

\* Directory i is new and shows its dots.
ViewNew(it, bl, it2, bl2, i, par) ==
    \A d \in Inodes, p \in Where :
        View(it2, bl2, d, p) = IF d # i THEN View(it, bl, d, p)
                               ELSE IF p = <<0, 0>> THEN [inode |-> i, name |-> Dot]
                               ELSE IF p = <<0, 1>> THEN [inode |-> par, name |-> DotDot]
                               ELSE FreeCell

\* Inode i is gone, and so is what was at position q of directory e.
ViewGone(it, bl, it2, bl2, e, q, i) ==
    \A d \in Inodes, p \in Where :
        View(it2, bl2, d, p) = IF d = i \/ (d = e /\ p = q) THEN FreeCell ELSE View(it, bl, d, p)

\* An entry is a position that shows a name.
LEMMA EntryIsView ==
    ASSUME NEW it, NEW bl, NEW d \in Inodes, NEW p \in Where
    PROVE  /\ HasEntry(it, bl, d, p) <=> View(it, bl, d, p).name \notin {NoName, Dot, DotDot}
           /\ HasEntry(it, bl, d, p) => Target(it, bl, d, p) = View(it, bl, d, p).inode
<1>1. FreeCell.name = NoName
  BY DEF FreeCell
<1>2. QED
  BY <1>1 DEF HasEntry, View, Target

\* What add_entry changes of what directories show.
LEMMA AddEntryView ==
    ASSUME NEW par \in Inodes, NEW cell \in Cell, NEW it \in [Inodes -> Inode],
           NEW bl \in [DataBlocks -> [Slots -> Cell]], NEW bb, NEW s,
           it[par].type = "DIR", TableCovered(it, bb), TableApart(it),
           AddEntry(par, cell, it, bl, bb, s)
    PROVE  \E q \in Where : /\ View(it, bl, par, q).name = NoName
                            /\ ViewPut(it, bl, inodeTable', block', par, q, cell)
<1>1. CASE FillSlot(par, cell, it, bl, bb, s)
  <2>1. inodeTable' = it
    BY <1>1 DEF FillSlot
  <2>2. PICK q \in FirstPos(FreeSlots(it[par], bl)) :
               block' = [bl EXCEPT ![it[par].direct[q[1]]][q[2]] = cell]
    BY <1>1 DEF FillSlot
  <2>3. q \in Positions(it[par]) /\ CellAt(it[par], bl, q).name = NoName
    BY <2>2 DEF FirstPos, FreeSlots
  <2>4. q \in Where
    BY <2>3, PositionWhere
  <2>5. OnlyCell(it, bl, block', par, q, cell)
    <3>1. Wrote(it, bl, block', par, q, cell)
      BY <2>2 DEF Wrote
    <3>2. QED
      BY <3>1, <2>3, OneCell
  <2>6. ViewPut(it, bl, it, block', par, q, cell)
    BY <2>3, <2>5 DEF OnlyCell, ViewPut, View
  <2>7. View(it, bl, par, q).name = NoName
    BY <2>3 DEF View
  <2>8. QED
    BY <2>1, <2>4, <2>6, <2>7
<1>2. CASE GrowDir(par, cell, it, bl, bb, s)
  <2>1. PICK k \in FirstFit(Holes(it[par])), b \in FirstFit(DataBlocks \ bb) :
               /\ block' = [bl EXCEPT ![b] = [ZeroBlock EXCEPT ![0] = cell]]
               /\ inodeTable' = [it EXCEPT ![par] = WithBlock(@, k, b)]
    BY <1>2 DEF GrowDir
  <2>2. k \in Idx /\ it[par].direct[k] = NoBlock /\ b \in DataBlocks /\ b \notin bb /\ b # NoBlock
    BY GeometryAssumption DEF FirstFit, Holes
  <2> DEFINE q == <<k, 0>>
             r == WithBlock(it[par], k, b)
  <2>3. r.type = "DIR" /\ \A l \in Idx : r.direct[l] = IF l = k THEN b ELSE it[par].direct[l]
    BY <2>2, WithBlockFields
  <2>4. inodeTable' = [it EXCEPT ![par] = r]
    BY <2>1
  <2> HIDE DEF r
  <2>5. q \in Where /\ \A s2 \in Slots : <<k, s2>> \notin Positions(it[par])
    BY <2>2, GeometryAssumption DEF Where, Positions, Pointers
  <2>6. \A s2 \in Slots : block'[b][s2] = IF s2 = 0 THEN cell ELSE FreeCell
    BY <2>1, <2>2, ContentsType DEF ZeroBlock
  <2>7. ASSUME NEW d \in Inodes, NEW p \in Positions(it[d])
        PROVE  block'[it[d].direct[p[1]]] = bl[it[d].direct[p[1]]]
    <3>1. p[1] \in Idx /\ it[d].direct[p[1]] \in DataBlocks /\ it[d].direct[p[1]] # NoBlock
      BY PositionWhere
    <3>2. it[d].direct[p[1]] \in bb
      BY <3>1 DEF TableCovered, Covered
    <3>3. QED
      BY <2>1, <2>2, <3>1, <3>2
  <2>8. ASSUME NEW d \in Inodes, NEW p \in Where
        PROVE  View(inodeTable', block', d, p) =
                   IF d = par /\ p = q THEN cell ELSE View(it, bl, d, p)
    <3>1. CASE d # par
      <4>1. inodeTable'[d] = it[d]
        BY <2>4, <3>1
      <4>2. p \in Positions(it[d]) => CellAt(it[d], block', p) = CellAt(it[d], bl, p)
        BY <2>7 DEF CellAt
      <4>3. QED
        BY <3>1, <4>1, <4>2 DEF View
    <3>2. CASE d = par /\ p[1] # k
      <4>1. inodeTable'[d] = r /\ p # q
        BY <2>4, <3>2
      <4>2. p[1] \in Idx /\ r.direct[p[1]] = it[par].direct[p[1]]
        BY <2>3, <3>2 DEF Where
      <4>3. p \in Positions(r) <=> p \in Positions(it[par])
        BY <4>2 DEF Positions, Pointers, Where
      <4>4. p \in Positions(it[par]) => CellAt(r, block', p) = CellAt(it[par], bl, p)
        BY <2>7, <4>2 DEF CellAt
      <4>5. QED
        BY <2>3, <3>2, <4>1, <4>3, <4>4 DEF View
    <3>3. CASE d = par /\ p[1] = k
      <4>1. p[2] \in Slots /\ p = <<k, p[2]>>
        BY <3>3 DEF Where
      <4>2. p \notin Positions(it[par])
        BY <2>5, <4>1
      <4>3. p \in Positions(r)
        BY <2>2, <2>3, <4>1 DEF Positions, Pointers
      <4>4. CellAt(r, block', p) = IF p[2] = 0 THEN cell ELSE FreeCell
        BY <2>2, <2>3, <2>6, <3>3, <4>1 DEF CellAt
      <4>5. p = q <=> p[2] = 0
        BY <4>1
      <4>6. inodeTable'[d] = r
        BY <2>4, <3>3
      <4> HIDE DEF q
      <4>7. QED
        BY <2>3, <3>3, <4>2, <4>3, <4>4, <4>5, <4>6 DEF View
    <3>4. QED
      BY <3>1, <3>2, <3>3
  <2>9. View(it, bl, par, q).name = NoName
    <3>1. q \notin Positions(it[par])
      BY <2>5, GeometryAssumption
    <3>2. QED
      BY <3>1 DEF View, FreeCell
  <2> HIDE DEF q
  <2>10. ViewPut(it, bl, inodeTable', block', par, q, cell)
    BY <2>8 DEF ViewPut
  <2>11. QED
    BY <2>5, <2>9, <2>10 DEF q
<1>3. QED
  BY <1>1, <1>2 DEF AddEntry

\* What unlink and rmdir change of what directories show.
LEMMA DiscardView ==
    ASSUME EntryInv, NEW par \in Inodes, NEW n \in Names,
           NEW i \in Lookup(inodeTable, block, par, n), inodeTable[par].type = "DIR",
           Discard(par, n, i)
    PROVE  \E q \in Where : /\ View(inodeTable, block, par, q).inode = i
                            /\ View(inodeTable, block, par, q).name = n
                            /\ HasEntry(inodeTable, block, par, q)
                            /\ ViewGone(inodeTable, block, inodeTable', block', par, q, i)
<1>t. /\ inodeTable \in [Inodes -> Inode] /\ block \in [DataBlocks -> [Slots -> Cell]]
      /\ TableApart(inodeTable)
  BY DEF EntryInv, OwnershipInv, TypeOK, NoSharedBlock, TableApart
<1>1. PICK q \in FirstPos(Matches(inodeTable[par], block, n)) :
               i = CellAt(inodeTable[par], block, q).inode
  BY DEF Lookup
<1>2. PICK r \in FirstPos(Matches(inodeTable[par], block, n)) :
               block' = [block EXCEPT ![inodeTable[par].direct[r[1]]][r[2]] = FreeCell]
  BY DEF Discard, DirRemoveEntry
<1>3. r = q
  <2>1. Matches(inodeTable[par], block, n) \in SUBSET Where
    BY <1>t, PositionWhere DEF Matches
  <2>2. QED
    BY <2>1, FirstPosUnique
<1>4. q \in Positions(inodeTable[par]) /\ CellAt(inodeTable[par], block, q).name = n
  BY <1>1 DEF FirstPos, Matches
<1>5. q \in Where
  BY <1>t, <1>4, PositionWhere
<1>6. /\ View(inodeTable, block, par, q).inode = i
      /\ View(inodeTable, block, par, q).name = n
  BY <1>1, <1>4 DEF View
<1>7. OnlyCell(inodeTable, block, block', par, q, FreeCell)
  <2>1. Wrote(inodeTable, block, block', par, q, FreeCell)
    BY <1>2, <1>3 DEF Wrote
  <2>2. QED
    BY <1>t, <1>4, <2>1, OneCell
<1>8. inodeTable' = [inodeTable EXCEPT ![i] = FreeInode]
  BY DEF Discard
<1>9. i \in Inodes
  BY <1>t, LookupType
<1>10. ASSUME NEW d \in Inodes, NEW p \in Where
       PROVE  View(inodeTable', block', d, p) =
                  IF d = i \/ (d = par /\ p = q) THEN FreeCell ELSE View(inodeTable, block, d, p)
  <2>1. CASE d = i
    <3>1. inodeTable'[d].type = "FREE"
      BY <1>t, <1>8, <1>9, <2>1 DEF FreeInode
    <3>2. QED
      BY <2>1, <3>1 DEF View
  <2>2. CASE d # i
    <3>1. inodeTable'[d] = inodeTable[d]
      BY <1>t, <1>8, <2>2
    <3>2. p \in Positions(inodeTable[d]) =>
             CellAt(inodeTable[d], block', p) =
                IF d = par /\ p = q THEN FreeCell ELSE CellAt(inodeTable[d], block, p)
      BY <1>7 DEF OnlyCell
    <3>3. QED
      BY <2>2, <3>1, <3>2 DEF View
  <2>3. QED
    BY <2>1, <2>2
<1>11. ViewGone(inodeTable, block, inodeTable', block', par, q, i)
  BY <1>10 DEF ViewGone
<1>12. HasEntry(inodeTable, block, par, q)
  <2>1. n \notin {NoName, Dot, DotDot}
    BY NameAssumption DEF Names
  <2>2. QED
    BY <1>4, <2>1 DEF HasEntry
<1>13. QED
  BY <1>5, <1>6, <1>11, <1>12

-----------------------------------------------------------------------------
(* The tree *)

RootIsDir(it, bl) == it[Root].type = "DIR" /\ View(it, bl, Root, <<0, 1>>).inode = Root

Dotted(it, bl) ==
    \A d \in Inodes : it[d].type = "DIR" =>
        /\ View(it, bl, d, <<0, 0>>) = [inode |-> d, name |-> Dot]
        /\ View(it, bl, d, <<0, 1>>).name = DotDot

ShortEntries(it, bl) ==
    \A d \in Inodes, p \in Where : HasEntry(it, bl, d, p) => View(it, bl, d, p).name \in ShortNames

NamesOnce(it, bl) ==
    \A d \in Inodes : \A p, q \in Where :
        /\ HasEntry(it, bl, d, p) /\ HasEntry(it, bl, d, q)
        /\ View(it, bl, d, p).name = View(it, bl, d, q).name
        => p = q

ParentNamed(it, bl) ==
    \A d, i \in Inodes, p \in Where :
        HasEntry(it, bl, d, p) /\ Target(it, bl, d, p) = i /\ it[i].type = "DIR" =>
            View(it, bl, i, <<0, 1>>).inode = d

\* Every entry has a path that is not cut.
AllReached(it, bl) ==
    \A d \in Inodes, p \in Where :
        HasEntry(it, bl, d, p) => Fits(it, bl, d, View(it, bl, d, p).name)

\* Where paths led they still lead.
ReachKept(it, bl, it2, bl2) ==
    \A k \in 0 .. PathMax : DirsAt(it, bl)[k] \subseteq DirsAt(it2, bl2)[k]

TreeGood(it, bl) ==
    /\ RootIsDir(it, bl) /\ Dotted(it, bl) /\ ShortEntries(it, bl)
    /\ NamesOnce(it, bl) /\ ParentNamed(it, bl) /\ AllReached(it, bl)

\* The two positions of the dots are positions.
LEMMA DotPlaces == <<0, 0>> \in Where /\ <<0, 1>> \in Where /\ <<0, 0>> # <<0, 1>>
  BY GeometryAssumption DEF Where

\* What a lookup finds is the target of an entry of that name.
LEMMA LookupEntry ==
    ASSUME NEW it, NEW bl, Disks(it, bl), NEW d \in Inodes, it[d].type = "DIR",
           NEW n \in Names, NEW i \in Lookup(it, bl, d, n)
    PROVE  \E p \in Where : /\ HasEntry(it, bl, d, p)
                            /\ View(it, bl, d, p).name = n
                            /\ View(it, bl, d, p).inode = i /\ Target(it, bl, d, p) = i
<1>1. PICK p \in FirstPos(Matches(it[d], bl, n)) : i = CellAt(it[d], bl, p).inode
  BY DEF Lookup
<1>2. p \in Positions(it[d]) /\ CellAt(it[d], bl, p).name = n
  BY <1>1 DEF FirstPos, Matches
<1>3. p \in Where
  BY <1>2, PositionWhere DEF Disks
<1>4. n \notin {NoName, Dot, DotDot}
  BY NameAssumption DEF Names
<1>5. HasEntry(it, bl, d, p) /\ Target(it, bl, d, p) = i
  BY <1>1, <1>2, <1>4 DEF HasEntry, Target
<1>6. View(it, bl, d, p).name = n /\ View(it, bl, d, p).inode = i
  BY <1>1, <1>2 DEF View
<1>7. QED
  BY <1>3, <1>5, <1>6

\* Where no name is twice, a lookup finds every entry.
LEMMA EntryFound ==
    ASSUME NEW it, NEW bl, Disks(it, bl), NEW d \in Inodes, it[d].type = "DIR",
           NamesOnce(it, bl), NEW p \in Where, HasEntry(it, bl, d, p)
    PROVE  Target(it, bl, d, p) \in Lookup(it, bl, d, View(it, bl, d, p).name)
<1> DEFINE n == View(it, bl, d, p).name
           M == Matches(it[d], bl, n)
<1>1. p \in Positions(it[d]) /\ CellAt(it[d], bl, p).name = n /\ n \notin {NoName, Dot, DotDot}
  BY DEF HasEntry, View
<1>2. p \in M
  BY <1>1 DEF Matches
<1>3. ASSUME NEW q \in M PROVE q = p
  <2>1. q \in Positions(it[d]) /\ CellAt(it[d], bl, q).name = n
    BY DEF Matches
  <2>2. q \in Where
    BY <2>1, PositionWhere DEF Disks
  <2>3. HasEntry(it, bl, d, q) /\ View(it, bl, d, q).name = n
    BY <1>1, <2>1 DEF HasEntry, View
  <2>4. QED
    BY <2>2, <2>3 DEF NamesOnce
<1>4. Before(p, p)
  <2>1. p[1] \in Int /\ p[2] \in Int
    BY GeometryAssumption DEF Where
  <2>2. QED
    BY <2>1 DEF Before
<1> HIDE DEF M
<1>5. p \in FirstPos(M)
  BY <1>2, <1>3, <1>4 DEF FirstPos
<1>6. QED
  BY <1>5 DEF Lookup, Target, M

\* The children of a directory are the directories it has entries of.
LEMMA ChildIs ==
    ASSUME NEW it, NEW bl, Disks(it, bl), NEW d \in Inodes, it[d].type = "DIR", NEW i \in Inodes,
           NEW n \in ShortNames, NamesOnce(it, bl)
    PROVE  NamedChild(it, bl, d, n, i) <=>
              /\ it[i].type = "DIR"
              /\ \E p \in Where : /\ HasEntry(it, bl, d, p)
                                 /\ View(it, bl, d, p).name = n
                                 /\ Target(it, bl, d, p) = i
<1>1. ASSUME NamedChild(it, bl, d, n, i)
      PROVE  \E p \in Where : /\ HasEntry(it, bl, d, p)
                              /\ View(it, bl, d, p).name = n
                              /\ Target(it, bl, d, p) = i
  <2>1. i \in Lookup(it, bl, d, n) /\ n \in Names
    BY <1>1 DEF NamedChild, Names
  <2>2. QED
    BY <2>1, LookupEntry
<1>2. ASSUME it[i].type = "DIR", NEW p \in Where, HasEntry(it, bl, d, p),
             View(it, bl, d, p).name = n, Target(it, bl, d, p) = i
      PROVE  NamedChild(it, bl, d, n, i)
  BY <1>2, EntryFound DEF NamedChild
<1>3. QED
  BY <1>1, <1>2 DEF NamedChild

\* Paths lead where they did when the links between directories stay, but for
\* some directories, X, that have no children.
LEMMA PathKeeps ==
    ASSUME NEW it, NEW bl, NEW it2, NEW bl2, Disks(it, bl), Disks(it2, bl2),
           NEW X \in SUBSET Inodes, it[Root].type = "DIR",
           \A d \in Inodes, i \in Inodes, n \in ShortNames :
              it[d].type = "DIR" /\ NamedChild(it, bl, d, n, i) =>
                  d \notin X /\ (i \in X \/ NamedChild(it2, bl2, d, n, i)),
           NEW k \in 0 .. PathMax
    PROVE  \A d \in DirsAt(it, bl)[k] : /\ d \in Inodes /\ it[d].type = "DIR"
                                       /\ (d \in X \/ d \in DirsAt(it2, bl2)[k])
<1> DEFINE f == DirsAt(it, bl)
           g == DirsAt(it2, bl2)
           Kept(j) == \A d \in f[j] : d \in Inodes /\ it[d].type = "DIR" /\ (d \in X \/ d \in g[j])
           K == {j \in Nat : j <= PathMax /\ ~Kept(j)}
<1>1. CASE K = {}
  BY <1>1, PathAssumption
<1>2. CASE K # {}
  <2>1. PICK m \in K : \A j \in K : m <= j
    BY <1>2, LeastNat
  <2>2. m \in Nat /\ m <= PathMax /\ ~Kept(m)
    BY <2>1
  <2>3. m # 0
    <3>1. Kept(0)
      BY DirsAtSteps, GeometryAssumption
    <3>2. QED
      BY <2>2, <3>1
  <2>4. m \in 0 .. PathMax
    BY <2>2, PathAssumption
  <2>5. PICK i \in f[m] : ~(i \in Inodes /\ it[i].type = "DIR" /\ (i \in X \/ i \in g[m]))
    BY <2>2
  <2> HIDE DEF K, Kept
  <2>6. PICK n \in ShortNames : /\ Length[n] < m
                                /\ \E d \in f[m - 1 - Length[n]] : NamedChild(it, bl, d, n, i)
    BY <2>3, <2>4, <2>5, DirsAtSteps
  <2> DEFINE j == m - 1 - Length[n]
  <2>7. PICK d \in f[j] : NamedChild(it, bl, d, n, i)
    BY <2>6
  <2>8. j \in Nat /\ j < m
    BY <2>2, <2>6, ShorterPath
  <2>9. Kept(j)
    BY <2>1, <2>2, <2>8, PathAssumption DEF K
  <2>10. d \in Inodes /\ it[d].type = "DIR" /\ (d \in X \/ d \in g[j])
    BY <2>7, <2>9 DEF Kept
  <2>11. i \in Inodes /\ it[i].type = "DIR"
    BY <2>7, <2>10, LookupType DEF NamedChild, Disks
  <2>12. d \notin X /\ (i \in X \/ NamedChild(it2, bl2, d, n, i))
    BY <2>7, <2>10, <2>11
  <2>13. i \in X \/ i \in g[m]
    BY <2>3, <2>4, <2>6, <2>10, <2>12, DirsAtSteps
  <2>14. QED
    BY <2>5, <2>11, <2>13
<1>3. QED
  BY <1>1, <1>2

\* Where links stay, paths lead where they did.
LEMMA LinksKeepReach ==
    ASSUME NEW it, NEW bl, NEW it2, NEW bl2, Disks(it, bl), Disks(it2, bl2),
           it[Root].type = "DIR",
           \A d \in Inodes, i \in Inodes, n \in ShortNames :
              it[d].type = "DIR" /\ NamedChild(it, bl, d, n, i) => NamedChild(it2, bl2, d, n, i)
    PROVE  ReachKept(it, bl, it2, bl2)
<1> SUFFICES ASSUME NEW k \in 0 .. PathMax, NEW d \in DirsAt(it, bl)[k]
             PROVE  d \in DirsAt(it2, bl2)[k]
  BY DEF ReachKept
<1>1. \A X \in SUBSET Inodes : X = {} => d \in X \/ d \in DirsAt(it2, bl2)[k]
  BY PathKeeps
<1>2. {} \in SUBSET Inodes
  OBVIOUS
<1>3. QED
  BY <1>1, <1>2

\* What fits still does where paths lead where they did.
LEMMA ReachFits ==
    ASSUME NEW it, NEW bl, NEW it2, NEW bl2, ReachKept(it, bl, it2, bl2),
           NEW d, NEW n \in Names, Fits(it, bl, d, n)
    PROVE  Fits(it2, bl2, d, n)
<1>1. PICK k \in 0 .. PathMax - 1 - Length[n] : d \in DirsAt(it, bl)[k]
  BY DEF Fits
<1>2. Length[n] \in Nat /\ PathMax \in Nat
  BY PathAssumption DEF Names
<1>3. k \in 0 .. PathMax
  BY <1>2
<1>4. QED
  BY <1>1, <1>3 DEF Fits, ReachKept

\* Every directory in reach is a directory, and the root or has an entry.
LEMMA PathDirsNamed ==
    ASSUME NEW it, NEW bl, Disks(it, bl), it[Root].type = "DIR", NEW d \in PathDirs(it, bl)
    PROVE  d \in Inodes /\ it[d].type = "DIR" /\ (d = Root \/ Named(it, bl, d))
<1> DEFINE S == {e \in Inodes : it[e].type = "DIR" /\ (e = Root \/ Named(it, bl, e))}
<1>1. Root \in S
  BY GeometryAssumption
<1>2. ASSUME NEW e \in S, NEW i \in Inodes, Child(it, bl, e, i) PROVE i \in S
  <2>1. PICK n \in ShortNames : i \in Lookup(it, bl, e, n)
    BY <1>2 DEF Child, NamedChild
  <2>2. \E p \in Where : HasEntry(it, bl, e, p) /\ Target(it, bl, e, p) = i
    BY <2>1, LookupEntry DEF Names
  <2>3. QED
    BY <1>2, <2>2 DEF Child, NamedChild, Named
<1>3. Closed(it, bl, S)
  BY <1>2 DEF Closed
<1>4. PathDirs(it, bl) \subseteq S
  BY <1>1, <1>3, PathDirsAre
<1>5. QED
  BY <1>4

\* A step that shows the same cells, and makes no directory and removes none,
\* keeps the tree.
LEMMA SameTree ==
    ASSUME NEW it, NEW bl, NEW it2, NEW bl2, Disks(it, bl), Disks(it2, bl2), TreeGood(it, bl),
           ViewSame(it, bl, it2, bl2),
           \A d \in Inodes : it2[d].type = "DIR" <=> it[d].type = "DIR"
    PROVE  TreeGood(it2, bl2) /\ ReachKept(it, bl, it2, bl2)
<1>1. \A d \in Inodes, p \in Where :
         /\ View(it2, bl2, d, p) = View(it, bl, d, p)
         /\ HasEntry(it2, bl2, d, p) <=> HasEntry(it, bl, d, p)
         /\ HasEntry(it, bl, d, p) => Target(it2, bl2, d, p) = Target(it, bl, d, p)
  BY EntryIsView DEF ViewSame
<1>2. Root \in Inodes
  BY GeometryAssumption
<1>3. RootIsDir(it2, bl2) /\ Dotted(it2, bl2)
  BY <1>1, <1>2, DotPlaces DEF TreeGood, RootIsDir, Dotted
<1>4. ShortEntries(it2, bl2) /\ NamesOnce(it2, bl2)
  BY <1>1 DEF TreeGood, ShortEntries, NamesOnce
<1>5. ParentNamed(it2, bl2)
  BY <1>1, DotPlaces DEF TreeGood, ParentNamed
<1>6. ASSUME NEW d \in Inodes, NEW i \in Inodes, NEW n \in ShortNames,
             it[d].type = "DIR", NamedChild(it, bl, d, n, i)
      PROVE  NamedChild(it2, bl2, d, n, i)
  <2>1. /\ it[i].type = "DIR"
        /\ \E p \in Where : /\ HasEntry(it, bl, d, p)
                           /\ View(it, bl, d, p).name = n /\ Target(it, bl, d, p) = i
    BY <1>6, ChildIs DEF TreeGood
  <2>2. /\ it2[i].type = "DIR" /\ it2[d].type = "DIR"
        /\ \E p \in Where : /\ HasEntry(it2, bl2, d, p)
                           /\ View(it2, bl2, d, p).name = n /\ Target(it2, bl2, d, p) = i
    BY <1>1, <1>6, <2>1
  <2>3. QED
    BY <1>4, <2>2, ChildIs
<1>7. ReachKept(it, bl, it2, bl2)
  BY <1>6, LinksKeepReach DEF TreeGood, RootIsDir
<1>8. AllReached(it2, bl2)
  BY <1>1, <1>7, ReachFits DEF TreeGood, AllReached, ShortEntries, Names
<1>9. QED
  BY <1>3, <1>4, <1>5, <1>7, <1>8 DEF TreeGood

\* A new directory without an entry, of itself or in it, keeps the tree.
LEMMA NewDirTree ==
    ASSUME NEW it, NEW bl, NEW it2, NEW bl2, Disks(it, bl), Disks(it2, bl2), TreeGood(it, bl),
           NEW i \in Inodes, NEW par \in Inodes, ViewNew(it, bl, it2, bl2, i, par),
           i # Root, ~Named(it, bl, i), it[i].type # "DIR", it2[i].type = "DIR",
           \A d \in Inodes : d # i => it2[d].type = it[d].type
    PROVE  TreeGood(it2, bl2) /\ ReachKept(it, bl, it2, bl2)
<1>1. \A d \in Inodes, p \in Where : d # i =>
         /\ View(it2, bl2, d, p) = View(it, bl, d, p)
         /\ HasEntry(it2, bl2, d, p) <=> HasEntry(it, bl, d, p)
         /\ HasEntry(it, bl, d, p) => Target(it2, bl2, d, p) = Target(it, bl, d, p)
  BY EntryIsView DEF ViewNew
<1>2. \A p \in Where : View(it2, bl2, i, p).name \in {NoName, Dot, DotDot}
  BY DEF ViewNew, FreeCell
<1>3. \A p \in Where : ~HasEntry(it2, bl2, i, p)
  BY <1>2, EntryIsView
<1>4. /\ View(it2, bl2, i, <<0, 0>>) = [inode |-> i, name |-> Dot]
      /\ View(it2, bl2, i, <<0, 1>>) = [inode |-> par, name |-> DotDot]
  BY DotPlaces DEF ViewNew
<1>5. \A d \in Inodes, p \in Where : HasEntry(it, bl, d, p) => Target(it, bl, d, p) # i
  BY DEF Named
<1>6. Root \in Inodes
  BY GeometryAssumption
<1>7. RootIsDir(it2, bl2)
  BY <1>1, <1>6, DotPlaces DEF TreeGood, RootIsDir
<1>8. Dotted(it2, bl2)
  BY <1>1, <1>4, DotPlaces DEF TreeGood, Dotted
<1>9. ShortEntries(it2, bl2) /\ NamesOnce(it2, bl2)
  <2>1. ShortEntries(it2, bl2)
    BY <1>1, <1>3 DEF TreeGood, ShortEntries
  <2>2. NamesOnce(it2, bl2)
    BY <1>1, <1>3 DEF TreeGood, NamesOnce
  <2>3. QED
    BY <2>1, <2>2
<1>10. ParentNamed(it2, bl2)
  <2> SUFFICES ASSUME NEW d \in Inodes, NEW j \in Inodes, NEW p \in Where,
                      HasEntry(it2, bl2, d, p), Target(it2, bl2, d, p) = j, it2[j].type = "DIR"
               PROVE  View(it2, bl2, j, <<0, 1>>).inode = d
    BY DEF ParentNamed
  <2>1. d # i /\ HasEntry(it, bl, d, p) /\ Target(it, bl, d, p) = j
    BY <1>1, <1>3
  <2>2. j # i
    BY <1>5, <2>1
  <2>3. it[j].type = "DIR"
    BY <2>2
  <2>4. View(it, bl, j, <<0, 1>>).inode = d
    BY <2>1, <2>3 DEF TreeGood, ParentNamed
  <2>5. QED
    BY <1>1, <2>2, <2>4, DotPlaces
<1>11. ASSUME NEW d \in Inodes, NEW j \in Inodes, NEW n \in ShortNames,
              it[d].type = "DIR", NamedChild(it, bl, d, n, j)
       PROVE  NamedChild(it2, bl2, d, n, j)
  <2>1. /\ it[j].type = "DIR"
        /\ \E p \in Where : /\ HasEntry(it, bl, d, p)
                           /\ View(it, bl, d, p).name = n /\ Target(it, bl, d, p) = j
    BY <1>11, ChildIs DEF TreeGood
  <2>2. d # i /\ j # i
    BY <1>11, <2>1
  <2>3. /\ it2[j].type = "DIR" /\ it2[d].type = "DIR"
        /\ \E p \in Where : /\ HasEntry(it2, bl2, d, p)
                           /\ View(it2, bl2, d, p).name = n /\ Target(it2, bl2, d, p) = j
    BY <1>1, <1>11, <2>1, <2>2
  <2>4. QED
    BY <1>9, <2>3, ChildIs
<1>12. ReachKept(it, bl, it2, bl2)
  BY <1>11, LinksKeepReach DEF TreeGood, RootIsDir
<1>13. AllReached(it2, bl2)
  BY <1>1, <1>3, <1>12, ReachFits DEF TreeGood, AllReached, ShortEntries, Names
<1>14. QED
  BY <1>7, <1>8, <1>9, <1>10, <1>12, <1>13 DEF TreeGood

\* A new entry, of a name that its directory does not have and an inode that
\* no entry names, keeps the tree.
LEMMA PutTree ==
    ASSUME NEW it, NEW bl, NEW it2, NEW bl2, Disks(it, bl), Disks(it2, bl2), TreeGood(it, bl),
           NEW par \in Inodes, NEW q \in Where, NEW i \in Inodes, NEW n \in ShortNames,
           ViewPut(it, bl, it2, bl2, par, q, [inode |-> i, name |-> n]),
           View(it, bl, par, q).name = NoName, Fits(it, bl, par, n),
           it[par].type = "DIR", SameTypes(it, it2), ~Named(it, bl, i),
           \A p \in Where : HasEntry(it, bl, par, p) => View(it, bl, par, p).name # n,
           it[i].type = "DIR" => View(it, bl, i, <<0, 1>>).inode = par
    PROVE  TreeGood(it2, bl2)
<1>0. \A d \in Inodes : it2[d].type = it[d].type
  BY DEF SameTypes
<1>1. \A d \in Inodes, p \in Where : ~(d = par /\ p = q) =>
         /\ View(it2, bl2, d, p) = View(it, bl, d, p)
         /\ HasEntry(it2, bl2, d, p) <=> HasEntry(it, bl, d, p)
         /\ HasEntry(it, bl, d, p) => Target(it2, bl2, d, p) = Target(it, bl, d, p)
  BY EntryIsView DEF ViewPut
<1>2. /\ View(it2, bl2, par, q).name = n /\ HasEntry(it2, bl2, par, q)
      /\ Target(it2, bl2, par, q) = i
  <2>1. View(it2, bl2, par, q).name = n /\ View(it2, bl2, par, q).inode = i
    BY DEF ViewPut
  <2>2. n \notin {NoName, Dot, DotDot}
    BY NameAssumption
  <2>3. QED
    BY <2>1, <2>2, EntryIsView
<1>3. ~HasEntry(it, bl, par, q)
  BY EntryIsView
<1>4. \A d \in Inodes : it[d].type = "DIR" =>
         /\ View(it2, bl2, d, <<0, 0>>) = View(it, bl, d, <<0, 0>>)
         /\ View(it2, bl2, d, <<0, 1>>) = View(it, bl, d, <<0, 1>>)
  <2>1. q # <<0, 0>> /\ q # <<0, 1>>
    <3>1. /\ View(it, bl, par, <<0, 0>>) = [inode |-> par, name |-> Dot]
          /\ View(it, bl, par, <<0, 1>>).name = DotDot
      BY DEF TreeGood, Dotted
    <3>2. NoName # Dot /\ NoName # DotDot
      BY NameAssumption
    <3>3. QED
      BY <3>1, <3>2
  <2>2. QED
    BY <1>1, <2>1, DotPlaces
<1>5. Root \in Inodes
  BY GeometryAssumption
<1>6. RootIsDir(it2, bl2) /\ Dotted(it2, bl2)
  BY <1>0, <1>4, <1>5 DEF TreeGood, RootIsDir, Dotted
<1>7. ShortEntries(it2, bl2)
  BY <1>1, <1>2 DEF TreeGood, ShortEntries
<1>8. NamesOnce(it2, bl2)
  <2> SUFFICES ASSUME NEW d \in Inodes, NEW p \in Where, NEW r \in Where,
                      HasEntry(it2, bl2, d, p), HasEntry(it2, bl2, d, r),
                      View(it2, bl2, d, p).name = View(it2, bl2, d, r).name, p # r
               PROVE  FALSE
    BY DEF NamesOnce
  <2>1. CASE d = par /\ p = q
    BY <1>1, <1>2, <2>1
  <2>2. CASE d = par /\ r = q
    BY <1>1, <1>2, <2>2
  <2>3. CASE ~(d = par /\ p = q) /\ ~(d = par /\ r = q)
    BY <1>1, <2>3 DEF TreeGood, NamesOnce
  <2>4. QED
    BY <2>1, <2>2, <2>3
<1>9. ParentNamed(it2, bl2)
  <2> SUFFICES ASSUME NEW d \in Inodes, NEW j \in Inodes, NEW p \in Where,
                      HasEntry(it2, bl2, d, p), Target(it2, bl2, d, p) = j, it2[j].type = "DIR"
               PROVE  View(it2, bl2, j, <<0, 1>>).inode = d
    BY DEF ParentNamed
  <2>1. it[j].type = "DIR"
    BY <1>0
  <2>2. View(it2, bl2, j, <<0, 1>>) = View(it, bl, j, <<0, 1>>)
    BY <1>4, <2>1
  <2>3. CASE d = par /\ p = q
    BY <1>2, <2>1, <2>2, <2>3
  <2>4. CASE ~(d = par /\ p = q)
    BY <1>1, <2>1, <2>2, <2>4 DEF TreeGood, ParentNamed
  <2>5. QED
    BY <2>3, <2>4
<1>10. ASSUME NEW d \in Inodes, NEW j \in Inodes, NEW m \in ShortNames,
              it[d].type = "DIR", NamedChild(it, bl, d, m, j)
       PROVE  NamedChild(it2, bl2, d, m, j)
  <2>1. it[j].type = "DIR"
    BY <1>10 DEF NamedChild
  <2>2. PICK p \in Where : /\ HasEntry(it, bl, d, p)
                           /\ View(it, bl, d, p).name = m /\ Target(it, bl, d, p) = j
    BY <1>10, ChildIs DEF TreeGood
  <2>3. /\ HasEntry(it2, bl2, d, p)
        /\ View(it2, bl2, d, p).name = m /\ Target(it2, bl2, d, p) = j
    BY <1>1, <1>3, <2>2
  <2>4. QED
    BY <1>0, <1>8, <1>10, <2>1, <2>3, ChildIs
<1>11. ReachKept(it, bl, it2, bl2)
  BY <1>10, LinksKeepReach DEF TreeGood, RootIsDir
<1>12. AllReached(it2, bl2)
  <2> SUFFICES ASSUME NEW d \in Inodes, NEW p \in Where, HasEntry(it2, bl2, d, p)
               PROVE  Fits(it2, bl2, d, View(it2, bl2, d, p).name)
    BY DEF AllReached
  <2>1. CASE d = par /\ p = q
    BY <1>2, <1>11, <2>1, ReachFits DEF Names
  <2>2. CASE ~(d = par /\ p = q)
    <3>1. /\ HasEntry(it, bl, d, p) /\ View(it2, bl2, d, p) = View(it, bl, d, p)
          /\ View(it, bl, d, p).name \in Names
      BY <1>1, <2>2 DEF TreeGood, ShortEntries, Names
    <3>2. QED
      BY <1>11, <3>1, ReachFits DEF TreeGood, AllReached
  <2>3. QED
    BY <2>1, <2>2
<1>13. QED
  BY <1>6, <1>7, <1>8, <1>9, <1>12 DEF TreeGood

\* The removal of an inode that has no entries, with the one entry that names
\* it, keeps the tree.
LEMMA GoneTree ==
    ASSUME NEW it, NEW bl, NEW it2, NEW bl2, Disks(it, bl), Disks(it2, bl2), TreeGood(it, bl),
           NEW par \in Inodes, NEW q \in Where, NEW i \in Inodes, i # Root,
           ViewGone(it, bl, it2, bl2, par, q, i), HasEntry(it, bl, par, q),
           Target(it, bl, par, q) = i, Single(it, bl),
           \A p \in Where : ~HasEntry(it, bl, i, p),
           it2[i].type # "DIR", \A d \in Inodes : d # i => it2[d].type = it[d].type
    PROVE  TreeGood(it2, bl2)
<1>1. \A d \in Inodes, p \in Where :
         /\ HasEntry(it2, bl2, d, p) <=> HasEntry(it, bl, d, p) /\ d # i /\ ~(d = par /\ p = q)
         /\ HasEntry(it2, bl2, d, p) =>
               /\ Target(it2, bl2, d, p) = Target(it, bl, d, p)
               /\ View(it2, bl2, d, p) = View(it, bl, d, p)
               /\ Target(it, bl, d, p) # i
  <2>1. FreeCell.name = NoName
    BY DEF FreeCell
  <2>2. \A d \in Inodes, p \in Where :
           HasEntry(it, bl, d, p) /\ Target(it, bl, d, p) = i => d = par /\ p = q
    BY DEF Single
  <2>3. QED
    BY <2>1, <2>2, EntryIsView DEF ViewGone
<1>2. \A d \in Inodes : it[d].type = "DIR" /\ d # i =>
         /\ View(it2, bl2, d, <<0, 0>>) = View(it, bl, d, <<0, 0>>)
         /\ View(it2, bl2, d, <<0, 1>>) = View(it, bl, d, <<0, 1>>)
  <2>1. q # <<0, 0>> /\ q # <<0, 1>>
    <3>1. it[par].type = "DIR"
      BY DEF HasEntry
    <3>2. /\ View(it, bl, par, <<0, 0>>) = [inode |-> par, name |-> Dot]
          /\ View(it, bl, par, <<0, 1>>).name = DotDot
      BY <3>1 DEF TreeGood, Dotted
    <3>3. View(it, bl, par, q).name \notin {NoName, Dot, DotDot}
      BY EntryIsView
    <3>4. QED
      BY <3>2, <3>3
  <2>2. QED
    BY <2>1, DotPlaces DEF ViewGone
<1>3. Root \in Inodes
  BY GeometryAssumption
<1>4. RootIsDir(it2, bl2) /\ Dotted(it2, bl2)
  BY <1>2, <1>3 DEF TreeGood, RootIsDir, Dotted
<1>5. ShortEntries(it2, bl2) /\ NamesOnce(it2, bl2)
  BY <1>1 DEF TreeGood, ShortEntries, NamesOnce
<1>6. ParentNamed(it2, bl2)
  BY <1>1, <1>2 DEF TreeGood, ParentNamed
<1>7. ASSUME NEW d \in Inodes, NEW j \in Inodes, NEW n \in ShortNames,
             it[d].type = "DIR", NamedChild(it, bl, d, n, j)
      PROVE  d \notin {i} /\ (j \in {i} \/ NamedChild(it2, bl2, d, n, j))
  <2>1. it[j].type = "DIR"
    BY <1>7 DEF NamedChild
  <2>2. PICK p \in Where : /\ HasEntry(it, bl, d, p)
                           /\ View(it, bl, d, p).name = n /\ Target(it, bl, d, p) = j
    BY <1>7, ChildIs DEF TreeGood
  <2>3. d # i
    BY <2>2
  <2>4. CASE j # i
    <3>1. HasEntry(it2, bl2, d, p)
      BY <1>1, <2>2, <2>3, <2>4
    <3>2. View(it2, bl2, d, p).name = n /\ Target(it2, bl2, d, p) = j
      BY <1>1, <2>2, <3>1
    <3>3. it2[d].type = "DIR" /\ it2[j].type = "DIR"
      BY <1>7, <2>1, <2>3, <2>4
    <3>4. QED
      BY <1>5, <2>3, <3>1, <3>2, <3>3, ChildIs
  <2>5. QED
    BY <2>3, <2>4
<1>8. ASSUME NEW k \in 0 .. PathMax, NEW d \in DirsAt(it, bl)[k], d # i
      PROVE  d \in DirsAt(it2, bl2)[k]
  <2> DEFINE X == {i}
  <2>1. X \in SUBSET Inodes /\ it[Root].type = "DIR"
    BY DEF TreeGood, RootIsDir
  <2>2. \A e \in Inodes, j \in Inodes, n \in ShortNames :
           it[e].type = "DIR" /\ NamedChild(it, bl, e, n, j) =>
               e \notin X /\ (j \in X \/ NamedChild(it2, bl2, e, n, j))
    BY <1>7
  <2>3. d \notin X
    BY <1>8
  <2> HIDE DEF X
  <2>4. d \in X \/ d \in DirsAt(it2, bl2)[k]
    BY <1>8, <2>1, <2>2, PathKeeps
  <2>5. QED
    BY <2>3, <2>4
<1>9. AllReached(it2, bl2)
  <2> SUFFICES ASSUME NEW d \in Inodes, NEW p \in Where, HasEntry(it2, bl2, d, p)
               PROVE  Fits(it2, bl2, d, View(it2, bl2, d, p).name)
    BY DEF AllReached
  <2> DEFINE n == View(it, bl, d, p).name
  <2>1. HasEntry(it, bl, d, p) /\ d # i /\ View(it2, bl2, d, p).name = n
    BY <1>1
  <2>2. n \in ShortNames /\ Fits(it, bl, d, n)
    BY <2>1 DEF TreeGood, ShortEntries, AllReached
  <2>3. PICK k \in 0 .. PathMax - 1 - Length[n] : d \in DirsAt(it, bl)[k]
    BY <2>2 DEF Fits
  <2>4. k \in 0 .. PathMax
    BY <2>2, PathAssumption
  <2>5. d \in DirsAt(it2, bl2)[k]
    BY <1>8, <2>1, <2>3, <2>4
  <2>6. QED
    BY <2>1, <2>3, <2>5 DEF Fits
<1>10. QED
  BY <1>4, <1>5, <1>6, <1>9 DEF TreeGood

-----------------------------------------------------------------------------
(* What a step does to the tree *)

\* Directory d has an entry of name n and inode i.
InEntries(it, bl, d, n, i) ==
    \E p \in Where : /\ HasEntry(it, bl, d, p)
                     /\ View(it, bl, d, p).name = n
                     /\ Target(it, bl, d, p) = i

OfTree(it, bl, i) == i = Root \/ Named(it, bl, i)

SameDirs(it, bl, it2, i) ==
    \A j \in Inodes : OfTree(it, bl, j) /\ j # i => (it2[j].type = "DIR" <=> it[j].type = "DIR")

TreeKept(it, bl, it2, bl2) ==
    /\ \A d \in Inodes : \A m, j : InEntries(it2, bl2, d, m, j) <=> InEntries(it, bl, d, m, j)
    /\ SameDirs(it, bl, it2, NoBlock - 1)

TreeGrown(it, bl, it2, bl2, par, n, i) ==
    /\ par \in Inodes /\ i \in Inodes /\ i # Root /\ n \in ShortNames
    /\ ~Named(it, bl, i) /\ OfTree(it, bl, par) /\ it[par].type = "DIR"
    /\ \A j : ~InEntries(it, bl, par, n, j)
    /\ \A d \in Inodes : \A m, j :
          InEntries(it2, bl2, d, m, j) <=>
              InEntries(it, bl, d, m, j) \/ (d = par /\ m = n /\ j = i)
    /\ SameDirs(it, bl, it2, i)

TreeShrunk(it, bl, it2, bl2, par, n, i) ==
    /\ par \in Inodes /\ i \in Inodes /\ i # Root
    /\ InEntries(it, bl, par, n, i)
    /\ \A m, j : ~InEntries(it, bl, i, m, j)
    /\ \A d \in Inodes : \A m, j :
          InEntries(it2, bl2, d, m, j) <=> InEntries(it, bl, d, m, j) /\ j # i
    /\ SameDirs(it, bl, it2, i)

TreeInv == EntryInv /\ TreeGood(inodeTable, block)

TreeStep ==
    /\ TreeInv'
    /\ \/ TreeKept(inodeTable, block, inodeTable', block')
       \/ \E par, n, i : TreeGrown(inodeTable, block, inodeTable', block', par, n, i)
       \/ \E par, n, i : TreeShrunk(inodeTable, block, inodeTable', block', par, n, i)

\* Equal views are equal entries.
LEMMA SameViewEntries ==
    ASSUME NEW it, NEW bl, NEW it2, NEW bl2, ViewSame(it, bl, it2, bl2)
    PROVE  \A d \in Inodes : \A m, j : InEntries(it2, bl2, d, m, j) <=> InEntries(it, bl, d, m, j)
<1>1. \A d \in Inodes, p \in Where :
         /\ View(it2, bl2, d, p) = View(it, bl, d, p)
         /\ HasEntry(it2, bl2, d, p) <=> HasEntry(it, bl, d, p)
         /\ HasEntry(it, bl, d, p) => Target(it2, bl2, d, p) = Target(it, bl, d, p)
  BY EntryIsView DEF ViewSame
<1>2. QED
  BY <1>1 DEF InEntries

\* A step that shows the same cells keeps the tree.
LEMMA SameTreeStep ==
    ASSUME TreeInv, EntryInv', ViewSame(inodeTable, block, inodeTable', block'),
           SameTypes(inodeTable, inodeTable')
    PROVE  TreeStep
<1>1. Disks(inodeTable, block) /\ Disks(inodeTable', block')
  BY DEF TreeInv, EntryInv, OwnershipInv, TypeOK, Disks
<1>2. \A d \in Inodes : inodeTable'[d].type = "DIR" <=> inodeTable[d].type = "DIR"
  BY DEF SameTypes
<1>3. TreeGood(inodeTable', block')
  BY <1>1, <1>2, SameTree DEF TreeInv
<1>4. TreeKept(inodeTable, block, inodeTable', block')
  BY <1>2, SameViewEntries DEF TreeKept, SameDirs
<1>5. QED
  BY <1>3, <1>4 DEF TreeInv, TreeStep

\* What create and mkdir have done before they look for a place: inode i is
\* new in table it and blocks bl, with dots and no entry if it is a directory.
Fresh(it, bl, i, par) ==
    /\ \A d \in Inodes : d # i => /\ it[d].type = inodeTable[d].type
                                  /\ \A p \in Where : View(it, bl, d, p) = View(inodeTable, block, d, p)
    /\ \A p \in Where : View(it, bl, i, p).name \in {NoName, Dot, DotDot}
    /\ it[i].type = "DIR" => View(it, bl, i, <<0, 1>>).inode = par

\* An inode with a clear bit has no entry.
LEMMA UnmarkedUnnamed ==
    ASSUME EntryInv, NEW i, i \notin inodeBitmap
    PROVE  ~Named(inodeTable, block, i)
  BY DEF EntryInv, Resolve, Named

\* Nor has it any in the table with the new inode, whose entries are the old.
LEMMA FreshEntries ==
    ASSUME EntryInv, NEW i \in Inodes \ inodeBitmap, NEW par, NEW it, NEW bl, Fresh(it, bl, i, par)
    PROVE  /\ \A d \in Inodes : \A m, j :
                 InEntries(it, bl, d, m, j) <=> InEntries(inodeTable, block, d, m, j)
           /\ \A j : Named(it, bl, j) => Named(inodeTable, block, j)
<1>1. \A d \in Inodes, p \in Where : d # i =>
         /\ View(it, bl, d, p) = View(inodeTable, block, d, p)
         /\ HasEntry(it, bl, d, p) <=> HasEntry(inodeTable, block, d, p)
         /\ HasEntry(inodeTable, block, d, p) =>
               Target(it, bl, d, p) = Target(inodeTable, block, d, p)
  BY EntryIsView DEF Fresh
<1>2. \A p \in Where : ~HasEntry(it, bl, i, p) /\ ~HasEntry(inodeTable, block, i, p)
  <2>1. inodeTable[i].type = "FREE"
    BY DEF EntryInv, Agrees
  <2>2. QED
    BY <2>1, EntryIsView DEF Fresh, HasEntry
<1>3. QED
  BY <1>1, <1>2 DEF InEntries, Named

\* The end of create and mkdir: the entry for the new inode, or none.
LEMMA NewNodeStep ==
    ASSUME LongNames = {}, TreeInv, EntryInv', NEW par \in Inodes, NEW n \in Names,
           ReadyIn(par, n),
           Lookup(inodeTable, block, par, n) = {}, NEW i \in Inodes \ inodeBitmap,
           NEW it, NEW bl, Disks(it, bl), Fresh(it, bl, i, par), TreeGood(it, bl),
           ReachKept(inodeTable, block, it, bl),
           NEW bb, TableCovered(it, bb), TableApart(it), NEW s,
           NEW cell, cell = [inode |-> i, name |-> Stored(n)],
           AddEntry(par, cell, it, bl, bb, s) \/ AddEntryFails(par, it, bl, bb, s),
           AddEntry(par, cell, it, bl, bb, s) => SameTypes(it, inodeTable')
    PROVE  /\ TreeStep
           /\ AddEntry(par, cell, it, bl, bb, s) => i \in Lookup(inodeTable', block', par, n)
<1>d. Disks(inodeTable, block) /\ Disks(inodeTable', block')
  BY DEF TreeInv, EntryInv, OwnershipInv, TypeOK, Disks
<1>1. n \in ShortNames /\ Stored(n) = n /\ cell = [inode |-> i, name |-> n]
  BY DEF Names, Stored
<1>2. inodeTable[par].type = "DIR" /\ Fits(inodeTable, block, par, n)
  BY DEF ReadyIn
<1>3. inodeTable[i].type = "FREE" /\ i # Root /\ i # par
  BY <1>2 DEF TreeInv, EntryInv, Agrees
<1>4. ~Named(inodeTable, block, i) /\ ~Named(it, bl, i)
  BY UnmarkedUnnamed, FreshEntries DEF TreeInv
<1>5. \A p \in Where : HasEntry(inodeTable, block, par, p) => View(inodeTable, block, par, p).name # n
  BY <1>d, <1>2, EntryFound DEF TreeInv, TreeGood
<1>6. \A j : ~InEntries(inodeTable, block, par, n, j)
  BY <1>5 DEF InEntries
<1>7. \A p \in Where : HasEntry(it, bl, par, p) => View(it, bl, par, p).name # n
  <2>1. \A j : ~InEntries(it, bl, par, n, j)
    BY <1>6, FreshEntries DEF TreeInv
  <2>2. QED
    BY <2>1 DEF InEntries
<1>8. \A d \in Inodes : d # i => it[d].type = inodeTable[d].type
  BY DEF Fresh
<1>9. it[par].type = "DIR" /\ Fits(it, bl, par, n)
  BY <1>2, <1>3, <1>8, ReachFits
<1>10. \A j \in Inodes : OfTree(inodeTable, block, j) => j # i
  BY <1>3, <1>4 DEF OfTree
<1>11. CASE AddEntry(par, cell, it, bl, bb, s)
  <2>1. PICK q \in Where : /\ View(it, bl, par, q).name = NoName
                           /\ ViewPut(it, bl, inodeTable', block', par, q, cell)
    <3>1. cell \in Cell
      BY <1>1 DEF Cell
    <3>2. QED
      BY <1>9, <1>11, <3>1, AddEntryView DEF Disks
  <2>2. ViewPut(it, bl, inodeTable', block', par, q, [inode |-> i, name |-> n])
    BY <1>1, <2>1
  <2>3. it[i].type = "DIR" => View(it, bl, i, <<0, 1>>).inode = par
    BY DEF Fresh
  <2>4. SameTypes(it, inodeTable')
    BY <1>11
  <2>5. TreeGood(inodeTable', block')
    BY <1>d, <1>1, <1>4, <1>7, <1>9, <2>1, <2>2, <2>3, <2>4, PutTree
  <2>6. /\ HasEntry(inodeTable', block', par, q)
        /\ View(inodeTable', block', par, q).name = n
        /\ Target(inodeTable', block', par, q) = i
    <3>1. View(inodeTable', block', par, q).name = n /\ View(inodeTable', block', par, q).inode = i
      BY <2>2 DEF ViewPut
    <3>2. n \notin {NoName, Dot, DotDot}
      BY <1>1, NameAssumption
    <3>3. QED
      BY <3>1, <3>2, EntryIsView
  <2>7. i \in Lookup(inodeTable', block', par, n)
    <3>1. inodeTable'[par].type = "DIR"
      BY <1>9, <2>4 DEF SameTypes
    <3>2. NamesOnce(inodeTable', block')
      BY <2>5 DEF TreeGood
    <3>3. QED
      BY <1>d, <2>6, <3>1, <3>2, EntryFound
  <2>8. \A d \in Inodes, p \in Where : ~(d = par /\ p = q) =>
         /\ View(inodeTable', block', d, p) = View(it, bl, d, p)
         /\ HasEntry(inodeTable', block', d, p) <=> HasEntry(it, bl, d, p)
         /\ HasEntry(it, bl, d, p) => Target(inodeTable', block', d, p) = Target(it, bl, d, p)
    BY <2>2, EntryIsView DEF ViewPut
  <2>9. ~HasEntry(it, bl, par, q)
    BY <2>1, EntryIsView
  <2>10. ASSUME NEW d \in Inodes, NEW m, NEW j
         PROVE  InEntries(inodeTable', block', d, m, j) <=>
                    InEntries(it, bl, d, m, j) \/ (d = par /\ m = n /\ j = i)
    <3>1. ASSUME InEntries(inodeTable', block', d, m, j)
          PROVE  InEntries(it, bl, d, m, j) \/ (d = par /\ m = n /\ j = i)
      BY <3>1, <2>6, <2>8 DEF InEntries
    <3>2. ASSUME InEntries(it, bl, d, m, j) PROVE InEntries(inodeTable', block', d, m, j)
      BY <3>2, <2>8, <2>9 DEF InEntries
    <3>3. InEntries(inodeTable', block', par, n, i)
      BY <2>6 DEF InEntries
    <3>4. QED
      BY <3>1, <3>2, <3>3
  <2>11. SameDirs(inodeTable, block, inodeTable', i)
    BY <1>8, <2>4 DEF SameDirs, SameTypes
  <2>12. OfTree(inodeTable, block, par)
    BY <1>d, <1>2, FitsIn, PathDirsNamed DEF OfTree, TreeInv, TreeGood, RootIsDir
  <2>13. TreeGrown(inodeTable, block, inodeTable', block', par, n, i)
    BY <1>1, <1>2, <1>3, <1>4, <1>6, <2>10, <2>11, <2>12, FreshEntries DEF TreeGrown, TreeInv
  <2>14. QED
    BY <2>5, <2>7, <2>13 DEF TreeStep, TreeInv
<1>12. CASE ~AddEntry(par, cell, it, bl, bb, s)
  <2>1. inodeTable' = it /\ block' = bl
    BY <1>12 DEF AddEntryFails
  <2>2. TreeKept(inodeTable, block, inodeTable', block')
    BY <1>8, <1>10, <2>1, FreshEntries DEF TreeKept, SameDirs, TreeInv
  <2>3. QED
    BY <1>12, <2>1, <2>2 DEF TreeStep, TreeInv
<1>13. QED
  BY <1>11, <1>12

\* What a new directory shows.
LEMMA NewDirView ==
    ASSUME NEW it, NEW bl, NEW i \in Inodes, NEW par \in Inodes, NEW b \in DataBlocks,
           it[i] = NewDir(b), bl[b] = DotsBlock(i, par), NEW p \in Where
    PROVE  View(it, bl, i, p) = IF p = <<0, 0>> THEN [inode |-> i, name |-> Dot]
                                ELSE IF p = <<0, 1>> THEN [inode |-> par, name |-> DotDot]
                                ELSE FreeCell
<1>1. /\ b # NoBlock /\ NewDir(b).type = "DIR"
      /\ \A k \in Idx : NewDir(b).direct[k] = IF k = 0 THEN b ELSE NoBlock
  BY GeometryAssumption DEF NewDir, NoPointers
<1>2. \A s \in Slots : DotsBlock(i, par)[s] =
         IF s = 0 THEN [inode |-> i, name |-> Dot]
         ELSE IF s = 1 THEN [inode |-> par, name |-> DotDot] ELSE FreeCell
  <2> DEFINE A == [inode |-> i, name |-> Dot]
             B == [inode |-> par, name |-> DotDot]
  <2>1. DotsBlock(i, par) = [ZeroBlock EXCEPT ![0] = A, ![1] = B]
    BY DEF DotsBlock
  <2>2. ZeroBlock = [s \in Slots |-> FreeCell] /\ 0 \in Slots /\ 1 \in Slots
    BY GeometryAssumption DEF ZeroBlock
  <2> HIDE DEF A, B
  <2>3. \A s \in Slots : DotsBlock(i, par)[s] = IF s = 0 THEN A ELSE IF s = 1 THEN B ELSE FreeCell
    BY <2>1, <2>2
  <2>4. QED
    BY <2>3 DEF A, B
<1>3. p[1] \in Idx /\ p[2] \in Slots /\ p = <<p[1], p[2]>>
  BY DEF Where
<1>4. p \in Positions(NewDir(b)) <=> p[1] = 0
  BY <1>1, <1>3 DEF Positions, Pointers
<1>5. p[1] = 0 => CellAt(NewDir(b), bl, p) = DotsBlock(i, par)[p[2]]
  BY <1>1, <1>3 DEF CellAt
<1>6. CASE p[1] = 0
  <2>1. View(it, bl, i, p) = DotsBlock(i, par)[p[2]]
    BY <1>1, <1>4, <1>5, <1>6 DEF View
  <2>2. p = <<0, 0>> <=> p[2] = 0
    BY <1>3, <1>6
  <2>3. p = <<0, 1>> <=> p[2] = 1
    BY <1>3, <1>6
  <2>4. QED
    BY <1>2, <1>3, <2>1, <2>2, <2>3
<1>7. CASE p[1] # 0
  <2>1. View(it, bl, i, p) = FreeCell
    BY <1>4, <1>7 DEF View
  <2>2. p # <<0, 0>> /\ p # <<0, 1>>
    BY <1>7
  <2>3. QED
    BY <2>1, <2>2
<1>8. QED
  BY <1>6, <1>7

-----------------------------------------------------------------------------
(* The steps *)

\* A fresh image is the root directory with its dots.
LEMMA InitTree == Init => TreeInv
<1> SUFFICES ASSUME Init PROVE TreeInv
  OBVIOUS
<1>1. EntryInv
  BY InitEntries
<1>2. /\ inodeTable = [i \in Inodes |-> IF i = Root THEN NewDir(DataStart) ELSE FreeInode]
      /\ block = [b \in DataBlocks |-> IF b = DataStart THEN DotsBlock(Root, Root) ELSE ZeroBlock]
  BY DEF Init
<1>3. Root \in Inodes /\ DataStart \in DataBlocks /\ 0 \in Idx /\ 0 \in Slots /\ 1 \in Slots
      /\ DataStart # NoBlock
  BY GeometryAssumption
<1>4. /\ inodeTable[Root] = NewDir(DataStart)
      /\ \A i \in Inodes : i # Root => inodeTable[i].type = "FREE"
  BY <1>2, <1>3 DEF FreeInode
<1>5. block[DataStart] = DotsBlock(Root, Root)
  BY <1>2, <1>3
<1>6. \A p \in Where : View(inodeTable, block, Root, p) =
         IF p = <<0, 0>> THEN [inode |-> Root, name |-> Dot]
         ELSE IF p = <<0, 1>> THEN [inode |-> Root, name |-> DotDot]
         ELSE FreeCell
  BY <1>3, <1>4, <1>5, NewDirView
<1>7. inodeTable[Root].type = "DIR"
  BY <1>4 DEF NewDir
<1>8. RootIsDir(inodeTable, block)
  BY <1>6, <1>7, DotPlaces DEF RootIsDir
<1>9. Dotted(inodeTable, block)
  BY <1>4, <1>6, DotPlaces DEF Dotted
<1>10. ASSUME NEW d \in Inodes, NEW p \in Where PROVE ~HasEntry(inodeTable, block, d, p)
  <2>1. CASE d = Root
    <3>1. View(inodeTable, block, Root, p).name \in {NoName, Dot, DotDot}
      BY <1>6 DEF FreeCell
    <3>2. QED
      BY <1>3, <2>1, <3>1, EntryIsView
  <2>2. CASE d # Root
    BY <1>4, <2>2 DEF HasEntry
  <2>3. QED
    BY <2>1, <2>2
<1>11. QED
  BY <1>1, <1>8, <1>9, <1>10
     DEF TreeInv, TreeGood, ShortEntries, NamesOnce, ParentNamed, AllReached

\* unlink and rmdir take one entry, of an inode that has none, from the tree.
LEMMA DiscardTree ==
    ASSUME TreeInv, EntryInv', NEW par \in Inodes, NEW n \in Names,
           NEW i \in Lookup(inodeTable, block, par, n), inodeTable[par].type = "DIR",
           Discard(par, n, i), \A p \in Where : ~HasEntry(inodeTable, block, i, p)
    PROVE  TreeStep
<1>d. Disks(inodeTable, block) /\ Disks(inodeTable', block')
  BY DEF TreeInv, EntryInv, OwnershipInv, TypeOK, Disks
<1>1. PICK q \in Where : /\ View(inodeTable, block, par, q).inode = i
                         /\ View(inodeTable, block, par, q).name = n
                         /\ HasEntry(inodeTable, block, par, q)
                         /\ ViewGone(inodeTable, block, inodeTable', block', par, q, i)
  BY DiscardView DEF TreeInv
<1>2. Target(inodeTable, block, par, q) = i
  BY <1>1, EntryIsView
<1>3. i \in Inodes /\ i # Root
  BY DiscardEntries DEF TreeInv
<1>4. inodeTable' = [inodeTable EXCEPT ![i] = FreeInode]
  BY DEF Discard
<1>5. inodeTable'[i].type # "DIR" /\ \A d \in Inodes : d # i => inodeTable'[d].type = inodeTable[d].type
  BY <1>3, <1>4 DEF FreeInode, TreeInv, EntryInv, OwnershipInv, TypeOK
<1>6. Single(inodeTable, block)
  BY DEF TreeInv, EntryInv
<1>7. TreeGood(inodeTable', block')
  BY <1>d, <1>1, <1>2, <1>3, <1>5, <1>6, GoneTree DEF TreeInv
<1>8. InEntries(inodeTable, block, par, n, i)
  BY <1>1, <1>2 DEF InEntries
<1>9. \A m, j : ~InEntries(inodeTable, block, i, m, j)
  BY DEF InEntries
<1>10. FreeCell.name = NoName
  BY DEF FreeCell
<1>11. \A d \in Inodes, p \in Where :
         /\ HasEntry(inodeTable', block', d, p) <=>
              HasEntry(inodeTable, block, d, p) /\ Target(inodeTable, block, d, p) # i
         /\ HasEntry(inodeTable', block', d, p) =>
               /\ Target(inodeTable', block', d, p) = Target(inodeTable, block, d, p)
               /\ View(inodeTable', block', d, p) = View(inodeTable, block, d, p)
  <2>1. \A d \in Inodes, p \in Where :
           HasEntry(inodeTable, block, d, p) /\ Target(inodeTable, block, d, p) = i => d = par /\ p = q
    BY <1>1, <1>2, <1>6 DEF Single
  <2>2. QED
    BY <1>1, <1>2, <1>10, <2>1, EntryIsView DEF ViewGone
<1>12. \A d \in Inodes : \A m, j :
          InEntries(inodeTable', block', d, m, j) <=>
              InEntries(inodeTable, block, d, m, j) /\ j # i
  BY <1>11 DEF InEntries
<1>13. TreeShrunk(inodeTable, block, inodeTable', block', par, n, i)
  BY <1>3, <1>5, <1>8, <1>9, <1>12 DEF TreeShrunk, SameDirs
<1>14. QED
  BY <1>7, <1>13 DEF TreeStep, TreeInv

\* What is written to inodes of files shows in no directory.
LEMMA FileInodeView ==
    ASSUME NEW it, NEW bl, NEW it2, SameTypes(it, it2),
           \A d \in Inodes : it[d].type = "DIR" => it2[d] = it[d]
    PROVE  ViewSame(it, bl, it2, bl)
  BY DEF SameTypes, ViewSame, View

\* Nor does what is written to a block that no directory has.
LEMMA OtherBlockView ==
    ASSUME NEW it \in [Inodes -> Inode], NEW bl \in [DataBlocks -> [Slots -> Cell]],
           NEW b, NEW c,
           \A d \in Inodes, k \in Idx :
              it[d].type = "DIR" /\ it[d].direct[k] # NoBlock => it[d].direct[k] # b
    PROVE  ViewSame(it, bl, it, [bl EXCEPT ![b] = c])
<1> DEFINE bl2 == [bl EXCEPT ![b] = c]
<1>1. ASSUME NEW d \in Inodes, it[d].type = "DIR", NEW p \in Positions(it[d])
      PROVE  CellAt(it[d], bl2, p) = CellAt(it[d], bl, p)
  <2>1. /\ p[1] \in Idx /\ it[d].direct[p[1]] \in DataBlocks
        /\ it[d].direct[p[1]] # NoBlock
    BY PositionWhere
  <2>2. it[d].direct[p[1]] # b
    BY <1>1, <2>1
  <2>3. QED
    BY <2>1, <2>2 DEF CellAt
<1> HIDE DEF bl2
<1>2. ViewSame(it, bl, it, bl2)
  BY <1>1 DEF ViewSame, View
<1>3. QED
  BY <1>2 DEF bl2

\* create starts with a new file, which shows in no directory.
LEMMA NewFileFresh ==
    ASSUME EntryInv, NEW i \in Inodes \ inodeBitmap, NEW par \in Inodes,
           NEW it, it = [inodeTable EXCEPT ![i] = NewFile]
    PROVE  /\ Disks(it, block) /\ TableCovered(it, blockBitmap) /\ TableApart(it)
           /\ Fresh(it, block, i, par)
           /\ TreeInv => /\ TreeGood(it, block)
                         /\ ReachKept(inodeTable, block, it, block)
<1>t. /\ inodeTable \in [Inodes -> Inode] /\ block \in [DataBlocks -> [Slots -> Cell]]
      /\ TableCovered(inodeTable, blockBitmap) /\ TableApart(inodeTable)
  BY DEF EntryInv, OwnershipInv, TypeOK, NoSharedBlock, TableApart
<1>1. NewFile \in Inode /\ NewFile.type = "FILE" /\ \A k \in Idx : NewFile.direct[k] = NoBlock
  BY ContentsType DEF NewFile, NoPointers
<1>2. inodeTable[i].type = "FREE"
  BY DEF EntryInv, Agrees
<1>3. /\ it \in [Inodes -> Inode] /\ it[i] = NewFile
      /\ \A d \in Inodes : d # i => it[d] = inodeTable[d]
  BY <1>t, <1>1
<1>4. Disks(inodeTable, block) /\ Disks(it, block)
  BY <1>t, <1>3 DEF Disks
<1>5. TableCovered(it, blockBitmap)
  BY <1>t, <1>1, <1>3 DEF TableCovered, Covered
<1>6. TableApart(it)
  <2>1. Apart(i, NewFile, i, NewFile)
    BY <1>1 DEF Apart
  <2>2. QED
    BY <1>t, <1>1, <2>1, ReplaceInode
<1>7. ViewSame(inodeTable, block, it, block)
  BY <1>1, <1>2, <1>3 DEF ViewSame, View
<1>8. Fresh(it, block, i, par)
  BY <1>1, <1>2, <1>3, <1>7 DEF Fresh, ViewSame, View, FreeCell
<1>9. \A d \in Inodes : it[d].type = "DIR" <=> inodeTable[d].type = "DIR"
  BY <1>1, <1>2, <1>3
<1>10. ASSUME TreeInv
       PROVE  TreeGood(it, block) /\ ReachKept(inodeTable, block, it, block)
  BY <1>10, <1>4, <1>7, <1>9, SameTree DEF TreeInv
<1>11. QED
  BY <1>4, <1>5, <1>6, <1>8, <1>10

MadeDir(it, bl, i, b, par) ==
    /\ it = [inodeTable EXCEPT ![i] = NewDir(b)]
    /\ bl = [block EXCEPT ![b] = DotsBlock(i, par)]

\* mkdir starts with a new directory that shows its dots, in no directory.
LEMMA NewDirFresh ==
    ASSUME EntryInv, NEW i \in Inodes \ inodeBitmap, NEW b \in DataBlocks \ blockBitmap,
           NEW par \in Inodes, NEW it, NEW bl, MadeDir(it, bl, i, b, par)
    PROVE  /\ Disks(it, bl) /\ TableCovered(it, blockBitmap \cup {b}) /\ TableApart(it)
           /\ Fresh(it, bl, i, par)
           /\ TreeInv => /\ TreeGood(it, bl)
                         /\ ReachKept(inodeTable, block, it, bl)
<1>t. /\ inodeTable \in [Inodes -> Inode] /\ block \in [DataBlocks -> [Slots -> Cell]]
      /\ TableCovered(inodeTable, blockBitmap) /\ TableApart(inodeTable)
  BY DEF EntryInv, OwnershipInv, TypeOK, NoSharedBlock, TableApart
<1>1. /\ NewDir(b) \in Inode /\ NewDir(b).type = "DIR"
      /\ \A k \in Idx : NewDir(b).direct[k] = IF k = 0 THEN b ELSE NoBlock
  BY ContentsType, GeometryAssumption DEF NewDir, NoPointers
<1>2. inodeTable[i].type = "FREE" /\ i # Root
  BY DEF EntryInv, Agrees
<1>3. /\ it \in [Inodes -> Inode] /\ it[i] = NewDir(b)
      /\ \A d \in Inodes : d # i => it[d] = inodeTable[d]
  BY <1>t, <1>1 DEF MadeDir
<1>4. bl \in [DataBlocks -> [Slots -> Cell]] /\ bl[b] = DotsBlock(i, par)
  BY <1>t, ContentsType DEF MadeDir
<1>5. Disks(inodeTable, block) /\ Disks(it, bl)
  BY <1>t, <1>3, <1>4 DEF Disks
<1>6. TableCovered(it, blockBitmap \cup {b})
  BY <1>t, <1>1, <1>3 DEF TableCovered, Covered
<1>7. TableApart(it)
  <2>1. Apart(i, NewDir(b), i, NewDir(b))
    BY <1>1 DEF Apart
  <2>2. QED
    BY <1>t, <1>1, <2>1, ReplaceInode DEF MadeDir
<1>8. ViewSame(inodeTable, block, inodeTable, bl)
  <2>1. \A d \in Inodes, k \in Idx :
           inodeTable[d].type = "DIR" /\ inodeTable[d].direct[k] # NoBlock => inodeTable[d].direct[k] # b
    BY <1>t DEF TableCovered, Covered
  <2>2. QED
    BY <1>t, <2>1, OtherBlockView DEF MadeDir
<1>9. \A d \in Inodes, p \in Where : d # i => View(it, bl, d, p) = View(inodeTable, block, d, p)
  <2>1. \A d \in Inodes, p \in Where : d # i => View(it, bl, d, p) = View(inodeTable, bl, d, p)
    BY <1>3 DEF View
  <2>2. QED
    BY <1>8, <2>1 DEF ViewSame
<1>i. i \in Inodes /\ b \in DataBlocks
  OBVIOUS
<1>10. \A p \in Where : View(it, bl, i, p) =
          IF p = <<0, 0>> THEN [inode |-> i, name |-> Dot]
          ELSE IF p = <<0, 1>> THEN [inode |-> par, name |-> DotDot] ELSE FreeCell
  BY <1>3, <1>4, <1>i, NewDirView
<1>11. ViewNew(inodeTable, block, it, bl, i, par)
  BY <1>9, <1>10 DEF ViewNew
<1>12. Fresh(it, bl, i, par)
  <2>1. \A p \in Where : View(it, bl, i, p).name \in {NoName, Dot, DotDot}
    BY <1>10 DEF FreeCell
  <2>2. View(it, bl, i, <<0, 1>>).inode = par
    BY <1>10, DotPlaces
  <2>3. QED
    BY <1>3, <1>9, <2>1, <2>2 DEF Fresh
<1>13. ~Named(inodeTable, block, i)
  BY UnmarkedUnnamed
<1>14. ASSUME TreeInv
       PROVE  TreeGood(it, bl) /\ ReachKept(inodeTable, block, it, bl)
  <2>1. inodeTable[i].type # "DIR" /\ it[i].type = "DIR"
    BY <1>1, <1>2, <1>3
  <2>2. \A d \in Inodes : d # i => it[d].type = inodeTable[d].type
    BY <1>3
  <2>3. QED
    BY <1>14, <1>i, <1>2, <1>5, <1>11, <1>13, <2>1, <2>2, NewDirTree DEF TreeInv
<1>15. QED
  BY <1>5, <1>6, <1>7, <1>12, <1>14

\* Whatever create does, and that the new name is found.
LEMMA CreateTree ==
    ASSUME LongNames = {}, TreeInv, EntryInv', NEW par \in Inodes, NEW n \in Names,
           ReadyIn(par, n),
           NEW i \in Inodes \ inodeBitmap, CreateNew(par, n, i)
    PROVE  /\ TreeStep
           /\ rc' = "OK" => /\ i \in Lookup(inodeTable', block', par, n)
                            /\ inodeTable'[i].type = "FILE"
<1> DEFINE cell == [inode |-> i, name |-> Stored(n)]
           it == [inodeTable EXCEPT ![i] = NewFile]
           s == TakeInode(sb)
<1>1. it = [inodeTable EXCEPT ![i] = NewFile] /\ cell = [inode |-> i, name |-> Stored(n)]
  OBVIOUS
<1>2. /\ Lookup(inodeTable, block, par, n) = {}
      /\ AddEntry(par, cell, it, block, blockBitmap, s)
            \/ AddEntryFails(par, it, block, blockBitmap, s)
      /\ rc' = "OK" => AddEntry(par, cell, it, block, blockBitmap, s)
  BY DEF CreateNew
<1>3. it[i].type = "FILE"
  BY DEF NewFile, TreeInv, EntryInv, OwnershipInv, TypeOK
<1> HIDE DEF it, cell, s
<1>4. /\ Disks(it, block) /\ TableCovered(it, blockBitmap) /\ TableApart(it)
      /\ Fresh(it, block, i, par) /\ TreeGood(it, block)
      /\ ReachKept(inodeTable, block, it, block)
  BY <1>1, NewFileFresh DEF TreeInv
<1>5. ASSUME AddEntry(par, cell, it, block, blockBitmap, s) PROVE SameTypes(it, inodeTable')
  <2>1. cell \in Cell
    BY <1>1, StoredType DEF Cell
  <2>2. it[par].type = "DIR"
    <3>1. inodeTable[par].type = "DIR" /\ inodeTable[i].type = "FREE"
      BY DEF ReadyIn, TreeInv, EntryInv, Agrees
    <3>2. QED
      BY <1>4, <3>1 DEF Fresh
  <2>3. QED
    BY <1>4, <1>5, <2>1, <2>2, AddEntryOneMore DEF Disks
<1>6. /\ TreeStep
      /\ AddEntry(par, cell, it, block, blockBitmap, s) => i \in Lookup(inodeTable', block', par, n)
  BY <1>1, <1>2, <1>4, <1>5, NewNodeStep
<1>7. QED
  BY <1>2, <1>3, <1>5, <1>6 DEF SameTypes

\* Whatever mkdir does.
LEMMA MkdirTree ==
    ASSUME LongNames = {}, TreeInv, EntryInv', NEW par \in Inodes, NEW n \in Names,
           ReadyIn(par, n),
           NEW i \in Inodes \ inodeBitmap, NEW b \in DataBlocks \ blockBitmap,
           MkdirNew(par, n, i, b)
    PROVE  TreeStep
<1> DEFINE cell == [inode |-> i, name |-> Stored(n)]
           it == [inodeTable EXCEPT ![i] = NewDir(b)]
           bl == [block EXCEPT ![b] = DotsBlock(i, par)]
           bb == blockBitmap \cup {b}
           s == TakeInode(TakeBlock(sb))
<1>1. /\ it = [inodeTable EXCEPT ![i] = NewDir(b)] /\ cell = [inode |-> i, name |-> Stored(n)]
      /\ bl = [block EXCEPT ![b] = DotsBlock(i, par)] /\ bb = blockBitmap \cup {b}
  OBVIOUS
<1>2. /\ Lookup(inodeTable, block, par, n) = {}
      /\ AddEntry(par, cell, it, bl, bb, s) \/ AddEntryFails(par, it, bl, bb, s)
  BY DEF MkdirNew
<1> HIDE DEF it, bl, bb, cell, s
<1>4. /\ Disks(it, bl) /\ TableCovered(it, bb) /\ TableApart(it)
      /\ Fresh(it, bl, i, par) /\ TreeGood(it, bl)
      /\ ReachKept(inodeTable, block, it, bl)
  BY <1>1, NewDirFresh DEF MadeDir, TreeInv
<1>5. ASSUME AddEntry(par, cell, it, bl, bb, s) PROVE SameTypes(it, inodeTable')
  <2>1. cell \in Cell
    BY <1>1, StoredType DEF Cell
  <2>2. it[par].type = "DIR"
    <3>1. inodeTable[par].type = "DIR" /\ inodeTable[i].type = "FREE"
      BY DEF ReadyIn, TreeInv, EntryInv, Agrees
    <3>2. QED
      BY <1>4, <3>1 DEF Fresh
  <2>3. QED
    BY <1>4, <1>5, <2>1, <2>2, AddEntryOneMore DEF Disks
<1>6. QED
  BY <1>1, <1>2, <1>4, <1>5, NewNodeStep

\* Every callback and every event keeps the tree, or adds or removes one entry.
LEMMA NextTree == LongNames = {} /\ ~CutPaths /\ TreeInv /\ [Next]_vars => TreeStep
<1> SUFFICES ASSUME LongNames = {}, ~CutPaths, TreeInv, [Next]_vars PROVE TreeStep
  OBVIOUS
<1>e. EntryInv /\ EntryInv'
  BY NextEntries DEF TreeInv, EntryStep
<1>t. /\ inodeTable \in [Inodes -> Inode] /\ block \in [DataBlocks -> [Slots -> Cell]]
      /\ TableCovered(inodeTable, blockBitmap)
  BY <1>e DEF EntryInv, OwnershipInv, TypeOK
<1>h. \A w \in writing : /\ w \in WriteLoop /\ w.inode \in Inode
                         /\ w.inode.type = "FILE" /\ inodeTable[w.ino].type = "FILE"
  BY <1>e DEF EntryInv, Handles, OwnershipInv, TypeOK, WriteLoop
<1>0. ASSUME UNCHANGED <<inodeTable, block>> PROVE TreeStep
  <2>1. ViewSame(inodeTable, block, inodeTable', block')
    BY <1>0 DEF ViewSame
  <2>2. SameTypes(inodeTable, inodeTable')
    BY <1>0 DEF SameTypes
  <2>3. QED
    BY <1>e, <2>1, <2>2, SameTreeStep
<1>f. ASSUME NEW code, Fail(code) PROVE TreeStep
  BY <1>f, <1>0 DEF Fail, disk
<1>1. ASSUME NEW par \in Inodes, NEW n \in Names, Create(par, n)
      PROVE  TreeStep
  <2>1. ReadyIn(par, n)
    BY <1>1 DEF Create
  <2>2. ASSUME NEW i \in FirstFit(Inodes \ inodeBitmap), CreateNew(par, n, i) PROVE TreeStep
    <3>1. i \in Inodes \ inodeBitmap
      BY DEF FirstFit
    <3>2. QED
      BY <1>1, <1>e, <2>1, <2>2, <3>1, CreateTree
  <2>3. QED
    BY <1>1, <1>f, <2>2 DEF Create, CreateRefused
<1>2. ASSUME NEW par \in Inodes, NEW n \in Names, Mkdir(par, n)
      PROVE  TreeStep
  <2>1. ReadyIn(par, n)
    BY <1>2 DEF Mkdir
  <2>2. ASSUME NEW i \in FirstFit(Inodes \ inodeBitmap),
               NEW b \in FirstFit(DataBlocks \ blockBitmap), MkdirNew(par, n, i, b)
        PROVE  TreeStep
    <3>1. i \in Inodes \ inodeBitmap /\ b \in DataBlocks \ blockBitmap
      BY DEF FirstFit
    <3>2. QED
      BY <1>2, <1>e, <2>1, <2>2, <3>1, MkdirTree
  <2>3. QED
    BY <1>2, <1>f, <2>2 DEF Mkdir, MkdirRefused
<1>3. ASSUME NEW par \in Inodes, NEW n \in Names, Unlink(par, n)
      PROVE  TreeStep
  <2>1. ASSUME NEW i \in Lookup(inodeTable, block, par, n), inodeTable[i].type = "FILE",
               Discard(par, n, i)
        PROVE  TreeStep
    <3>1. inodeTable[par].type = "DIR"
      BY <1>3 DEF Unlink, ReadyIn
    <3>2. \A p \in Where : ~HasEntry(inodeTable, block, i, p)
      BY <2>1 DEF HasEntry
    <3>3. QED
      BY <1>3, <1>e, <2>1, <3>1, <3>2, DiscardTree
  <2>2. QED
    BY <1>3, <1>f, <2>1 DEF Unlink
<1>4. ASSUME NEW par \in Inodes, NEW n \in Names, Rmdir(par, n)
      PROVE  TreeStep
  <2>1. ASSUME NEW i \in Lookup(inodeTable, block, par, n),
               Listed(inodeTable[i], block) = {}, Discard(par, n, i)
        PROVE  TreeStep
    <3>1. inodeTable[par].type = "DIR"
      BY <1>4 DEF Rmdir, ReadyIn
    <3>2. i \in Inodes
      BY <1>4, <1>t, LookupType
    <3>3. ASSUME NEW p \in Where, HasEntry(inodeTable, block, i, p) PROVE FALSE
      <4>1. Target(inodeTable, block, i, p) # Root
        BY <1>e, <3>2, <3>3 DEF EntryInv, Resolve
      <4>2. p \in Listed(inodeTable[i], block)
        BY <3>3, <4>1 DEF HasEntry, Target, Listed
      <4>3. QED
        BY <2>1, <4>2
    <3>4. QED
      BY <1>4, <1>e, <2>1, <3>1, <3>3, DiscardTree
  <2>2. QED
    BY <1>4, <1>f, <2>1 DEF Rmdir
<1>5. ASSUME NEW par \in Inodes, NEW n \in Names, Open(par, n)
      PROVE  TreeStep
  BY <1>5, <1>f, <1>0 DEF Open, OpenFound, disk
<1>6. ASSUME NEW par \in Inodes, NEW n \in Names, NEW keep \in 0 .. DirectBlocks,
             Truncate(par, n, keep)
      PROVE  TreeStep
  <2> DEFINE drop(i) == {k \in Pointers(inodeTable[i]) : k >= keep}
  <2>1. ASSUME NEW i \in Lookup(inodeTable, block, par, n), inodeTable[i].type = "FILE",
               inodeTable' = [inodeTable EXCEPT ![i] = Shortened(inodeTable[i], drop(i))],
               UNCHANGED block
        PROVE  TreeStep
    <3> DEFINE r == Shortened(inodeTable[i], drop(i))
    <3>1. i \in Inodes
      BY <1>6, <1>t, LookupType
    <3>2. r.type = "FILE"
      BY <1>t, <2>1, <3>1 DEF Shortened, Inode
    <3>3. inodeTable' = [inodeTable EXCEPT ![i] = r]
      BY <2>1
    <3> HIDE DEF r, drop
    <3>4. /\ SameTypes(inodeTable, inodeTable')
          /\ \A d \in Inodes : inodeTable[d].type = "DIR" => inodeTable'[d] = inodeTable[d]
      BY <1>t, <2>1, <3>1, <3>2, <3>3 DEF SameTypes
    <3>5. ViewSame(inodeTable, block, inodeTable', block')
      BY <2>1, <3>4, FileInodeView
    <3>6. QED
      BY <1>e, <3>4, <3>5, SameTreeStep
  <2>2. QED
    BY <1>6, <1>f, <2>1 DEF Truncate, TruncateFound
<1>7. ASSUME NEW b, block' = [block EXCEPT ![b] = DataBlock],
             \A d \in Inodes, k \in Idx : inodeTable[d].type = "DIR"
                 /\ inodeTable[d].direct[k] # NoBlock => inodeTable[d].direct[k] # b,
             UNCHANGED inodeTable
      PROVE  TreeStep
  <2>1. ViewSame(inodeTable, block, inodeTable', block')
    BY <1>7, <1>t, OtherBlockView
  <2>2. SameTypes(inodeTable, inodeTable')
    BY <1>7 DEF SameTypes
  <2>3. QED
    BY <1>e, <2>1, <2>2, SameTreeStep
<1>8. ASSUME NEW w \in writing, WriteInPlace(w)
      PROVE  TreeStep
  <2> DEFINE b == w.inode.direct[w.next]
  <2>1. w.next \in Idx
    BY <1>8, <1>h, GeometryAssumption DEF WriteInPlace, InLoop, WriteLoop
  <2>2. \A d \in Inodes, k \in Idx : inodeTable[d].type = "DIR"
           /\ inodeTable[d].direct[k] # NoBlock => inodeTable[d].direct[k] # b
    BY <1>h, <1>e, <2>1 DEF EntryInv, OwnershipInv, NoSharedBlock, Apart
  <2>3. block' = [block EXCEPT ![b] = DataBlock] /\ UNCHANGED inodeTable
    BY <1>8 DEF WriteInPlace
  <2> HIDE DEF b
  <2>4. QED
    BY <1>7, <2>2, <2>3
<1>9. ASSUME NEW w \in writing, WriteAlloc(w)
      PROVE  TreeStep
  <2>1. PICK b \in FirstFit(DataBlocks \ blockBitmap) : block' = [block EXCEPT ![b] = DataBlock]
    BY <1>9 DEF WriteAlloc
  <2>2. b \in DataBlocks /\ b \notin blockBitmap
    BY DEF FirstFit
  <2>3. \A d \in Inodes, k \in Idx : inodeTable[d].type = "DIR"
           /\ inodeTable[d].direct[k] # NoBlock => inodeTable[d].direct[k] # b
    BY <1>t, <2>2 DEF TableCovered, Covered
  <2>4. UNCHANGED inodeTable
    BY <1>9 DEF WriteAlloc
  <2>5. QED
    BY <1>7, <2>1, <2>3, <2>4
<1>10. ASSUME NEW w \in writing, WriteEnd(w)
       PROVE  TreeStep
  <2>1. inodeTable' = [inodeTable EXCEPT ![w.ino] = w.inode] /\ UNCHANGED block
    BY <1>10 DEF WriteEnd
  <2>2. /\ SameTypes(inodeTable, inodeTable')
        /\ \A d \in Inodes : inodeTable[d].type = "DIR" => inodeTable'[d] = inodeTable[d]
    BY <1>h, <1>t, <2>1 DEF SameTypes
  <2>3. ViewSame(inodeTable, block, inodeTable', block')
    BY <2>1, <2>2, FileInodeView
  <2>4. QED
    BY <1>e, <2>2, <2>3, SameTreeStep
<1>11. ASSUME NEW i, NEW first, NEW last, WriteBegin(i, first, last) PROVE TreeStep
  BY <1>11, <1>f, <1>0 DEF WriteBegin, disk
<1>12. ASSUME NEW w, WriteNoSpace(w) PROVE TreeStep
  BY <1>12, <1>0 DEF WriteNoSpace, disk
<1>13. ASSUME NEW i, Release(i) PROVE TreeStep
  BY <1>13, <1>0 DEF Release, disk
<1>14. CASE Mount \/ Unmount \/ Kill \/ UNCHANGED vars
  BY <1>14, <1>0 DEF Mount, Unmount, Kill, vars, disk
<1>15. QED
  BY <1>1, <1>2, <1>3, <1>4, <1>5, <1>6, <1>8, <1>9, <1>10, <1>11, <1>12, <1>13, <1>14
     DEF Next

\* The names fit a slot and the paths fit the buffers.
AllFits == LongNames = {} /\ ~CutPaths

\* Where names and paths fit the invariant holds in every state.
LEMMA TreeInvariant == AllFits /\ Spec => []TreeInv
<1>1. AllFits /\ TreeInv /\ [Next]_vars => TreeInv'
  BY NextTree DEF TreeStep, AllFits
<1>2. CASE AllFits
  <2>1. TreeInv /\ [Next]_vars => TreeInv'
    BY <1>1, <1>2
  <2>2. QED
    BY <2>1, InitTree, PTL DEF Spec
<1>3. QED
  BY <1>2

-----------------------------------------------------------------------------
(* What the invariant says of the views the properties are stated in *)

\* The invariant implies the property.
LEMMA TreeImplies == TreeInv => TreeConnected
<1> SUFFICES ASSUME TreeInv PROVE TreeConnected
  OBVIOUS
<1> DEFINE dot(d, s) == block[inodeTable[d].direct[0]][s]
<1>d. Disks(inodeTable, block) /\ inodeTable[Root].type = "DIR"
  BY DEF TreeInv, EntryInv, OwnershipInv, TypeOK, Disks, TreeGood, RootIsDir
<1>1. FreeCell.name = NoName /\ Dot # NoName /\ DotDot # NoName
  BY NameAssumption DEF FreeCell
<1>2. ASSUME NEW d \in Inodes, inodeTable[d].type = "DIR"
      PROVE  /\ dot(d, 0) = View(inodeTable, block, d, <<0, 0>>)
             /\ dot(d, 1) = View(inodeTable, block, d, <<0, 1>>)
             /\ dot(d, 0) = [inode |-> d, name |-> Dot]
             /\ dot(d, 1).name = DotDot
  <2>1. /\ View(inodeTable, block, d, <<0, 0>>) = [inode |-> d, name |-> Dot]
        /\ View(inodeTable, block, d, <<0, 1>>).name = DotDot
    BY <1>2 DEF TreeInv, TreeGood, Dotted
  <2>2. /\ View(inodeTable, block, d, <<0, 0>>) # FreeCell
        /\ View(inodeTable, block, d, <<0, 1>>) # FreeCell
    BY <1>1, <2>1
  <2>3. /\ dot(d, 0) = View(inodeTable, block, d, <<0, 0>>)
        /\ dot(d, 1) = View(inodeTable, block, d, <<0, 1>>)
    BY <2>2 DEF View, CellAt
  <2>4. QED
    BY <2>1, <2>3
<1>3. ASSUME NEW d \in PathDirs(inodeTable, block)
      PROVE  /\ dot(d, 0) = [inode |-> d, name |-> Dot]
             /\ dot(d, 1).name = DotDot
             /\ \/ d = Root /\ dot(d, 1).inode = Root
                \/ \E l \in Links : l[1] = dot(d, 1).inode /\ l[3] = d
  <2>1. /\ d \in Inodes /\ inodeTable[d].type = "DIR"
        /\ d = Root \/ Named(inodeTable, block, d)
    BY <1>d, PathDirsNamed
  <2>2. d = Root => dot(d, 1).inode = Root
    BY <1>2, <2>1 DEF TreeInv, TreeGood, RootIsDir
  <2>3. ASSUME Named(inodeTable, block, d)
        PROVE  \E l \in Links : l[1] = dot(d, 1).inode /\ l[3] = d
    <3>1. PICK e \in Inodes, p \in Where :
              HasEntry(inodeTable, block, e, p) /\ Target(inodeTable, block, e, p) = d
      BY <2>3 DEF Named
    <3>2. <<e, p, d>> \in Links
      BY <3>1, LinksAreEntries
    <3>3. dot(d, 1).inode = e
      BY <1>2, <2>1, <3>1 DEF TreeInv, TreeGood, ParentNamed
    <3>4. QED
      BY <3>2, <3>3
  <2>4. QED
    BY <1>2, <2>1, <2>2, <2>3
<1>4. ASSUME NEW l \in Links PROVE Fits(inodeTable, block, l[1], EntryAt(l[1], l[2]).name)
  <2>1. PICK d \in Inodes, p \in Where : HasEntry(inodeTable, block, d, p) /\ l[1] = d /\ l[2] = p
    BY LinksAreEntries
  <2>2. EntryAt(d, p).name = View(inodeTable, block, d, p).name
    BY <2>1 DEF HasEntry, View, EntryAt
  <2>3. QED
    BY <2>1, <2>2 DEF TreeInv, TreeGood, AllReached
<1>5. QED
  BY <1>3, <1>4 DEF TreeConnected

\* S is the set of entries, and D that of the directories, of the tree.
AreEntries(S, it, bl) ==
    \A e : e \in S <=> \E d \in Inodes : \E m, j :
                          e = [dir |-> d, name |-> m, id |-> j] /\ InEntries(it, bl, d, m, j)

AreDirs(D, it, bl) == \A i : i \in D <=> i \in Inodes /\ it[i].type = "DIR" /\ OfTree(it, bl, i)

AreLinks(L, it, bl) ==
    \A l : l \in L <=> \E d \in Inodes, p \in Where :
                          HasEntry(it, bl, d, p) /\ l = <<d, p, Target(it, bl, d, p)>>

EntriesOfLinks(L, it, bl) ==
    LET tree == {Root} \cup {l[3] : l \in L}
    IN  {[dir |-> l[1], name |-> CellAt(it[l[1]], bl, l[2]).name, id |-> l[3]] :
            l \in {m \in L : m[1] \in tree}}

\* Where every entry is in reach, the tree has all entries.
LEMMA LinksGiveEntries ==
    ASSUME NEW it, NEW bl, Disks(it, bl), TreeGood(it, bl), NEW L, AreLinks(L, it, bl)
    PROVE  AreEntries(EntriesOfLinks(L, it, bl), it, bl)
<1> DEFINE tree == {Root} \cup {l[3] : l \in L}
           S == EntriesOfLinks(L, it, bl)
<1>1. ASSUME NEW d \in Inodes, NEW p \in Where, HasEntry(it, bl, d, p)
      PROVE  /\ <<d, p, Target(it, bl, d, p)>> \in {m \in L : m[1] \in tree}
             /\ CellAt(it[d], bl, p).name = View(it, bl, d, p).name
  <2>1. d \in PathDirs(it, bl)
    BY <1>1, FitsIn DEF TreeGood, AllReached, ShortEntries, Names
  <2>2. d = Root \/ Named(it, bl, d)
    BY <2>1, PathDirsNamed DEF TreeGood, RootIsDir
  <2>3. d \in tree
    <3>1. ASSUME Named(it, bl, d) PROVE d \in {l[3] : l \in L}
      <4>1. PICK e \in Inodes, q \in Where : HasEntry(it, bl, e, q) /\ Target(it, bl, e, q) = d
        BY <3>1 DEF Named
      <4>2. <<e, q, d>> \in L
        BY <4>1 DEF AreLinks
      <4>3. QED
        BY <4>2
    <3>2. QED
      BY <2>2, <3>1
  <2>4. <<d, p, Target(it, bl, d, p)>> \in L
    BY <1>1 DEF AreLinks
  <2> HIDE DEF tree
  <2>5. QED
    BY <1>1, <2>3, <2>4 DEF HasEntry, View
<1>2. ASSUME NEW e \in S
      PROVE  \E d \in Inodes : \E m, j :
                e = [dir |-> d, name |-> m, id |-> j] /\ InEntries(it, bl, d, m, j)
  <2>1. PICK l \in L : e = [dir |-> l[1], name |-> CellAt(it[l[1]], bl, l[2]).name, id |-> l[3]]
    BY DEF EntriesOfLinks
  <2>2. PICK d \in Inodes, p \in Where :
           HasEntry(it, bl, d, p) /\ l = <<d, p, Target(it, bl, d, p)>>
    BY DEF AreLinks
  <2>3. e = [dir |-> d, name |-> View(it, bl, d, p).name, id |-> Target(it, bl, d, p)]
    BY <1>1, <2>1, <2>2
  <2>4. InEntries(it, bl, d, View(it, bl, d, p).name, Target(it, bl, d, p))
    BY <2>2 DEF InEntries
  <2>5. QED
    BY <2>3, <2>4
<1>3. ASSUME NEW d \in Inodes, NEW m, NEW j, InEntries(it, bl, d, m, j)
      PROVE  [dir |-> d, name |-> m, id |-> j] \in S
  <2>1. PICK p \in Where : /\ HasEntry(it, bl, d, p)
                           /\ View(it, bl, d, p).name = m
                           /\ Target(it, bl, d, p) = j
    BY <1>3 DEF InEntries
  <2> DEFINE l == <<d, p, j>>
  <2>2. l \in {x \in L : x[1] \in tree} /\ CellAt(it[d], bl, p).name = m
    BY <1>1, <2>1
  <2>3. l[1] = d /\ l[2] = p /\ l[3] = j
    OBVIOUS
  <2> HIDE DEF l
  <2>4. QED
    BY <2>2, <2>3 DEF EntriesOfLinks
<1> HIDE DEF S
<1>4. QED
  BY <1>2, <1>3 DEF AreEntries, S

\* TreeEntries and TreeDirs are the entries and directories of the tree, before
\* a step and after it.
LEMMA TreeViews ==
    /\ TreeInv => /\ AreEntries(TreeEntries, inodeTable, block)
                  /\ AreDirs(TreeDirs, inodeTable, block)
    /\ TreeInv' => /\ AreEntries(TreeEntries', inodeTable', block')
                   /\ AreDirs(TreeDirs', inodeTable', block')
<1>1. ASSUME TreeInv
      PROVE  AreEntries(TreeEntries, inodeTable, block) /\ AreDirs(TreeDirs, inodeTable, block)
  <2>1. Disks(inodeTable, block) /\ TreeGood(inodeTable, block)
    BY <1>1 DEF TreeInv, EntryInv, OwnershipInv, TypeOK, Disks
  <2>2. AreLinks(Links, inodeTable, block)
    BY LinksAreEntries DEF AreLinks
  <2>3. TreeEntries = EntriesOfLinks(Links, inodeTable, block)
    BY DEF TreeEntries, EntriesOfLinks, EntryAt
  <2>4. AreDirs(TreeDirs, inodeTable, block)
    BY LinkedIsNamed DEF TreeDirs, InTree, DirInodes, AreDirs, OfTree
  <2>5. QED
    BY <2>1, <2>2, <2>3, <2>4, LinksGiveEntries
<1>2. ASSUME TreeInv'
      PROVE  /\ AreEntries(TreeEntries', inodeTable', block')
             /\ AreDirs(TreeDirs', inodeTable', block')
  <2>1. Disks(inodeTable', block') /\ TreeGood(inodeTable', block')
    BY <1>2 DEF TreeInv, EntryInv, OwnershipInv, TypeOK, Disks
  <2>2. AreLinks(Links', inodeTable', block')
    BY LinksAreEntriesNext DEF AreLinks
  <2>3. TreeEntries' = EntriesOfLinks(Links', inodeTable', block')
    BY DEF TreeEntries, EntriesOfLinks, EntryAt
  <2>4. AreDirs(TreeDirs', inodeTable', block')
    BY LinkedIsNamed DEF TreeDirs, InTree, DirInodes, AreDirs, OfTree
  <2>5. QED
    BY <2>1, <2>2, <2>3, <2>4, LinksGiveEntries
<1>3. QED
  BY <1>1, <1>2

\* An inode has an entry if and only if some directory has one of it.
LEMMA NamedInEntries ==
    ASSUME NEW it, NEW bl, NEW i
    PROVE  Named(it, bl, i) <=> \E d \in Inodes : \E m : InEntries(it, bl, d, m, i)
  BY DEF Named, InEntries

\* The abstract steps, of the entries and directories given.
AddStep(S, D, S2, D2, e) ==
    /\ e.dir \in D /\ e.name \in ShortNames
    /\ e.id \in Inodes \ ({Root} \cup {f.id : f \in S})
    /\ \A f \in S : ~(f.dir = e.dir /\ f.name = e.name)
    /\ S2 = S \cup {e}
    /\ D2 \in {D, D \cup {e.id}}
    /\ e \in S2 \ S

RemoveStep(S, D, S2, D2, e) ==
    /\ \A f \in S : f.dir # e.id
    /\ S2 = S \ {e}
    /\ D2 = D \ {e.id}
    /\ e \in S \ S2

\* Entries that stay are a step that changes nothing.
LEMMA KeptMap ==
    ASSUME NEW it, NEW bl, NEW it2, NEW bl2, TreeKept(it, bl, it2, bl2),
           NEW S, NEW D, AreEntries(S, it, bl), AreDirs(D, it, bl),
           NEW S2, NEW D2, AreEntries(S2, it2, bl2), AreDirs(D2, it2, bl2)
    PROVE  S2 = S /\ D2 = D
<1>1. S2 = S
  BY DEF AreEntries, TreeKept
<1>2. \A i : OfTree(it2, bl2, i) <=> OfTree(it, bl, i)
  BY NamedInEntries DEF OfTree, TreeKept
<1>3. \A i \in Inodes : OfTree(it, bl, i) => (it2[i].type = "DIR" <=> it[i].type = "DIR")
  BY GeometryAssumption DEF TreeKept, SameDirs
<1>4. D2 = D
  BY <1>2, <1>3 DEF AreDirs
<1>5. QED
  BY <1>1, <1>4

\* A tree that has grown is a new entry.
LEMMA GrownMap ==
    ASSUME NEW it, NEW bl, NEW it2, NEW bl2, NEW par, NEW n, NEW i,
           TreeGrown(it, bl, it2, bl2, par, n, i),
           NEW S, NEW D, AreEntries(S, it, bl), AreDirs(D, it, bl),
           NEW S2, NEW D2, AreEntries(S2, it2, bl2), AreDirs(D2, it2, bl2)
    PROVE  AddStep(S, D, S2, D2, [dir |-> par, name |-> n, id |-> i])
<1> DEFINE e == [dir |-> par, name |-> n, id |-> i]
<1>1. /\ e.dir = par /\ e.name = n /\ e.id = i
      /\ \A d, m, j : [dir |-> d, name |-> m, id |-> j] = e => d = par /\ m = n /\ j = i
  OBVIOUS
<1>2. par \in D /\ n \in ShortNames /\ i \in Inodes /\ i # Root
  BY DEF TreeGrown, AreDirs
<1>3. ASSUME NEW f \in S PROVE f.id # i /\ ~(f.dir = par /\ f.name = n)
  <2>1e. PICK d \in Inodes : \E m, j : f = [dir |-> d, name |-> m, id |-> j] /\ InEntries(it, bl, d, m, j)
    BY DEF AreEntries
  <2>1. PICK m, j : f = [dir |-> d, name |-> m, id |-> j] /\ InEntries(it, bl, d, m, j)
    BY <2>1e
  <2>2. f.dir = d /\ f.name = m /\ f.id = j
    BY <2>1
  <2>3. j # i
    BY <2>1, NamedInEntries DEF TreeGrown
  <2>4. ~(d = par /\ m = n)
    BY <2>1 DEF TreeGrown
  <2>5. QED
    BY <2>2, <2>3, <2>4
<1> HIDE DEF e
<1>4. S2 = S \cup {e}
  <2>1. ASSUME NEW x \in S2 PROVE x \in S \cup {e}
    <3>1e. PICK d \in Inodes : \E m, j : x = [dir |-> d, name |-> m, id |-> j] /\ InEntries(it2, bl2, d, m, j)
      BY DEF AreEntries
    <3>1. PICK m, j : x = [dir |-> d, name |-> m, id |-> j] /\ InEntries(it2, bl2, d, m, j)
      BY <3>1e
    <3>2. InEntries(it, bl, d, m, j) \/ (d = par /\ m = n /\ j = i)
      BY <3>1 DEF TreeGrown
    <3>3. QED
      BY <3>1, <3>2 DEF AreEntries, e
  <2>2. ASSUME NEW x \in S PROVE x \in S2
    BY DEF AreEntries, TreeGrown
  <2>3. e \in S2
    <3>1. InEntries(it2, bl2, par, n, i) /\ par \in Inodes
      BY DEF TreeGrown
    <3>2. QED
      BY <3>1 DEF AreEntries, e
  <2>4. QED
    BY <2>1, <2>2, <2>3
<1>5. e \notin S
  BY <1>1, <1>3
<1>6. \A j : OfTree(it2, bl2, j) <=> OfTree(it, bl, j) \/ j = i
  <2>1. \A j : Named(it2, bl2, j) <=> Named(it, bl, j) \/ j = i
    BY NamedInEntries DEF TreeGrown
  <2>2. QED
    BY <2>1 DEF OfTree
<1>7. \A j \in Inodes : OfTree(it, bl, j) /\ j # i => (it2[j].type = "DIR" <=> it[j].type = "DIR")
  BY DEF TreeGrown, SameDirs
<1>8. ~OfTree(it, bl, i)
  BY <1>2 DEF TreeGrown, OfTree
<1>9. D2 = IF it2[i].type = "DIR" THEN D \cup {i} ELSE D
  BY <1>2, <1>6, <1>7, <1>8 DEF AreDirs
<1>10. e.id \in Inodes \ ({Root} \cup {f.id : f \in S})
  BY <1>1, <1>2, <1>3
<1>11. AddStep(S, D, S2, D2, e)
  BY <1>1, <1>2, <1>3, <1>4, <1>5, <1>9, <1>10 DEF AddStep
<1>12. QED
  BY <1>11 DEF e

\* A tree that has shrunk is an entry that has gone.
LEMMA ShrunkMap ==
    ASSUME NEW it, NEW bl, NEW it2, NEW bl2, NEW par, NEW n, NEW i, Single(it, bl),
           TreeShrunk(it, bl, it2, bl2, par, n, i),
           NEW S, NEW D, AreEntries(S, it, bl), AreDirs(D, it, bl),
           NEW S2, NEW D2, AreEntries(S2, it2, bl2), AreDirs(D2, it2, bl2)
    PROVE  RemoveStep(S, D, S2, D2, [dir |-> par, name |-> n, id |-> i])
<1> DEFINE e == [dir |-> par, name |-> n, id |-> i]
<1>1. /\ e.id = i
      /\ \A d, m, j : [dir |-> d, name |-> m, id |-> j] = e <=> d = par /\ m = n /\ j = i
  OBVIOUS
<1>2. par \in Inodes /\ i \in Inodes /\ i # Root /\ InEntries(it, bl, par, n, i)
  BY DEF TreeShrunk
<1>3. ASSUME NEW d \in Inodes, NEW m, InEntries(it, bl, d, m, i) PROVE d = par /\ m = n
  <2>1. PICK p \in Where : HasEntry(it, bl, d, p) /\ View(it, bl, d, p).name = m
                           /\ Target(it, bl, d, p) = i
    BY <1>3 DEF InEntries
  <2>2. PICK q \in Where : HasEntry(it, bl, par, q) /\ View(it, bl, par, q).name = n
                           /\ Target(it, bl, par, q) = i
    BY <1>2 DEF InEntries
  <2>3. d = par /\ p = q
    BY <1>2, <2>1, <2>2 DEF Single
  <2>4. QED
    BY <2>1, <2>2, <2>3
<1> HIDE DEF e
<1>4. ASSUME NEW d \in Inodes, NEW m, NEW j
      PROVE  InEntries(it2, bl2, d, m, j) <=>
                InEntries(it, bl, d, m, j) /\ [dir |-> d, name |-> m, id |-> j] # e
  <2>1. InEntries(it2, bl2, d, m, j) <=> InEntries(it, bl, d, m, j) /\ j # i
    BY DEF TreeShrunk
  <2>2. InEntries(it, bl, d, m, j) => (j = i <=> [dir |-> d, name |-> m, id |-> j] = e)
    BY <1>1, <1>3
  <2>3. QED
    BY <2>1, <2>2
<1>5. S2 = S \ {e}
  <2>1. ASSUME NEW x \in S2 PROVE x \in S /\ x # e
    BY <1>4 DEF AreEntries
  <2>2. ASSUME NEW x \in S, x # e PROVE x \in S2
    BY <1>4, <2>2 DEF AreEntries
  <2>3. QED
    BY <2>1, <2>2
<1>6. e \in S
  BY <1>2 DEF AreEntries, e
<1>7. ASSUME NEW f \in S PROVE f.dir # i
  <2>1e. PICK d \in Inodes : \E m, j : f = [dir |-> d, name |-> m, id |-> j] /\ InEntries(it, bl, d, m, j)
    BY DEF AreEntries
  <2>1. PICK m, j : f = [dir |-> d, name |-> m, id |-> j] /\ InEntries(it, bl, d, m, j)
    BY <2>1e
  <2>2. f.dir = d
    BY <2>1
  <2>3. QED
    BY <2>1, <2>2 DEF TreeShrunk
<1>8. \A j : OfTree(it2, bl2, j) <=> OfTree(it, bl, j) /\ j # i
  <2>1. \A j : Named(it2, bl2, j) <=> Named(it, bl, j) /\ j # i
    BY NamedInEntries DEF TreeShrunk
  <2>2. QED
    BY <1>2, <2>1 DEF OfTree
<1>9. \A j \in Inodes : OfTree(it, bl, j) /\ j # i => (it2[j].type = "DIR" <=> it[j].type = "DIR")
  BY DEF TreeShrunk, SameDirs
<1>10. D2 = D \ {i}
  BY <1>8, <1>9 DEF AreDirs
<1>11. RemoveStep(S, D, S2, D2, e)
  BY <1>1, <1>5, <1>6, <1>7, <1>10 DEF RemoveStep
<1>12. QED
  BY <1>11 DEF e

\* Every step of the driver is a step of the abstract tree, or none.
LEMMA TreeMap ==
    AllFits /\ TreeInv /\ [Next]_vars => [Tree!Names_Next]_<<TreeEntries, TreeDirs>>
<1> SUFFICES ASSUME AllFits, TreeInv, [Next]_vars
             PROVE  [Tree!Names_Next]_<<TreeEntries, TreeDirs>>
  OBVIOUS
<1>1. TreeStep
  BY NextTree DEF AllFits
<1>2. /\ AreEntries(TreeEntries, inodeTable, block) /\ AreDirs(TreeDirs, inodeTable, block)
      /\ AreEntries(TreeEntries', inodeTable', block') /\ AreDirs(TreeDirs', inodeTable', block')
  BY <1>1, TreeViews DEF TreeStep
<1>3. CASE TreeKept(inodeTable, block, inodeTable', block')
  BY <1>2, <1>3, KeptMap
<1>4. ASSUME NEW par, NEW n, NEW i, TreeGrown(inodeTable, block, inodeTable', block', par, n, i)
      PROVE  Tree!Names_Next
  <2> DEFINE e == [dir |-> par, name |-> n, id |-> i]
  <2>1. AddStep(TreeEntries, TreeDirs, TreeEntries', TreeDirs', e)
    BY <1>2, <1>4, GrownMap
  <2> HIDE DEF e
  <2>2. e \in TreeEntries' \ TreeEntries /\ Tree!Add(e)
    BY <2>1 DEF AddStep, Tree!Add, Tree!Known
  <2>3. QED
    BY <2>2 DEF Tree!Names_Next
<1>5. ASSUME NEW par, NEW n, NEW i, TreeShrunk(inodeTable, block, inodeTable', block', par, n, i)
      PROVE  Tree!Names_Next
  <2>1. Single(inodeTable, block)
    BY DEF TreeInv, EntryInv
  <2> DEFINE e == [dir |-> par, name |-> n, id |-> i]
  <2>2. RemoveStep(TreeEntries, TreeDirs, TreeEntries', TreeDirs', e)
    BY <1>2, <1>5, <2>1, ShrunkMap
  <2> HIDE DEF e
  <2>3. e \in TreeEntries \ TreeEntries' /\ Tree!Remove(e)
    BY <2>2 DEF RemoveStep, Tree!Remove
  <2>4. QED
    BY <2>3 DEF Tree!Names_Next
<1>6. QED
  BY <1>1, <1>3, <1>4, <1>5 DEF TreeStep

\* A fresh image is the tree of one directory.
LEMMA TreeStart == Init => Tree!Names_Init
<1> SUFFICES ASSUME Init PROVE Tree!Names_Init
  OBVIOUS
<1>1. TreeInv
  BY InitTree
<1>2. AreEntries(TreeEntries, inodeTable, block) /\ AreDirs(TreeDirs, inodeTable, block)
  BY <1>1, TreeViews
<1>3. \A i : ~Named(inodeTable, block, i)
  <2>1. inodeBitmap = {Root}
    BY DEF Init
  <2>2. QED
    BY <1>1, <2>1 DEF TreeInv, EntryInv, Resolve, Named
<1>4. TreeEntries = {}
  BY <1>2, <1>3, NamedInEntries DEF AreEntries
<1>5. inodeTable[Root].type = "DIR" /\ Root \in Inodes
  BY <1>1, GeometryAssumption DEF TreeInv, TreeGood, RootIsDir
<1>6. TreeDirs = {Root}
  BY <1>2, <1>3, <1>5 DEF AreDirs, OfTree
<1>7. QED
  BY <1>4, <1>6 DEF Tree!Names_Init

-----------------------------------------------------------------------------
(* The theorems about paths *)

\* With names that fit a slot, and while no path is cut, every directory in use
\* can be walked to from the root, ".." leads back along the way, and every entry
\* has a path that fits the buffers: a lookup that goes slot by slot never misses
\* or confuses what mkdir made.
THEOREM EveryDirectoryInReach == LongNames = {} /\ ~CutPaths /\ Spec => []TreeConnected
  BY TreeInvariant, TreeImplies, PTL DEF AllFits

\* With names and paths that fit, a create that returned success made a file
\* that the next lookup of that name finds.
THEOREM CreatedNamesFound == LongNames = {} /\ ~CutPaths /\ Spec => CreatedIsFound
<1> DEFINE Found2(par, n) == \E i \in Lookup(inodeTable, block, par, n)' :
                                i \notin inodeBitmap /\ inodeTable'[i].type = "FILE"
<1>1. AllFits /\ TreeInv /\ [Next]_vars =>
         (rc' = "OK" /\ inodeBitmap' # inodeBitmap =>
             \A par \in Inodes, n \in Names : Create(par, n) => Found2(par, n))
  <2> SUFFICES ASSUME AllFits, TreeInv, [Next]_vars, rc' = "OK", inodeBitmap' # inodeBitmap,
                      NEW par \in Inodes, NEW n \in Names, Create(par, n)
               PROVE  Found2(par, n)
    OBVIOUS
  <2>1. EntryInv'
    BY NextEntries DEF TreeInv, EntryStep, AllFits
  <2>2. ~CreateRefused(par, n)
    BY DEF CreateRefused, Fail, disk
  <2>3. ReadyIn(par, n)
    BY DEF Create
  <2>4. PICK i \in FirstFit(Inodes \ inodeBitmap) : CreateNew(par, n, i)
    BY <2>2 DEF Create
  <2>5. i \in Inodes \ inodeBitmap
    BY DEF FirstFit
  <2>6. i \in Lookup(inodeTable', block', par, n) /\ inodeTable'[i].type = "FILE"
    BY <2>1, <2>3, <2>4, <2>5, CreateTree DEF AllFits
  <2>7. i \in Lookup(inodeTable, block, par, n)'
    BY <2>6 DEF Lookup, CellAt, Matches, Positions, Pointers, FirstPos, Before
  <2>8. QED
    BY <2>5, <2>6, <2>7
<1>2. CASE AllFits
  <2>1. TreeInv /\ [Next]_vars =>
           (rc' = "OK" /\ inodeBitmap' # inodeBitmap =>
               \A par \in Inodes, n \in Names : Create(par, n) => Found2(par, n))
    BY <1>1, <1>2
  <2>2. Spec => []TreeInv
    BY <1>2, TreeInvariant
  <2>3. QED
    BY <2>1, <2>2, PTL DEF CreatedIsFound, Spec
<1>3. QED
  BY <1>2 DEF AllFits

\* With names and paths that fit the driver implements the abstract tree of module
\* Namespace: whatever fails half-way, is written, or dies, the names a user
\* sees change by one entry of one callback at a time.
THEOREM DriverIsNamespace == LongNames = {} /\ ~CutPaths /\ Spec => ImplementsNamespace
<1>1. CASE AllFits
  <2>1. TreeInv /\ [Next]_vars => [Tree!Names_Next]_<<TreeEntries, TreeDirs>>
    BY <1>1, TreeMap
  <2>2. Spec => []TreeInv
    BY <1>1, TreeInvariant
  <2>3. QED
    BY <2>1, <2>2, TreeStart, PTL DEF Spec, ImplementsNamespace, Tree!Names_Spec
<1>2. QED
  BY <1>1 DEF AllFits

-----------------------------------------------------------------------------
(* Counters between two bounds *)

\* s counts at least what is clear in the bitmaps bb and ib, and at most what
\* is outside B and I.
Bounds(s, bb, ib, B, I) ==
    /\ Cardinality(DataBlocks \ bb) <= s.free_blocks
    /\ s.free_blocks <= Cardinality(DataBlocks \ B)
    /\ Cardinality(Inodes \ ib) <= s.free_inodes
    /\ s.free_inodes <= Cardinality(Inodes \ I)

\* The sets counted are finite.
LEMMA OutsideFinite ==
    ASSUME NEW B
    PROVE  /\ IsFiniteSet(DataBlocks \ B) /\ Cardinality(DataBlocks \ B) \in Nat
           /\ IsFiniteSet(Inodes \ B) /\ Cardinality(Inodes \ B) \in Nat
<1>1. IsFiniteSet(DataBlocks) /\ IsFiniteSet(Inodes)
  BY GeometryAssumption, FS_Interval
<1>2. IsFiniteSet(DataBlocks \ B)
  BY <1>1, FS_Subset
<1>3. IsFiniteSet(Inodes \ B)
  BY <1>1, FS_Subset
<1>4. QED
  BY <1>2, <1>3, FS_CardinalityType

\* Fewer are outside a larger set.
LEMMA OutsideLess ==
    ASSUME NEW A, NEW B, A \subseteq B
    PROVE  /\ Cardinality(DataBlocks \ B) <= Cardinality(DataBlocks \ A)
           /\ Cardinality(Inodes \ B) <= Cardinality(Inodes \ A)
<1>1. DataBlocks \ B \in SUBSET (DataBlocks \ A) /\ Inodes \ B \in SUBSET (Inodes \ A)
  OBVIOUS
<1>2. QED
  BY <1>1, OutsideFinite, FS_Subset

\* One less is outside when one is added.
LEMMA OutsideTaken ==
    ASSUME NEW A, NEW x
    PROVE  /\ x \in DataBlocks \ A =>
                 Cardinality(DataBlocks \ (A \cup {x})) = Cardinality(DataBlocks \ A) - 1
           /\ x \in Inodes \ A =>
                 Cardinality(Inodes \ (A \cup {x})) = Cardinality(Inodes \ A) - 1
<1>1. /\ DataBlocks \ (A \cup {x}) = (DataBlocks \ A) \ {x}
      /\ Inodes \ (A \cup {x}) = (Inodes \ A) \ {x}
  OBVIOUS
<1>2. QED
  BY <1>1, OutsideFinite, FS_RemoveElement

\* As many more are outside as are removed.
LEMMA OutsideGiven ==
    ASSUME NEW A, NEW D, D \subseteq A, D \subseteq DataBlocks
    PROVE  Cardinality(DataBlocks \ (A \ D)) = Cardinality(DataBlocks \ A) + Cardinality(D)
<1>1. DataBlocks \ (A \ D) = (DataBlocks \ A) \cup D /\ (DataBlocks \ A) \cap D = {}
  OBVIOUS
<1>2. IsFiniteSet(DataBlocks \ A) /\ Cardinality(DataBlocks \ A) \in Nat
  BY OutsideFinite
<1>3. IsFiniteSet(DataBlocks)
  BY GeometryAssumption, FS_Interval
<1>4. IsFiniteSet(D) /\ Cardinality(D) \in Nat
  BY <1>3, FS_Subset, FS_CardinalityType
<1> DEFINE X == DataBlocks \ A
<1> HIDE DEF X
<1>5. Cardinality(X \cup D) = Cardinality(X) + Cardinality(D) - Cardinality(X \cap D)
  BY <1>2, <1>4, FS_Union DEF X
<1>6. Cardinality(X \cap D) = 0
  <2>1. X \cap D = {}
    BY <1>1 DEF X
  <2>2. QED
    BY <2>1, FS_EmptySet
<1>7. Cardinality(X \cup D) = Cardinality(X) + Cardinality(D)
  <2>1. Cardinality(X) \in Nat /\ Cardinality(D) \in Nat
    BY <1>2, <1>4 DEF X
  <2>2. QED
    BY <2>1, <1>5, <1>6
<1>8. QED
  BY <1>1, <1>7 DEF X

\* More may be marked, and less be in use.
LEMMA BoundsWider ==
    ASSUME NEW s \in Counters, NEW bb, NEW ib, NEW B, NEW I, Bounds(s, bb, ib, B, I),
           NEW bb2, NEW ib2, NEW B2, NEW I2,
           bb \subseteq bb2, ib \subseteq ib2, B2 \subseteq B, I2 \subseteq I
    PROVE  Bounds(s, bb2, ib2, B2, I2)
<1>1. /\ Cardinality(DataBlocks \ bb2) <= Cardinality(DataBlocks \ bb)
      /\ Cardinality(Inodes \ ib2) <= Cardinality(Inodes \ ib)
      /\ Cardinality(DataBlocks \ B) <= Cardinality(DataBlocks \ B2)
      /\ Cardinality(Inodes \ I) <= Cardinality(Inodes \ I2)
  BY OutsideLess
<1>2. s.free_blocks \in Int /\ s.free_inodes \in Int
  BY DEF Counters
<1> DEFINE f(S) == Cardinality(DataBlocks \ S)
           g(S) == Cardinality(Inodes \ S)
<1>3. \A S : f(S) \in Int /\ g(S) \in Int
  BY OutsideFinite
<1>4. /\ f(bb2) <= f(bb) /\ f(B) <= f(B2) /\ g(ib2) <= g(ib) /\ g(I) <= g(I2)
      /\ f(bb) \in Int /\ f(bb2) \in Int /\ f(B) \in Int /\ f(B2) \in Int
      /\ g(ib) \in Int /\ g(ib2) \in Int /\ g(I) \in Int /\ g(I2) \in Int
      /\ f(bb) <= s.free_blocks /\ s.free_blocks <= f(B)
      /\ g(ib) <= s.free_inodes /\ s.free_inodes <= g(I)
  BY <1>1, <1>3 DEF Bounds
<1> HIDE DEF f, g
<1>5. f(bb2) <= s.free_blocks /\ s.free_blocks <= f(B2)
  BY <1>2, <1>4
<1>6. g(ib2) <= s.free_inodes /\ s.free_inodes <= g(I2)
  BY <1>2, <1>4
<1>7. QED
  BY <1>5, <1>6 DEF Bounds, f, g

\* An allocation counts, and its guard against an underflow never bites.
LEMMA BoundsTakeBlock ==
    ASSUME NEW s \in Counters, NEW bb, NEW ib, NEW B, NEW I, Bounds(s, bb, ib, B, I),
           NEW b \in DataBlocks \ bb, B \subseteq bb
    PROVE  TakeBlock(s) \in Counters /\ Bounds(TakeBlock(s), bb \cup {b}, ib, B \cup {b}, I)
<1>1. /\ Cardinality(DataBlocks \ (bb \cup {b})) = Cardinality(DataBlocks \ bb) - 1
      /\ Cardinality(DataBlocks \ (B \cup {b})) = Cardinality(DataBlocks \ B) - 1
  BY OutsideTaken
<1>2. Cardinality(DataBlocks \ (bb \cup {b})) \in Nat /\ Cardinality(DataBlocks \ bb) \in Nat
      /\ Cardinality(DataBlocks \ B) \in Nat
  BY OutsideFinite
<1>3. s.free_blocks \in Nat /\ s.free_inodes \in Nat
  BY DEF Counters
<1>4. s.free_blocks > 0
  BY <1>1, <1>2, <1>3 DEF Bounds
<1>5. TakeBlock(s) \in Counters
  BY CountersType, FS_EmptySet
<1>6. TakeBlock(s).free_blocks = s.free_blocks - 1 /\ TakeBlock(s).free_inodes = s.free_inodes
  BY <1>3, <1>4 DEF TakeBlock, Taken, Counters
<1>7. QED
  BY <1>1, <1>2, <1>3, <1>5, <1>6 DEF Bounds

LEMMA BoundsTakeInode ==
    ASSUME NEW s \in Counters, NEW bb, NEW ib, NEW B, NEW I, Bounds(s, bb, ib, B, I),
           NEW i \in Inodes \ ib, I \subseteq ib
    PROVE  TakeInode(s) \in Counters /\ Bounds(TakeInode(s), bb, ib \cup {i}, B, I \cup {i})
<1>1. /\ Cardinality(Inodes \ (ib \cup {i})) = Cardinality(Inodes \ ib) - 1
      /\ Cardinality(Inodes \ (I \cup {i})) = Cardinality(Inodes \ I) - 1
  BY OutsideTaken
<1>2. Cardinality(Inodes \ (ib \cup {i})) \in Nat /\ Cardinality(Inodes \ ib) \in Nat
      /\ Cardinality(Inodes \ I) \in Nat
  BY OutsideFinite
<1>3. s.free_blocks \in Nat /\ s.free_inodes \in Nat
  BY DEF Counters
<1>4. s.free_inodes > 0
  BY <1>1, <1>2, <1>3 DEF Bounds
<1>5. TakeInode(s) \in Counters
  BY CountersType, FS_EmptySet
<1>6. TakeInode(s).free_inodes = s.free_inodes - 1 /\ TakeInode(s).free_blocks = s.free_blocks
  BY <1>3, <1>4 DEF TakeInode, Taken, Counters
<1>7. QED
  BY <1>1, <1>2, <1>3, <1>5, <1>6 DEF Bounds

\* A free counts: the blocks D of as many pointers K.
LEMMA BoundsGiveBlocks ==
    ASSUME NEW s \in Counters, NEW bb, NEW ib, NEW B, NEW I, Bounds(s, bb, ib, B, I),
           NEW D, D \subseteq B, B \subseteq bb, D \subseteq DataBlocks,
           NEW K \in SUBSET Idx, Cardinality(K) = Cardinality(D)
    PROVE  GiveBlocks(s, K) \in Counters /\ Bounds(GiveBlocks(s, K), bb \ D, ib, B \ D, I)
<1>1. /\ Cardinality(DataBlocks \ (bb \ D)) = Cardinality(DataBlocks \ bb) + Cardinality(K)
      /\ Cardinality(DataBlocks \ (B \ D)) = Cardinality(DataBlocks \ B) + Cardinality(K)
  <2>1. D \subseteq bb
    OBVIOUS
  <2>2. Cardinality(DataBlocks \ (bb \ D)) = Cardinality(DataBlocks \ bb) + Cardinality(D)
    BY <2>1, OutsideGiven
  <2>3. Cardinality(DataBlocks \ (B \ D)) = Cardinality(DataBlocks \ B) + Cardinality(D)
    BY OutsideGiven
  <2>4. QED
    BY <2>2, <2>3
<1>2. Cardinality(K) \in Nat /\ Cardinality(DataBlocks \ bb) \in Nat
      /\ Cardinality(DataBlocks \ B) \in Nat
  BY OutsideFinite, IdxCardinality
<1>3. s.free_blocks \in Nat /\ s.free_inodes \in Nat
  BY DEF Counters
<1>4. GiveBlocks(s, K) \in Counters
  BY CountersType
<1>5. /\ GiveBlocks(s, K).free_blocks = s.free_blocks + Cardinality(K)
      /\ GiveBlocks(s, K).free_inodes = s.free_inodes
  BY <1>3 DEF GiveBlocks, Counters
<1>6. QED
  BY <1>1, <1>2, <1>3, <1>4, <1>5 DEF Bounds

LEMMA BoundsGiveInode ==
    ASSUME NEW s \in Counters, NEW bb, NEW ib, NEW B, NEW I, Bounds(s, bb, ib, B, I),
           NEW i \in Inodes, i \in ib, i \in I
    PROVE  GiveInode(s) \in Counters /\ Bounds(GiveInode(s), bb, ib \ {i}, B, I \ {i})
<1>1. /\ i \in Inodes \ (ib \ {i}) /\ (ib \ {i}) \cup {i} = ib
      /\ i \in Inodes \ (I \ {i}) /\ (I \ {i}) \cup {i} = I
  OBVIOUS
<1>2. /\ Cardinality(Inodes \ ib) = Cardinality(Inodes \ (ib \ {i})) - 1
      /\ Cardinality(Inodes \ I) = Cardinality(Inodes \ (I \ {i})) - 1
  BY <1>1, OutsideTaken
<1>3. /\ Cardinality(Inodes \ ib) \in Nat /\ Cardinality(Inodes \ (ib \ {i})) \in Nat
      /\ Cardinality(Inodes \ I) \in Nat /\ Cardinality(Inodes \ (I \ {i})) \in Nat
  BY OutsideFinite
<1>4. s.free_blocks \in Nat /\ s.free_inodes \in Nat
  BY DEF Counters
<1>5. GiveInode(s) \in Counters
  BY CountersType, FS_EmptySet
<1>6. GiveInode(s).free_inodes = s.free_inodes + 1 /\ GiveInode(s).free_blocks = s.free_blocks
  BY <1>4 DEF GiveInode, Counters
<1>7. QED
  BY <1>2, <1>3, <1>4, <1>5, <1>6 DEF Bounds

-----------------------------------------------------------------------------
(* The blocks and inodes of the tree *)

PointsTo(x, b) == \E k \in Idx : x.direct[k] = b

UsedInodes(it, bl) == {i \in Inodes : OfTree(it, bl, i)}

UsedBlocks(it, bl) == {b \in DataBlocks : \E i \in UsedInodes(it, bl) : PointsTo(it[i], b)}

Copied(W) == {b \in DataBlocks : \E w \in W : PointsTo(w.inode, b)}

\* The blocks of an inode are what its pointers name.
LEMMA RefsArePointed ==
    ASSUME NEW x \in Inode, NEW b
    PROVE  b \in Refs(x) <=> b \in DataBlocks /\ PointsTo(x, b)
  BY GeometryAssumption DEF Refs, Pointers, PointsTo, Inode

\* The properties' view of it.
LEMMA UsedAre ==
    ASSUME EntryInv
    PROVE  InTree = UsedInodes(inodeTable, block) /\ TreeBlocks = UsedBlocks(inodeTable, block)
<1>t. inodeTable \in [Inodes -> Inode] /\ inodeBitmap \subseteq Inodes
  BY DEF EntryInv, OwnershipInv, TypeOK
<1>1. InTree = UsedInodes(inodeTable, block)
  <2>1. \A i : Named(inodeTable, block, i) => i \in Inodes
    BY <1>t DEF Named, EntryInv, Resolve
  <2>2. Root \in Inodes
    BY GeometryAssumption
  <2>3. QED
    BY <2>1, <2>2, LinkedIsNamed DEF InTree, UsedInodes, OfTree
<1>2. TreeBlocks = UsedBlocks(inodeTable, block)
  <2>1. \A i \in Inodes : \A b : b \in Refs(inodeTable[i]) <=> b \in DataBlocks /\ PointsTo(inodeTable[i], b)
    BY <1>t, RefsArePointed
  <2>2. UsedInodes(inodeTable, block) \subseteq Inodes
    BY DEF UsedInodes
  <2>3. QED
    BY <1>1, <2>1, <2>2 DEF TreeBlocks, UsedBlocks
<1>3. QED
  BY <1>1, <1>2

\* And of it after a step.
LEMMA UsedAreNext ==
    EntryInv' => /\ InTree' = UsedInodes(inodeTable', block')
                 /\ TreeBlocks' = UsedBlocks(inodeTable', block')
<1> SUFFICES ASSUME EntryInv'
             PROVE  /\ InTree' = UsedInodes(inodeTable', block')
                    /\ TreeBlocks' = UsedBlocks(inodeTable', block')
  OBVIOUS
<1>t. inodeTable' \in [Inodes -> Inode] /\ inodeBitmap' \subseteq Inodes
  BY DEF EntryInv, OwnershipInv, TypeOK
<1>1. InTree' = UsedInodes(inodeTable', block')
  <2>0. Resolve(inodeTable', block', inodeBitmap')
    BY DEF EntryInv
  <2>1. \A i : Named(inodeTable', block', i) => i \in Inodes
    BY <1>t, <2>0 DEF Named, Resolve
  <2>2. Root \in Inodes
    BY GeometryAssumption
  <2>3. QED
    BY <2>1, <2>2, LinkedIsNamed DEF InTree, UsedInodes, OfTree
<1>2. TreeBlocks' = UsedBlocks(inodeTable', block')
  <2>1. \A i \in Inodes : \A b : b \in Refs(inodeTable'[i]) <=> b \in DataBlocks /\ PointsTo(inodeTable'[i], b)
    BY <1>t, RefsArePointed
  <2>2. UsedInodes(inodeTable', block') \subseteq Inodes
    BY DEF UsedInodes
  <2>3. TreeBlocks' = UNION {Refs(inodeTable'[i]) : i \in UsedInodes(inodeTable', block')}
    BY <1>1 DEF TreeBlocks, Refs, Pointers
  <2>4. QED
    BY <2>1, <2>2, <2>3 DEF UsedBlocks
<1>3. QED
  BY <1>1, <1>2

\* The blocks of the pointers K of inode x.
Dropped(x, K) == {x.direct[k] : k \in K}

\* Pointers that name different blocks name as many.
LEMMA DroppedCount ==
    ASSUME NEW i, NEW x, Apart(i, x, i, x), NEW K \in SUBSET Pointers(x)
    PROVE  Cardinality(K) = Cardinality(Dropped(x, K))
<1>1. IsFiniteSet(K)
  BY IdxCardinality DEF Pointers
<1> DEFINE f == [k \in K |-> x.direct[k]]
<1>2. \A k, l \in K : x.direct[k] = x.direct[l] => k = l
  BY DEF Apart, Pointers
<1>3. f \in Bijection(K, Dropped(x, K))
  BY <1>2 DEF Dropped, Bijection, Injection, Surjection, IsInjective
<1>4. ExistsBijection(K, Dropped(x, K))
  BY <1>3 DEF ExistsBijection
<1>5. QED
  BY <1>1, <1>4, FS_Bijection

\* What of the tree is left when inode i loses the pointers K, or all of them
\* and its entry.
Lost(it, bl, it2, bl2, i, K) ==
    /\ \A j \in Inodes : j # i => it2[j] = it[j]
    /\ \A k \in Idx : it2[i].direct[k] = IF k \in K THEN NoBlock ELSE it[i].direct[k]
    /\ \A j \in Inodes : j # i => (OfTree(it2, bl2, j) <=> OfTree(it, bl, j))
    /\ OfTree(it2, bl2, i) \/ K = Pointers(it[i])

LEMMA LostBlocks ==
    ASSUME NEW it, NEW bl, NEW it2, NEW bl2, Disks(it, bl), TableApart(it),
           NEW i \in Inodes, OfTree(it, bl, i), NEW K \in SUBSET Pointers(it[i]),
           Lost(it, bl, it2, bl2, i, K)
    PROVE  /\ Dropped(it[i], K) \subseteq UsedBlocks(it, bl)
           /\ UsedBlocks(it2, bl2) = UsedBlocks(it, bl) \ Dropped(it[i], K)
<1>1. \A k \in K : k \in Idx /\ it[i].direct[k] \in DataBlocks /\ it[i].direct[k] # NoBlock
  BY GeometryAssumption DEF Pointers, Disks, Inode
<1>n. \A b \in DataBlocks : b # NoBlock
  BY GeometryAssumption
<1>2. Dropped(it[i], K) \subseteq UsedBlocks(it, bl)
  <2>1. i \in UsedInodes(it, bl)
    BY DEF UsedInodes
  <2>2. QED
    BY <1>1, <2>1 DEF Dropped, UsedBlocks, PointsTo
<1>3. ASSUME NEW b \in DataBlocks, NEW j \in Inodes, NEW k \in Idx, it[j].direct[k] = b
      PROVE  b \in Dropped(it[i], K) <=> j = i /\ k \in K
  <2>1. ASSUME NEW l \in K, b = it[i].direct[l] PROVE j = i /\ k = l
    BY <1>1, <1>3, <2>1 DEF TableApart, Apart
  <2>2. QED
    BY <1>3, <2>1 DEF Dropped
<1>4. ASSUME NEW b \in UsedBlocks(it2, bl2)
      PROVE  b \in UsedBlocks(it, bl) /\ b \notin Dropped(it[i], K)
  <2>1. PICK j \in UsedInodes(it2, bl2), k \in Idx : it2[j].direct[k] = b
    BY DEF UsedBlocks, PointsTo
  <2>2. j \in Inodes /\ b \in DataBlocks /\ b # NoBlock
    BY <1>n DEF UsedInodes, UsedBlocks
  <2>3. it[j].direct[k] = b /\ ~(j = i /\ k \in K)
    BY <2>1, <2>2 DEF Lost
  <2>4. j \in UsedInodes(it, bl)
    BY <2>1, <2>2 DEF Lost, UsedInodes
  <2>5. QED
    BY <1>3, <2>2, <2>3, <2>4 DEF UsedBlocks, PointsTo
<1>5. ASSUME NEW b \in UsedBlocks(it, bl), b \notin Dropped(it[i], K)
      PROVE  b \in UsedBlocks(it2, bl2)
  <2>1. PICK j \in UsedInodes(it, bl), k \in Idx : it[j].direct[k] = b
    BY DEF UsedBlocks, PointsTo
  <2>2. j \in Inodes /\ b \in DataBlocks /\ b # NoBlock
    BY <1>n DEF UsedInodes, UsedBlocks
  <2>3. ~(j = i /\ k \in K)
    BY <1>3, <1>5, <2>1, <2>2
  <2>4. it2[j].direct[k] = b
    BY <2>1, <2>2, <2>3 DEF Lost
  <2>5. j \in UsedInodes(it2, bl2)
    <3>1. CASE j # i
      BY <2>1, <2>2, <3>1 DEF Lost, UsedInodes
    <3>2. CASE j = i
      <4>1. k \in Pointers(it[i])
        BY <2>1, <2>2, <3>2 DEF Pointers
      <4>2. QED
        BY <2>2, <2>3, <3>2, <4>1 DEF Lost, UsedInodes
    <3>3. QED
      BY <3>1, <3>2
  <2>6. QED
    BY <2>2, <2>4, <2>5 DEF UsedBlocks, PointsTo
<1>6. QED
  BY <1>2, <1>4, <1>5

\* Directory par points to block b besides.
PointsMore(it, it2, par, b) ==
    /\ \A j \in Inodes, k \in Idx :
          it[j].direct[k] # NoBlock => it2[j].direct[k] = it[j].direct[k]
    /\ \A j \in Inodes, k \in Idx : it2[j].direct[k] \in {it[j].direct[k], b}
    /\ PointsTo(it2[par], b)

\* What add_entry does to pointers and the bitmap: nothing, or one block more
\* that the directory points to.
NoneOrOne(it, bb, s, par) ==
    \/ inodeTable' = it /\ blockBitmap' = bb /\ sb' = s
    \/ \E b \in DataBlocks \ bb : /\ blockBitmap' = bb \cup {b}
                                 /\ sb' = TakeBlock(s)
                                 /\ PointsMore(it, inodeTable', par, b)

LEMMA AddEntryBlock ==
    ASSUME NEW par \in Inodes, NEW cell, NEW it \in [Inodes -> Inode], NEW bl, NEW bb, NEW s,
           AddEntry(par, cell, it, bl, bb, s)
    PROVE  NoneOrOne(it, bb, s, par)
<1>1. CASE FillSlot(par, cell, it, bl, bb, s)
  BY <1>1 DEF FillSlot, NoneOrOne
<1>2. CASE GrowDir(par, cell, it, bl, bb, s)
  <2>1. PICK k \in FirstFit(Holes(it[par])), b \in FirstFit(DataBlocks \ bb) :
               /\ inodeTable' = [it EXCEPT ![par] = WithBlock(@, k, b)]
               /\ blockBitmap' = bb \cup {b}
               /\ sb' = TakeBlock(s)
    BY <1>2 DEF GrowDir
  <2>2. k \in Idx /\ it[par].direct[k] = NoBlock /\ b \in DataBlocks \ bb
    BY DEF FirstFit, Holes
  <2> DEFINE r == WithBlock(it[par], k, b)
  <2>3. \A l \in Idx : r.direct[l] = IF l = k THEN b ELSE it[par].direct[l]
    BY <2>2, WithBlockFields
  <2>4. inodeTable' = [it EXCEPT ![par] = r]
    BY <2>1
  <2> HIDE DEF r
  <2>5. inodeTable'[par] = r /\ \A j \in Inodes : j # par => inodeTable'[j] = it[j]
    BY <2>4
  <2>6. /\ \A j \in Inodes, l \in Idx :
              it[j].direct[l] # NoBlock => inodeTable'[j].direct[l] = it[j].direct[l]
        /\ \A j \in Inodes, l \in Idx : inodeTable'[j].direct[l] \in {it[j].direct[l], b}
    BY <2>2, <2>3, <2>5
  <2>7. PointsTo(inodeTable'[par], b)
    BY <2>2, <2>3, <2>5 DEF PointsTo
  <2>8. QED
    BY <2>1, <2>2, <2>6, <2>7 DEF PointsMore, NoneOrOne
<1>3. QED
  BY <1>1, <1>2 DEF AddEntry

-----------------------------------------------------------------------------
(* The invariant: each pair of counters between its two bounds.  What a    *)
(* write loop has allocated so far is in use for the counters in memory,   *)
(* and not yet for those on disk.  The loop's copy of the inode keeps      *)
(* every pointer of the inode on disk, so writing it back loses none.      *)

Extends(W, it) ==
    \A w \in W, k \in Idx : it[w.ino].direct[k] # NoBlock =>
        w.inode.direct[k] = it[w.ino].direct[k]

SpaceInv ==
    /\ EntryInv
    /\ inodeTable[Root].type = "DIR"
    /\ ~mounted => writing = {}
    /\ Extends(writing, inodeTable)
    /\ Bounds(diskSb, blockBitmap, inodeBitmap,
              UsedBlocks(inodeTable, block), UsedInodes(inodeTable, block))
    /\ mounted => Bounds(sb, blockBitmap, inodeBitmap,
                         UsedBlocks(inodeTable, block) \cup Copied(writing),
                         UsedInodes(inodeTable, block))

\* Marked blocks that neither the tree nor a write uses.
Idle(bb, it, bl, W) == bb \ (UsedBlocks(it, bl) \cup Copied(W))

SpaceStep ==
    /\ SpaceInv'
    /\ \/ rc' \in {"ENOSPC", "SHORT"}
       \/ Kill
       \/ /\ Idle(blockBitmap', inodeTable', block', writing')
                \subseteq Idle(blockBitmap, inodeTable, block, writing)
          /\ inodeBitmap' \ UsedInodes(inodeTable', block')
                \subseteq inodeBitmap \ UsedInodes(inodeTable, block)

\* What is in use is marked.
LEMMA UsedMarked ==
    ASSUME EntryInv
    PROVE  /\ UsedBlocks(inodeTable, block) \subseteq blockBitmap
           /\ Copied(writing) \subseteq blockBitmap
           /\ UsedInodes(inodeTable, block) \subseteq inodeBitmap
<1>n. \A b \in DataBlocks : b # NoBlock
  BY GeometryAssumption
<1>1. UsedBlocks(inodeTable, block) \subseteq blockBitmap
  <2>1. TableCovered(inodeTable, blockBitmap)
    BY DEF EntryInv, OwnershipInv
  <2>2. QED
    BY <1>n, <2>1 DEF UsedBlocks, UsedInodes, PointsTo, TableCovered, Covered
<1>2. Copied(writing) \subseteq blockBitmap
  <2>1. \A w \in writing : Covered(w.inode, blockBitmap)
    BY DEF EntryInv, OwnershipInv
  <2>2. QED
    BY <1>n, <2>1 DEF Copied, PointsTo, Covered
<1>3. UsedInodes(inodeTable, block) \subseteq inodeBitmap
  <2>1. Root \in inodeBitmap /\ Resolve(inodeTable, block, inodeBitmap)
    BY DEF EntryInv
  <2>2. QED
    BY <2>1 DEF UsedInodes, OfTree, Named, Resolve
<1>4. QED
  BY <1>1, <1>2, <1>3

\* With the same entries the same inodes are used.
LEMMA SameUsed ==
    ASSUME NEW it, NEW bl, NEW it2, NEW bl2, SameEntries(it, bl, it2, bl2)
    PROVE  /\ UsedInodes(it2, bl2) = UsedInodes(it, bl)
           /\ \A j \in Inodes : OfTree(it2, bl2, j) <=> OfTree(it, bl, j)
<1>1. \A i : Named(it2, bl2, i) <=> Named(it, bl, i)
  BY DEF SameEntries, Named
<1>2. QED
  BY <1>1 DEF UsedInodes, OfTree

\* What is in use once inode i joins the tree and its inodes point to the
\* blocks Z besides.
MorePointers(it, bl, it2, i, Z) ==
    /\ \A j \in UsedInodes(it, bl), k \in Idx : it[j].direct[k] \in DataBlocks =>
          it2[j].direct[k] = it[j].direct[k]
    /\ \A j \in UsedInodes(it, bl) \cup {i}, k \in Idx : it2[j].direct[k] \in DataBlocks =>
          \/ j \in UsedInodes(it, bl) /\ it2[j].direct[k] = it[j].direct[k]
          \/ it2[j].direct[k] \in Z
    /\ \A b \in Z : b \in DataBlocks /\ \E j \in UsedInodes(it, bl) \cup {i} : PointsTo(it2[j], b)

LEMMA MoreUsed ==
    ASSUME NEW it, NEW bl, NEW it2, NEW bl2, NEW i \in Inodes, NEW Z,
           UsedInodes(it2, bl2) = UsedInodes(it, bl) \cup {i},
           MorePointers(it, bl, it2, i, Z)
    PROVE  UsedBlocks(it2, bl2) = UsedBlocks(it, bl) \cup Z
<1>1. ASSUME NEW b \in UsedBlocks(it2, bl2) PROVE b \in UsedBlocks(it, bl) \cup Z
  <2>1. PICK j \in UsedInodes(it, bl) \cup {i}, k \in Idx : it2[j].direct[k] = b
    BY DEF UsedBlocks, PointsTo
  <2>2. b \in DataBlocks
    BY DEF UsedBlocks
  <2>3. b \in Z \/ (j \in UsedInodes(it, bl) /\ it[j].direct[k] = b)
    BY <2>1, <2>2 DEF MorePointers
  <2>4. QED
    BY <2>2, <2>3 DEF UsedBlocks, PointsTo
<1>2. ASSUME NEW b \in UsedBlocks(it, bl) PROVE b \in UsedBlocks(it2, bl2)
  <2>1. PICK j \in UsedInodes(it, bl), k \in Idx : it[j].direct[k] = b
    BY DEF UsedBlocks, PointsTo
  <2>2. b \in DataBlocks
    BY DEF UsedBlocks
  <2>3. it2[j].direct[k] = b
    BY <2>1, <2>2 DEF MorePointers
  <2>4. QED
    BY <2>2, <2>3 DEF UsedBlocks, PointsTo
<1>3. ASSUME NEW b \in Z PROVE b \in UsedBlocks(it2, bl2)
  BY DEF UsedBlocks, MorePointers
<1>4. QED
  BY <1>1, <1>2, <1>3

\* An entry that is added puts its inode into the tree.
LEMMA PlacedInTree ==
    ASSUME NEW par \in Inodes, NEW cell \in Cell, cell.name \notin {NoName, Dot, DotDot},
           NEW it \in [Inodes -> Inode], NEW bl \in [DataBlocks -> [Slots -> Cell]], NEW bb, NEW s,
           it[par].type = "DIR", TableCovered(it, bb), TableApart(it),
           AddEntry(par, cell, it, bl, bb, s)
    PROVE  \A j : Named(inodeTable', block', j) <=> Named(it, bl, j) \/ j = cell.inode
<1>1. PICK q \in Where : /\ View(it, bl, par, q).name = NoName
                         /\ ViewPut(it, bl, inodeTable', block', par, q, cell)
  BY AddEntryView
<1>2. ~HasEntry(it, bl, par, q)
  BY <1>1, EntryIsView
<1>3. HasEntry(inodeTable', block', par, q) /\ Target(inodeTable', block', par, q) = cell.inode
  BY <1>1, EntryIsView DEF ViewPut
<1>4. ASSUME NEW d \in Inodes, NEW p \in Where, ~(d = par /\ p = q)
      PROVE  /\ HasEntry(inodeTable', block', d, p) <=> HasEntry(it, bl, d, p)
             /\ HasEntry(it, bl, d, p) =>
                   Target(inodeTable', block', d, p) = Target(it, bl, d, p)
  BY <1>1, <1>4, EntryIsView DEF ViewPut
<1>5. QED
  BY <1>2, <1>3, <1>4 DEF Named

-----------------------------------------------------------------------------
(* create and mkdir *)

\* Inode i, and no other, has changed; it points to the blocks X, none marked.
MadeNode(it, X, i) ==
    /\ X \subseteq DataBlocks \ blockBitmap
    /\ \A j \in Inodes : j # i => it[j] = inodeTable[j]
    /\ \A k \in Idx : it[i].direct[k] \in X \cup {NoBlock}
    /\ \A b \in X : PointsTo(it[i], b)

\* A new inode i with the blocks X is counted, on disk too once its entry has
\* found a place; if it finds none, inode and blocks are lost.
LEMMA NewNodeSpace ==
    ASSUME SpaceInv, EntryInv', Ready, NEW par \in Inodes, inodeTable[par].type = "DIR",
           OfTree(inodeTable, block, par), NEW i \in Inodes \ inodeBitmap,
           NEW it, NEW bl, NEW X, MadeNode(it, X, i), Disks(it, bl), Fresh(it, bl, i, par),
           NEW bb, bb = blockBitmap \cup X, TableCovered(it, bb), TableApart(it),
           NEW s \in Counters,
           Bounds(s, bb, inodeBitmap \cup {i}, UsedBlocks(inodeTable, block) \cup X,
                  UsedInodes(inodeTable, block) \cup {i}),
           NEW cell \in Cell, cell.inode = i, cell.name \notin {NoName, Dot, DotDot},
           inodeBitmap' = inodeBitmap \cup {i}, UNCHANGED <<mounted, writing>>,
           \/ AddEntry(par, cell, it, bl, bb, s) /\ diskSb' = sb'
           \/ AddEntryFails(par, it, bl, bb, s) /\ rc' = "ENOSPC" /\ UNCHANGED diskSb
    PROVE  SpaceStep
<1> DEFINE UB == UsedBlocks(inodeTable, block)
           UI == UsedInodes(inodeTable, block)
<1>e. EntryInv /\ inodeTable[Root].type = "DIR" /\ Root \in Inodes
      /\ Bounds(diskSb, blockBitmap, inodeBitmap, UB, UI)
  BY GeometryAssumption DEF SpaceInv
<1>u. UB \subseteq blockBitmap /\ UI \subseteq inodeBitmap /\ UI \subseteq Inodes
  BY <1>e, UsedMarked DEF UsedInodes
<1>d. diskSb \in Counters
  BY <1>e DEF EntryInv, OwnershipInv, TypeOK
<1>w. writing = {} /\ writing' = {} /\ Copied(writing) = {} /\ Copied(writing') = {}
      /\ Extends(writing', inodeTable')
  BY DEF Ready, Copied, Extends
<1>i. i # Root /\ i \notin UI
  BY <1>e, <1>u DEF EntryInv
<1>n. \A j : Named(it, bl, j) <=> Named(inodeTable, block, j)
  <2>1. \A d \in Inodes : \A m, j :
            InEntries(it, bl, d, m, j) <=> InEntries(inodeTable, block, d, m, j)
    BY <1>e, FreshEntries
  <2>2. QED
    BY <2>1, NamedInEntries
<1>t. \A j \in Inodes : j # i => it[j].type = inodeTable[j].type
  BY DEF MadeNode
<1>b. \A b \in DataBlocks : b # NoBlock
  BY GeometryAssumption
<1>1. CASE AddEntryFails(par, it, bl, bb, s) /\ rc' = "ENOSPC" /\ UNCHANGED diskSb
  <2>1. inodeTable' = it /\ block' = bl /\ blockBitmap' = bb /\ sb' = s
    BY <1>1 DEF AddEntryFails
  <2>2. UsedInodes(inodeTable', block') = UI
    BY <1>n, <2>1 DEF UsedInodes, OfTree
  <2>3. UsedBlocks(inodeTable', block') = UB
    <3>1. \A j \in UI : inodeTable'[j] = inodeTable[j]
      BY <1>i, <1>u, <2>1 DEF MadeNode
    <3>2. QED
      BY <2>2, <3>1 DEF UsedBlocks
  <2>4. inodeTable'[Root].type = "DIR"
    BY <1>e, <1>i, <1>t, <2>1
  <2> HIDE DEF UB, UI
  <2>5. Bounds(diskSb', blockBitmap', inodeBitmap', UB, UI)
    <3>1. blockBitmap \subseteq blockBitmap' /\ inodeBitmap \subseteq inodeBitmap'
      BY <2>1
    <3>2. QED
      BY <1>1, <1>d, <1>e, <3>1, BoundsWider
  <2>6. Bounds(sb', blockBitmap', inodeBitmap', UB, UI)
    <3>1. Bounds(s, bb, inodeBitmap \cup {i}, UB \cup X, UI \cup {i})
      BY DEF UB, UI
    <3>2. Bounds(s, bb, inodeBitmap \cup {i}, UB, UI)
      BY <3>1, BoundsWider
    <3>3. QED
      BY <2>1, <3>2
  <2>7. SpaceInv'
    BY <1>w, <2>2, <2>3, <2>4, <2>5, <2>6 DEF SpaceInv
  <2>8. QED
    BY <1>1, <2>7 DEF SpaceStep
<1>2. CASE AddEntry(par, cell, it, bl, bb, s) /\ diskSb' = sb'
  <2>t. /\ it \in [Inodes -> Inode] /\ bl \in [DataBlocks -> [Slots -> Cell]]
        /\ it[par].type = "DIR" /\ par # i
    BY <1>e, <1>t DEF Disks, EntryInv, Agrees
  <2>1. UsedInodes(inodeTable', block') = UI \cup {i}
    <3>1. \A j : Named(inodeTable', block', j) <=> Named(it, bl, j) \/ j = i
      BY <1>2, <2>t, PlacedInTree
    <3>2. QED
      BY <1>n, <3>1 DEF UsedInodes, OfTree
  <2>2. inodeTable'[Root].type = "DIR"
    <3>1. SameTypes(it, inodeTable')
      BY <1>2, <2>t, AddEntryOneMore
    <3>2. QED
      BY <1>e, <1>i, <1>t, <3>1 DEF SameTypes
  <2>p. par \in UI
    BY DEF UsedInodes
  <2>3. ASSUME NEW Z, blockBitmap' = blockBitmap \cup Z,
               MorePointers(inodeTable, block, inodeTable', i, Z),
               Bounds(sb', blockBitmap', inodeBitmap', UB \cup Z, UI \cup {i})
        PROVE  SpaceStep
    <3>1. UsedBlocks(inodeTable', block') = UB \cup Z
      BY <2>1, <2>3, MoreUsed
    <3> HIDE DEF UB, UI
    <3>2. SpaceInv'
      BY <1>w, <1>2, <2>1, <2>2, <2>3, <3>1 DEF SpaceInv
    <3>3. Idle(blockBitmap', inodeTable', block', writing')
             \subseteq Idle(blockBitmap, inodeTable, block, writing)
      BY <1>w, <2>3, <3>1 DEF Idle, UB
    <3>4. inodeBitmap' \ UsedInodes(inodeTable', block')
             \subseteq inodeBitmap \ UsedInodes(inodeTable, block)
      BY <2>1 DEF UI
    <3>5. QED
      BY <3>2, <3>3, <3>4 DEF SpaceStep
  <2>4. CASE inodeTable' = it /\ blockBitmap' = bb /\ sb' = s
    <3>1. MorePointers(inodeTable, block, inodeTable', i, X)
      <4>1. \A j \in UI : inodeTable'[j] = inodeTable[j]
        BY <1>i, <1>u, <2>4 DEF MadeNode
      <4>2. \A k \in Idx : inodeTable'[i].direct[k] \in DataBlocks => inodeTable'[i].direct[k] \in X
        BY <1>b, <2>4 DEF MadeNode
      <4>3. \A b \in X : b \in DataBlocks /\ PointsTo(inodeTable'[i], b)
        BY <2>4 DEF MadeNode
      <4>4. QED
        BY <4>1, <4>2, <4>3 DEF MorePointers
    <3>2. QED
      BY <2>3, <2>4, <3>1
  <2>5. ASSUME NEW b \in DataBlocks \ bb,
               blockBitmap' = bb \cup {b}, sb' = TakeBlock(s),
               PointsMore(it, inodeTable', par, b)
        PROVE  SpaceStep
    <3> DEFINE Z == X \cup {b}
    <3>1. MorePointers(inodeTable, block, inodeTable', i, Z)
      <4>1. ASSUME NEW j \in UI, NEW k \in Idx
            PROVE  /\ inodeTable[j].direct[k] \in DataBlocks =>
                        inodeTable'[j].direct[k] = inodeTable[j].direct[k]
                   /\ inodeTable'[j].direct[k] \in {inodeTable[j].direct[k], b}
        <5>1. j \in Inodes /\ it[j] = inodeTable[j]
          BY <1>i, <1>u DEF MadeNode
        <5>2. QED
          BY <1>b, <2>5, <5>1 DEF PointsMore
      <4>2. ASSUME NEW k \in Idx, inodeTable'[i].direct[k] \in DataBlocks
            PROVE  inodeTable'[i].direct[k] \in Z
        BY <1>b, <2>5, <4>2 DEF MadeNode, PointsMore
      <4>3. ASSUME NEW c \in X PROVE PointsTo(inodeTable'[i], c)
        <5>1. PICK k \in Idx : it[i].direct[k] = c
          BY DEF MadeNode, PointsTo
        <5>2. c \in DataBlocks
          BY DEF MadeNode
        <5>3. inodeTable'[i].direct[k] = c
          BY <1>b, <2>5, <5>1, <5>2 DEF PointsMore
        <5>4. QED
          BY <5>3 DEF PointsTo
      <4>4. \A c \in Z : c \in DataBlocks
        BY DEF MadeNode
      <4>5. QED
        BY <2>5, <2>p, <4>1, <4>2, <4>3, <4>4 DEF MorePointers, PointsMore
    <3>2. blockBitmap' = blockBitmap \cup Z
      BY <2>5
    <3>3. Bounds(sb', blockBitmap', inodeBitmap', UB \cup Z, UI \cup {i})
      <4>1. UB \cup X \subseteq bb
        BY <1>u
      <4> HIDE DEF UB, UI
      <4>2. Bounds(s, bb, inodeBitmap \cup {i}, UB \cup X, UI \cup {i})
        BY DEF UB, UI
      <4>3. Bounds(TakeBlock(s), bb \cup {b}, inodeBitmap \cup {i}, (UB \cup X) \cup {b}, UI \cup {i})
        BY <4>1, <4>2, BoundsTakeBlock
      <4>4. (UB \cup X) \cup {b} = UB \cup Z
        OBVIOUS
      <4>5. QED
        BY <2>5, <4>3, <4>4
    <3>4. QED
      BY <2>3, <3>1, <3>2, <3>3
  <2>6. QED
    <3>1. AddEntry(par, cell, it, bl, bb, s)
      BY <1>2
    <3>2. NoneOrOne(it, bb, s, par)
      BY <2>t, <3>1, AddEntryBlock
    <3>3. QED
      BY <2>4, <2>5, <3>2 DEF NoneOrOne
<1>3. QED
  BY <1>1, <1>2

\* What a callback that changes the tree finds.
LEMMA ReadySpace ==
    ASSUME SpaceInv, NEW par \in Inodes, NEW n \in Names, ReadyIn(par, n)
    PROVE  /\ Ready /\ writing = {} /\ Copied(writing) = {} /\ sb \in Counters
           /\ inodeTable[par].type = "DIR" /\ OfTree(inodeTable, block, par)
           /\ Bounds(sb, blockBitmap, inodeBitmap,
                     UsedBlocks(inodeTable, block), UsedInodes(inodeTable, block))
           /\ UsedBlocks(inodeTable, block) \subseteq blockBitmap
           /\ UsedInodes(inodeTable, block) \subseteq inodeBitmap
<1>1. EntryInv /\ inodeTable[Root].type = "DIR"
  BY DEF SpaceInv
<1>2. Disks(inodeTable, block) /\ sb \in Counters
  BY <1>1 DEF EntryInv, OwnershipInv, TypeOK, Disks
<1>3. Ready /\ mounted /\ writing = {} /\ Copied(writing) = {}
      /\ inodeTable[par].type = "DIR" /\ par \in PathDirs(inodeTable, block)
  BY FitsIn DEF ReadyIn, Ready, Copied
<1>4. OfTree(inodeTable, block, par)
  BY <1>1, <1>2, <1>3, PathDirsNamed DEF OfTree
<1>5. UsedBlocks(inodeTable, block) \cup Copied(writing) = UsedBlocks(inodeTable, block)
  BY <1>3
<1>6. QED
  BY <1>1, <1>2, <1>3, <1>4, <1>5, UsedMarked DEF SpaceInv

LEMMA CreateSpace ==
    ASSUME SpaceInv, EntryInv', NEW par \in Inodes, NEW n \in Names,
           ReadyIn(par, n),
           NEW i \in Inodes \ inodeBitmap, CreateNew(par, n, i)
    PROVE  SpaceStep
<1> DEFINE cell == [inode |-> i, name |-> Stored(n)]
           it == [inodeTable EXCEPT ![i] = NewFile]
           s == TakeInode(sb)
           UB == UsedBlocks(inodeTable, block)
           UI == UsedInodes(inodeTable, block)
<1>e. EntryInv
  BY DEF SpaceInv
<1>1. it = [inodeTable EXCEPT ![i] = NewFile]
  OBVIOUS
<1>2. /\ inodeBitmap' = inodeBitmap \cup {i}
      /\ UNCHANGED <<mounted, writing>>
      /\ \/ AddEntry(par, cell, it, block, blockBitmap, s) /\ diskSb' = sb'
         \/ /\ AddEntryFails(par, it, block, blockBitmap, s)
            /\ rc' = "ENOSPC" /\ UNCHANGED diskSb
  BY DEF CreateNew
<1>3. cell \in Cell /\ cell.inode = i /\ cell.name \notin {NoName, Dot, DotDot}
  BY StoredType, NameAssumption DEF Cell
<1>4. MadeNode(it, {}, i)
  <2>1. inodeTable \in [Inodes -> Inode]
    BY <1>e DEF EntryInv, OwnershipInv, TypeOK
  <2>2. \A k \in Idx : NewFile.direct[k] = NoBlock
    BY DEF NewFile, NoPointers
  <2>3. it[i] = NewFile /\ \A j \in Inodes : j # i => it[j] = inodeTable[j]
    BY <2>1
  <2> HIDE DEF it
  <2>4. QED
    BY <2>2, <2>3 DEF MadeNode
<1> HIDE DEF it, cell, s, UB, UI
<1>5. Disks(it, block) /\ TableCovered(it, blockBitmap) /\ TableApart(it) /\ Fresh(it, block, i, par)
  BY <1>1, <1>e, NewFileFresh
<1>6. s \in Counters /\ Bounds(s, blockBitmap, inodeBitmap \cup {i}, UB, UI \cup {i})
  <2>1. sb \in Counters /\ Bounds(sb, blockBitmap, inodeBitmap, UB, UI) /\ UI \subseteq inodeBitmap
    BY ReadySpace DEF UB, UI
  <2>2. QED
    BY <2>1, BoundsTakeInode DEF s
<1>7. UB \cup {} = UB /\ blockBitmap = blockBitmap \cup {}
  OBVIOUS
<1>8. /\ Ready /\ inodeTable[par].type = "DIR" /\ OfTree(inodeTable, block, par)
  BY ReadySpace
<1>9. Bounds(s, blockBitmap, inodeBitmap \cup {i}, UsedBlocks(inodeTable, block) \cup {},
             UsedInodes(inodeTable, block) \cup {i})
  BY <1>6, <1>7 DEF UB, UI
<1>10. QED
  BY <1>2, <1>3, <1>4, <1>5, <1>6, <1>7, <1>8, <1>9, NewNodeSpace

LEMMA MkdirSpace ==
    ASSUME SpaceInv, EntryInv', NEW par \in Inodes, NEW n \in Names,
           ReadyIn(par, n),
           NEW i \in Inodes \ inodeBitmap, NEW b \in DataBlocks \ blockBitmap,
           MkdirNew(par, n, i, b)
    PROVE  SpaceStep
<1> DEFINE cell == [inode |-> i, name |-> Stored(n)]
           it == [inodeTable EXCEPT ![i] = NewDir(b)]
           bl == [block EXCEPT ![b] = DotsBlock(i, par)]
           bb == blockBitmap \cup {b}
           s == TakeInode(TakeBlock(sb))
           UB == UsedBlocks(inodeTable, block)
           UI == UsedInodes(inodeTable, block)
<1>e. EntryInv
  BY DEF SpaceInv
<1>1. MadeDir(it, bl, i, b, par) /\ bb = blockBitmap \cup {b}
  BY DEF MadeDir
<1>2. /\ inodeBitmap' = inodeBitmap \cup {i}
      /\ UNCHANGED <<mounted, writing>>
      /\ \/ AddEntry(par, cell, it, bl, bb, s) /\ diskSb' = sb'
         \/ /\ AddEntryFails(par, it, bl, bb, s)
            /\ rc' = "ENOSPC" /\ UNCHANGED diskSb
  BY DEF MkdirNew
<1>3. cell \in Cell /\ cell.inode = i /\ cell.name \notin {NoName, Dot, DotDot}
  BY StoredType, NameAssumption DEF Cell
<1>4. MadeNode(it, {b}, i)
  <2>1. inodeTable \in [Inodes -> Inode]
    BY <1>e DEF EntryInv, OwnershipInv, TypeOK
  <2>2. \A k \in Idx : NewDir(b).direct[k] = IF k = 0 THEN b ELSE NoBlock
    BY GeometryAssumption DEF NewDir, NoPointers
  <2>3. it[i] = NewDir(b) /\ \A j \in Inodes : j # i => it[j] = inodeTable[j]
    BY <2>1
  <2> HIDE DEF it
  <2>4. PointsTo(it[i], b)
    <3>1. 0 \in Idx
      BY GeometryAssumption
    <3>2. it[i].direct[0] = b
      BY <2>2, <2>3, <3>1
    <3>3. QED
      BY <3>1, <3>2 DEF PointsTo
  <2>5. QED
    BY <2>2, <2>3, <2>4 DEF MadeNode
<1> HIDE DEF it, bl, bb, cell, s, UB, UI
<1>5. Disks(it, bl) /\ TableCovered(it, bb) /\ TableApart(it) /\ Fresh(it, bl, i, par)
  BY <1>1, <1>e, NewDirFresh
<1>6. s \in Counters /\ Bounds(s, bb, inodeBitmap \cup {i}, UB \cup {b}, UI \cup {i})
  <2>1. /\ sb \in Counters /\ Bounds(sb, blockBitmap, inodeBitmap, UB, UI)
        /\ UB \subseteq blockBitmap /\ UI \subseteq inodeBitmap
    BY ReadySpace DEF UB, UI
  <2>2. /\ TakeBlock(sb) \in Counters
        /\ Bounds(TakeBlock(sb), bb, inodeBitmap, UB \cup {b}, UI)
    BY <1>1, <2>1, BoundsTakeBlock
  <2>3. QED
    BY <2>1, <2>2, BoundsTakeInode DEF s
<1>7. /\ Ready /\ inodeTable[par].type = "DIR" /\ OfTree(inodeTable, block, par)
  BY ReadySpace
<1>8. Bounds(s, bb, inodeBitmap \cup {i}, UsedBlocks(inodeTable, block) \cup {b},
             UsedInodes(inodeTable, block) \cup {i})
  BY <1>6 DEF UB, UI
<1>9. QED
  BY <1>1, <1>2, <1>3, <1>4, <1>5, <1>6, <1>7, <1>8, NewNodeSpace

-----------------------------------------------------------------------------
(* unlink, rmdir and truncate *)

\* Inode i loses the pointers K, and with them all its entry and its bit.
LEMMA LostSpace ==
    ASSUME SpaceInv, EntryInv', Ready, NEW i \in Inodes, OfTree(inodeTable, block, i), i # Root,
           NEW K \in SUBSET Pointers(inodeTable[i]),
           Lost(inodeTable, block, inodeTable', block', i, K),
           inodeTable'[Root].type = "DIR",
           blockBitmap' = blockBitmap \ Dropped(inodeTable[i], K),
           \/ /\ OfTree(inodeTable', block', i)
              /\ inodeBitmap' = inodeBitmap /\ sb' = GiveBlocks(sb, K)
           \/ /\ ~OfTree(inodeTable', block', i)
              /\ inodeBitmap' = inodeBitmap \ {i} /\ sb' = GiveInode(GiveBlocks(sb, K)),
           diskSb' = sb', UNCHANGED <<mounted, writing>>
    PROVE  SpaceStep
<1> DEFINE UB == UsedBlocks(inodeTable, block)
           UI == UsedInodes(inodeTable, block)
           D == Dropped(inodeTable[i], K)
<1>e. EntryInv
  BY DEF SpaceInv
<1>t. /\ Disks(inodeTable, block) /\ TableApart(inodeTable) /\ sb \in Counters
      /\ \A b \in blockBitmap : b \in DataBlocks
  BY <1>e DEF EntryInv, OwnershipInv, TypeOK, Disks, NoSharedBlock, TableApart
<1>w. writing = {} /\ writing' = {} /\ Copied(writing) = {} /\ Copied(writing') = {}
      /\ Extends(writing', inodeTable')
  BY DEF Ready, Copied, Extends
<1>u. UB \subseteq blockBitmap /\ UI \subseteq inodeBitmap
  BY <1>e, UsedMarked
<1>1. D \subseteq UB /\ UsedBlocks(inodeTable', block') = UB \ D
  BY <1>t, LostBlocks
<1>2. i \in UI
  BY DEF UsedInodes
<1>3. UsedInodes(inodeTable', block') = IF OfTree(inodeTable', block', i) THEN UI ELSE UI \ {i}
  BY <1>2 DEF Lost, UsedInodes
<1>4. Cardinality(K) = Cardinality(D)
  BY <1>t, DroppedCount DEF TableApart
<1>5. K \in SUBSET Idx
  BY DEF Pointers
<1>6. Bounds(sb, blockBitmap, inodeBitmap, UB, UI)
  <2>1. UB \cup Copied(writing) = UB
    BY <1>w
  <2>2. QED
    BY <2>1 DEF SpaceInv, Ready
<1>7. D \subseteq DataBlocks
  BY <1>1, <1>u, <1>t
<1>8. blockBitmap' = blockBitmap \ D
  OBVIOUS
<1> HIDE DEF UB, UI, D
<1>9. /\ GiveBlocks(sb, K) \in Counters
      /\ Bounds(GiveBlocks(sb, K), blockBitmap', inodeBitmap, UB \ D, UI)
  <2>1. sb \in Counters /\ D \subseteq UB /\ UB \subseteq blockBitmap
    BY <1>t, <1>u, <1>1
  <2>2. /\ GiveBlocks(sb, K) \in Counters
        /\ Bounds(GiveBlocks(sb, K), blockBitmap \ D, inodeBitmap, UB \ D, UI)
    BY <1>4, <1>5, <1>6, <1>7, <2>1, BoundsGiveBlocks
  <2>3. QED
    BY <1>8, <2>2
<1>10. Bounds(sb', blockBitmap', inodeBitmap', UsedBlocks(inodeTable', block'),
              UsedInodes(inodeTable', block'))
  <2>1. CASE OfTree(inodeTable', block', i)
    BY <1>1, <1>3, <1>9, <2>1
  <2>2. CASE ~OfTree(inodeTable', block', i)
    <3>1. i \in inodeBitmap
      BY <1>2, <1>u
    <3>2. Bounds(GiveInode(GiveBlocks(sb, K)), blockBitmap', inodeBitmap \ {i}, UB \ D, UI \ {i})
      BY <1>2, <1>9, <3>1, BoundsGiveInode
    <3>3. QED
      BY <1>1, <1>3, <2>2, <3>2
  <2>3. QED
    BY <2>1, <2>2
<1>11. SpaceInv'
  BY <1>w, <1>10 DEF SpaceInv
<1>12. Idle(blockBitmap', inodeTable', block', writing')
          \subseteq Idle(blockBitmap, inodeTable, block, writing)
  BY <1>w, <1>1, <1>8 DEF Idle, UB
<1>13. inodeBitmap' \ UsedInodes(inodeTable', block')
          \subseteq inodeBitmap \ UsedInodes(inodeTable, block)
  BY <1>3 DEF UI
<1>14. QED
  BY <1>11, <1>12, <1>13 DEF SpaceStep

LEMMA DiscardSpace ==
    ASSUME SpaceInv, EntryInv', NEW par \in Inodes, NEW n \in Names,
           ReadyIn(par, n),
           NEW i \in Lookup(inodeTable, block, par, n), Discard(par, n, i),
           \A p \in Where : ~HasEntry(inodeTable, block, i, p)
    PROVE  SpaceStep
<1> DEFINE K == Pointers(inodeTable[i])
<1>e. EntryInv /\ inodeTable[Root].type = "DIR" /\ Root \in Inodes
  BY GeometryAssumption DEF SpaceInv
<1>t. Disks(inodeTable, block) /\ inodeTable[par].type = "DIR" /\ Ready
  BY <1>e DEF EntryInv, OwnershipInv, TypeOK, Disks, ReadyIn
<1>1. /\ i \in Inodes /\ i # Root
      /\ \A d \in Inodes, p \in Where :
            HasEntry(inodeTable', block', d, p) <=>
                /\ HasEntry(inodeTable, block, d, p)
                /\ d # i
                /\ Target(inodeTable, block, d, p) # i
      /\ \A d \in Inodes, p \in Where :
            HasEntry(inodeTable', block', d, p) =>
                Target(inodeTable', block', d, p) = Target(inodeTable, block, d, p)
  BY <1>e, <1>t, DiscardEntries
<1>2. OfTree(inodeTable, block, i)
  <2>1. PICK p \in Where : HasEntry(inodeTable, block, par, p) /\ Target(inodeTable, block, par, p) = i
    BY <1>t, LookupEntry
  <2>2. QED
    BY <2>1 DEF OfTree, Named
<1>3. \A j : Named(inodeTable', block', j) <=> Named(inodeTable, block, j) /\ j # i
  <2>1. ASSUME NEW j, Named(inodeTable', block', j) PROVE Named(inodeTable, block, j) /\ j # i
    <3>1. PICK d \in Inodes, p \in Where : /\ HasEntry(inodeTable', block', d, p)
                                           /\ Target(inodeTable', block', d, p) = j
      BY <2>1 DEF Named
    <3>2. QED
      BY <1>1, <3>1 DEF Named
  <2>2. ASSUME NEW j, Named(inodeTable, block, j), j # i PROVE Named(inodeTable', block', j)
    <3>1. PICK d \in Inodes, p \in Where : /\ HasEntry(inodeTable, block, d, p)
                                           /\ Target(inodeTable, block, d, p) = j
      BY <2>2 DEF Named
    <3>2. d # i
      BY <3>1
    <3>3. HasEntry(inodeTable', block', d, p) /\ Target(inodeTable', block', d, p) = j
      BY <1>1, <2>2, <3>1, <3>2
    <3>4. QED
      BY <3>3 DEF Named
  <2>3. QED
    BY <2>1, <2>2
<1>4. ~OfTree(inodeTable', block', i) /\ \A j \in Inodes : j # i =>
         (OfTree(inodeTable', block', j) <=> OfTree(inodeTable, block, j))
  BY <1>1, <1>3 DEF OfTree
<1>5. /\ inodeTable' = [inodeTable EXCEPT ![i] = FreeInode]
      /\ blockBitmap' = blockBitmap \ Dropped(inodeTable[i], K)
      /\ inodeBitmap' = inodeBitmap \ {i}
      /\ sb' = GiveInode(GiveBlocks(sb, K)) /\ diskSb' = sb'
      /\ UNCHANGED <<mounted, writing>>
  BY DEF Discard, BlockFree, InodeFree, Dropped
<1>6. inodeTable'[i] = FreeInode /\ \A j \in Inodes : j # i => inodeTable'[j] = inodeTable[j]
  BY <1>1, <1>5, <1>t DEF Disks
<1>7. \A k \in Idx : inodeTable'[i].direct[k] =
                        IF k \in K THEN NoBlock ELSE inodeTable[i].direct[k]
  BY <1>6 DEF FreeInode, NoPointers, Pointers
<1> HIDE DEF K
<1>8. Lost(inodeTable, block, inodeTable', block', i, K)
  BY <1>4, <1>6, <1>7 DEF Lost, K
<1>9. inodeTable'[Root].type = "DIR"
  BY <1>e, <1>1, <1>6
<1>10. K \in SUBSET Pointers(inodeTable[i])
  BY DEF K
<1>11. QED
  BY <1>t, <1>1, <1>2, <1>4, <1>5, <1>8, <1>9, <1>10, LostSpace

LEMMA TruncateSpace ==
    ASSUME SpaceInv, EntryInv', NEW par \in Inodes, NEW n \in Names,
           ReadyIn(par, n),
           NEW i \in Lookup(inodeTable, block, par, n), inodeTable[i].type = "FILE",
           NEW K \in SUBSET Pointers(inodeTable[i]), BlockFree(inodeTable[i], K),
           inodeTable' = [inodeTable EXCEPT ![i] = Shortened(inodeTable[i], K)],
           sb' = GiveBlocks(sb, K), diskSb' = sb',
           UNCHANGED <<inodeBitmap, block, mounted, writing>>
    PROVE  SpaceStep
<1> DEFINE r == Shortened(inodeTable[i], K)
<1>e. EntryInv /\ inodeTable[Root].type = "DIR" /\ Root \in Inodes
  BY GeometryAssumption DEF SpaceInv
<1>t. /\ Disks(inodeTable, block) /\ inodeTable[par].type = "DIR" /\ Ready
      /\ inodeTable \in [Inodes -> Inode]
  BY <1>e DEF EntryInv, OwnershipInv, TypeOK, Disks, ReadyIn
<1>1. PICK p \in Where : HasEntry(inodeTable, block, par, p) /\ Target(inodeTable, block, par, p) = i
  <2>1. Disks(inodeTable, block) /\ inodeTable[par].type = "DIR"
    BY <1>t
  <2>2. QED
    BY <2>1, LookupEntry
<1>2. i \in Inodes /\ i # Root /\ OfTree(inodeTable, block, i)
  <2>1. Named(inodeTable, block, i)
    BY <1>1 DEF Named
  <2>2. i \in Inodes
    BY <1>t, LookupType DEF Disks
  <2>3. QED
    BY <1>e, <2>1, <2>2 DEF OfTree
<1>3. r.type = "FILE"
      /\ \A k \in Idx : r.direct[k] = IF k \in K THEN NoBlock ELSE inodeTable[i].direct[k]
  BY <1>t, <1>2 DEF Shortened, Inode
<1>4. inodeTable' = [inodeTable EXCEPT ![i] = r]
  OBVIOUS
<1> HIDE DEF r
<1>5. inodeTable'[i] = r /\ \A j \in Inodes : j # i => inodeTable'[j] = inodeTable[j]
  BY <1>t, <1>2, <1>4
<1>6. SameEntries(inodeTable, block, inodeTable', block')
  <2>1. /\ SameTypes(inodeTable, inodeTable')
        /\ \A d \in Inodes : inodeTable[d].type = "DIR" => inodeTable'[d] = inodeTable[d]
    BY <1>3, <1>5 DEF SameTypes
  <2>2. QED
    BY <2>1, FileInodeWritten
<1>7. \A j \in Inodes : OfTree(inodeTable', block', j) <=> OfTree(inodeTable, block, j)
  BY <1>6, SameUsed
<1>8. Lost(inodeTable, block, inodeTable', block', i, K)
  BY <1>2, <1>3, <1>5, <1>7 DEF Lost
<1>9. inodeTable'[Root].type = "DIR"
  BY <1>e, <1>2, <1>5
<1>10. blockBitmap' = blockBitmap \ Dropped(inodeTable[i], K)
  BY DEF BlockFree, Dropped
<1>11. OfTree(inodeTable', block', i) /\ inodeBitmap' = inodeBitmap /\ UNCHANGED <<mounted, writing>>
  BY <1>2, <1>7
<1>12. QED
  BY <1>t, <1>2, <1>8, <1>9, <1>10, <1>11, LostSpace

-----------------------------------------------------------------------------
(* The write loop *)

\* A step that leaves the table and the entries alone uses the same inodes and
\* blocks; what is left to see is the bitmap, the counters and the loop.
LEMMA TableKeptSpace ==
    ASSUME SpaceInv, EntryInv', UNCHANGED <<inodeTable, inodeBitmap>>,
           SameEntries(inodeTable, block, inodeTable', block'),
           blockBitmap \subseteq blockBitmap',
           Extends(writing', inodeTable), ~mounted' => writing' = {},
           Bounds(diskSb', blockBitmap', inodeBitmap,
                  UsedBlocks(inodeTable, block), UsedInodes(inodeTable, block)),
           mounted' => Bounds(sb', blockBitmap', inodeBitmap,
                              UsedBlocks(inodeTable, block) \cup Copied(writing'),
                              UsedInodes(inodeTable, block)),
           \/ rc' \in {"ENOSPC", "SHORT"} \/ Kill
           \/ blockBitmap' \ (UsedBlocks(inodeTable, block) \cup Copied(writing'))
                 \subseteq Idle(blockBitmap, inodeTable, block, writing)
    PROVE  SpaceStep
<1>1. UsedInodes(inodeTable', block') = UsedInodes(inodeTable, block)
  BY SameUsed
<1>2. UsedBlocks(inodeTable', block') = UsedBlocks(inodeTable, block)
  BY <1>1 DEF UsedBlocks
<1>3. SpaceInv'
  BY <1>1, <1>2 DEF SpaceInv
<1>4. inodeBitmap' \ UsedInodes(inodeTable', block')
         \subseteq inodeBitmap \ UsedInodes(inodeTable, block)
  BY <1>1
<1>5. Idle(blockBitmap', inodeTable', block', writing') =
         blockBitmap' \ (UsedBlocks(inodeTable, block) \cup Copied(writing'))
  BY <1>2 DEF Idle
<1>6. QED
  BY <1>3, <1>4, <1>5 DEF SpaceStep

\* A step of the loop finds one write under way, of a file in the tree.
LEMMA LoopSpace ==
    ASSUME SpaceInv, NEW w \in writing
    PROVE  /\ writing = {w} /\ mounted /\ w \in WriteLoop /\ w.inode \in Inode /\ w.ino \in Inodes
           /\ w.inode.type = "FILE" /\ inodeTable[w.ino].type = "FILE"
           /\ OfTree(inodeTable, block, w.ino)
           /\ \A b : b \in Copied(writing) <=> b \in DataBlocks /\ PointsTo(w.inode, b)
           /\ \A k \in Idx : inodeTable[w.ino].direct[k] # NoBlock =>
                                w.inode.direct[k] = inodeTable[w.ino].direct[k]
<1>1. writing = {w} /\ mounted
  BY DEF SpaceInv, EntryInv, OwnershipInv, OneWrite
<1>2. /\ w \in WriteLoop /\ w.ino \in opened /\ w.inode.type = "FILE"
      /\ inodeTable[w.ino].type = "FILE" /\ Named(inodeTable, block, w.ino)
  BY DEF SpaceInv, EntryInv, OwnershipInv, TypeOK, Handles
<1>3. w.inode \in Inode /\ w.ino \in Inodes
  BY <1>2 DEF WriteLoop
<1>4. QED
  BY <1>1, <1>2, <1>3 DEF SpaceInv, Extends, Copied, OfTree

LEMMA WriteInPlaceSpace ==
    ASSUME SpaceInv, EntryInv', NEW w \in writing, WriteInPlace(w)
    PROVE  SpaceStep
<1> DEFINE b == w.inode.direct[w.next]
           v == [w EXCEPT !.next = @ + 1]
<1>e. EntryInv /\ inodeTable \in [Inodes -> Inode] /\ block \in [DataBlocks -> [Slots -> Cell]]
  BY DEF SpaceInv, EntryInv, OwnershipInv, TypeOK
<1>1. /\ writing = {w} /\ w \in WriteLoop /\ inodeTable[w.ino].type = "FILE"
      /\ w.next \in Idx
  BY LoopSpace, GeometryAssumption DEF WriteInPlace, InLoop, WriteLoop
<1>2. /\ block' = [block EXCEPT ![b] = DataBlock] /\ writing' = {v}
      /\ UNCHANGED <<inodeBitmap, blockBitmap, inodeTable, diskSb, sb, mounted>>
  BY DEF WriteInPlace
<1>3. v.ino = w.ino /\ v.inode = w.inode
  BY <1>1 DEF WriteLoop
<1>4. \A d \in Inodes, k \in Idx : inodeTable[d].type = "DIR"
         /\ inodeTable[d].direct[k] # NoBlock => inodeTable[d].direct[k] # b
  BY <1>1, <1>e DEF EntryInv, OwnershipInv, NoSharedBlock, Apart
<1> HIDE DEF b, v
<1>5. SameEntries(inodeTable, block, inodeTable', block')
  BY <1>e, <1>2, <1>4, OtherBlockWritten
<1>6. Copied(writing') = Copied(writing) /\ Extends(writing', inodeTable)
  BY <1>1, <1>2, <1>3 DEF Copied, Extends, SpaceInv
<1>7. blockBitmap' \ (UsedBlocks(inodeTable, block) \cup Copied(writing'))
         \subseteq Idle(blockBitmap, inodeTable, block, writing)
  BY <1>2, <1>6 DEF Idle
<1>8. mounted' /\ inodeBitmap' = inodeBitmap
  BY <1>2, LoopSpace
<1>9. /\ Bounds(diskSb', blockBitmap', inodeBitmap,
                UsedBlocks(inodeTable, block), UsedInodes(inodeTable, block))
      /\ Bounds(sb', blockBitmap', inodeBitmap,
                UsedBlocks(inodeTable, block) \cup Copied(writing'), UsedInodes(inodeTable, block))
  BY <1>2, <1>6, <1>8 DEF SpaceInv
<1>10. QED
  BY <1>2, <1>5, <1>6, <1>7, <1>8, <1>9, TableKeptSpace

LEMMA WriteAllocSpace ==
    ASSUME SpaceInv, EntryInv', NEW w \in writing, WriteAlloc(w)
    PROVE  SpaceStep
<1> DEFINE UB == UsedBlocks(inodeTable, block)
           UI == UsedInodes(inodeTable, block)
<1>e. /\ EntryInv /\ inodeTable \in [Inodes -> Inode] /\ block \in [DataBlocks -> [Slots -> Cell]]
      /\ sb \in Counters /\ diskSb \in Counters /\ TableCovered(inodeTable, blockBitmap)
  BY DEF SpaceInv, EntryInv, OwnershipInv, TypeOK
<1>1. PICK b \in FirstFit(DataBlocks \ blockBitmap) :
             /\ blockBitmap' = blockBitmap \cup {b}
             /\ block' = [block EXCEPT ![b] = DataBlock]
             /\ sb' = TakeBlock(sb)
             /\ writing' = {[w EXCEPT !.next = @ + 1, !.inode = WithBlock(@, w.next, b)]}
  BY DEF WriteAlloc
<1> DEFINE v == [w EXCEPT !.next = @ + 1, !.inode = WithBlock(@, w.next, b)]
<1>2. b \in DataBlocks \ blockBitmap /\ writing' = {v}
  BY <1>1 DEF FirstFit
<1>3. /\ writing = {w} /\ mounted /\ w \in WriteLoop /\ w.inode \in Inode /\ w.next \in Idx
      /\ w.inode.direct[w.next] = NoBlock
      /\ \A k \in Idx : inodeTable[w.ino].direct[k] # NoBlock =>
                           w.inode.direct[k] = inodeTable[w.ino].direct[k]
  BY LoopSpace, GeometryAssumption DEF WriteAlloc, InLoop, WriteLoop
<1>4. v.ino = w.ino /\ v.inode = WithBlock(w.inode, w.next, b)
  BY <1>3 DEF WriteLoop
<1>5. \A k \in Idx : v.inode.direct[k] = IF k = w.next THEN b ELSE w.inode.direct[k]
  BY <1>2, <1>3, <1>4, WithBlockFields
<1>6. UNCHANGED <<inodeBitmap, inodeTable, diskSb, mounted>>
  BY DEF WriteAlloc
<1> HIDE DEF v
<1>7. SameEntries(inodeTable, block, inodeTable', block')
  <2>1. \A d \in Inodes, k \in Idx : inodeTable[d].type = "DIR"
           /\ inodeTable[d].direct[k] # NoBlock => inodeTable[d].direct[k] # b
    BY <1>e, <1>2 DEF TableCovered, Covered
  <2>2. QED
    BY <1>e, <1>1, <1>6, <2>1, OtherBlockWritten
<1>8. Extends(writing', inodeTable)
  BY <1>2, <1>3, <1>4, <1>5 DEF Extends
<1>9. Copied(writing') = Copied(writing) \cup {b}
  <2>1. \A c \in DataBlocks : PointsTo(v.inode, c) <=> PointsTo(w.inode, c) \/ c = b
    <3>1. \A c \in DataBlocks : c # NoBlock
      BY GeometryAssumption
    <3>2. QED
      BY <1>3, <1>5, <3>1 DEF PointsTo
  <2>2. QED
    BY <1>2, <1>3, <2>1 DEF Copied
<1>10. UB \cup Copied(writing) \subseteq blockBitmap
  BY <1>e, UsedMarked
<1>11. /\ Bounds(diskSb, blockBitmap, inodeBitmap, UB, UI)
       /\ Bounds(sb, blockBitmap, inodeBitmap, UB \cup Copied(writing), UI)
  BY <1>3 DEF SpaceInv
<1> HIDE DEF UB, UI
<1>12. Bounds(diskSb', blockBitmap', inodeBitmap, UB, UI)
  <2>1. blockBitmap \subseteq blockBitmap' /\ diskSb' = diskSb
    BY <1>1, <1>6
  <2>2. QED
    BY <1>e, <1>11, <2>1, BoundsWider
<1>13. Bounds(sb', blockBitmap', inodeBitmap, UB \cup Copied(writing'), UI)
  <2>1. Bounds(TakeBlock(sb), blockBitmap \cup {b}, inodeBitmap, (UB \cup Copied(writing)) \cup {b}, UI)
    BY <1>e, <1>2, <1>10, <1>11, BoundsTakeBlock
  <2>2. (UB \cup Copied(writing)) \cup {b} = UB \cup Copied(writing')
    BY <1>9
  <2>3. QED
    BY <1>1, <2>1, <2>2
<1>14. blockBitmap' \ (UB \cup Copied(writing')) \subseteq Idle(blockBitmap, inodeTable, block, writing)
  BY <1>1, <1>9 DEF Idle, UB
<1>15. mounted' /\ blockBitmap \subseteq blockBitmap' /\ UNCHANGED <<inodeTable, inodeBitmap>>
  BY <1>1, <1>3, <1>6
<1>16. QED
  BY <1>7, <1>8, <1>12, <1>13, <1>14, <1>15, TableKeptSpace DEF UB, UI

LEMMA WriteEndSpace ==
    ASSUME SpaceInv, EntryInv', NEW w \in writing, WriteEnd(w)
    PROVE  SpaceStep
<1> DEFINE UB == UsedBlocks(inodeTable, block)
           UI == UsedInodes(inodeTable, block)
<1>e. /\ EntryInv /\ inodeTable[Root].type = "DIR" /\ inodeTable \in [Inodes -> Inode]
      /\ Root \in Inodes /\ sb \in Counters
  BY GeometryAssumption DEF SpaceInv, EntryInv, OwnershipInv, TypeOK
<1>1. /\ writing = {w} /\ mounted /\ w.inode \in Inode /\ w.ino \in Inodes
      /\ w.inode.type = "FILE" /\ inodeTable[w.ino].type = "FILE"
      /\ OfTree(inodeTable, block, w.ino)
      /\ \A b : b \in Copied(writing) <=> b \in DataBlocks /\ PointsTo(w.inode, b)
      /\ \A k \in Idx : inodeTable[w.ino].direct[k] # NoBlock =>
                           w.inode.direct[k] = inodeTable[w.ino].direct[k]
  BY LoopSpace
<1>2. /\ inodeTable' = [inodeTable EXCEPT ![w.ino] = w.inode]
      /\ writing' = {} /\ diskSb' = sb
      /\ UNCHANGED <<inodeBitmap, blockBitmap, block, sb, mounted>>
  BY DEF WriteEnd
<1>3. inodeTable'[w.ino] = w.inode /\ \A j \in Inodes : j # w.ino => inodeTable'[j] = inodeTable[j]
  BY <1>e, <1>1, <1>2
<1>4. SameEntries(inodeTable, block, inodeTable', block')
  <2>1. /\ SameTypes(inodeTable, inodeTable')
        /\ \A d \in Inodes : inodeTable[d].type = "DIR" => inodeTable'[d] = inodeTable[d]
    BY <1>1, <1>3 DEF SameTypes
  <2>2. QED
    BY <1>2, <2>1, FileInodeWritten
<1>5. UsedInodes(inodeTable', block') = UI /\ w.ino \in UI /\ UI \subseteq Inodes
  BY <1>1, <1>4, SameUsed DEF UsedInodes
<1>6. UsedBlocks(inodeTable', block') = UB \cup Copied(writing)
  <2>b. \A b \in DataBlocks : b # NoBlock
    BY GeometryAssumption
  <2> DEFINE C == Copied(writing)
  <2>1. MorePointers(inodeTable, block, inodeTable', w.ino, C)
    <3>1. ASSUME NEW j \in UI, NEW k \in Idx, inodeTable[j].direct[k] \in DataBlocks
          PROVE  inodeTable'[j].direct[k] = inodeTable[j].direct[k]
      BY <1>1, <1>3, <1>5, <2>b, <3>1
    <3>2. ASSUME NEW j \in UI \cup {w.ino}, NEW k \in Idx, inodeTable'[j].direct[k] \in DataBlocks
          PROVE  \/ j \in UI /\ inodeTable'[j].direct[k] = inodeTable[j].direct[k]
                 \/ inodeTable'[j].direct[k] \in C
      BY <1>1, <1>3, <1>5, <3>2 DEF PointsTo
    <3>3. \A b \in C : b \in DataBlocks /\ PointsTo(inodeTable'[w.ino], b)
      BY <1>1, <1>3
    <3>4. QED
      BY <3>1, <3>2, <3>3 DEF MorePointers
  <2>2. UsedInodes(inodeTable', block') = UsedInodes(inodeTable, block) \cup {w.ino}
    BY <1>5
  <2> HIDE DEF C, UB, UI
  <2>3. ASSUME NEW i \in Inodes, NEW Z, MorePointers(inodeTable, block, inodeTable', i, Z),
               UsedInodes(inodeTable', block') = UsedInodes(inodeTable, block) \cup {i}
        PROVE  UsedBlocks(inodeTable', block') = UsedBlocks(inodeTable, block) \cup Z
    BY <2>3, MoreUsed
  <2>4. UsedBlocks(inodeTable', block') = UsedBlocks(inodeTable, block) \cup C
    BY <1>1, <2>1, <2>2, <2>3
  <2>5. QED
    BY <2>4 DEF C, UB
<1>7. Bounds(sb, blockBitmap, inodeBitmap, UB \cup Copied(writing), UI)
  BY <1>1 DEF SpaceInv
<1>8. Copied(writing') = {} /\ Extends(writing', inodeTable')
  BY <1>2 DEF Copied, Extends
<1>9. inodeTable'[Root].type = "DIR"
  BY <1>e, <1>1, <1>3
<1> HIDE DEF UB, UI
<1>10. SpaceInv'
  <2>1. Bounds(sb, blockBitmap', inodeBitmap',
               UsedBlocks(inodeTable', block') \cup Copied(writing'),
               UsedInodes(inodeTable', block'))
    <3>1. UsedBlocks(inodeTable', block') \cup Copied(writing') = UB \cup Copied(writing)
      BY <1>6, <1>8
    <3>2. QED
      BY <1>2, <1>5, <1>7, <3>1
  <2>2. Bounds(sb, blockBitmap', inodeBitmap',
               UsedBlocks(inodeTable', block'), UsedInodes(inodeTable', block'))
    BY <1>2, <1>5, <1>6, <1>7
  <2>3. QED
    BY <1>2, <1>8, <1>9, <2>1, <2>2 DEF SpaceInv
<1>11. Idle(blockBitmap', inodeTable', block', writing')
          \subseteq Idle(blockBitmap, inodeTable, block, writing)
  BY <1>2, <1>6 DEF Idle, UB
<1>12. inodeBitmap' \ UsedInodes(inodeTable', block')
          \subseteq inodeBitmap \ UsedInodes(inodeTable, block)
  BY <1>2, <1>5 DEF UI
<1>13. QED
  BY <1>10, <1>11, <1>12 DEF SpaceStep

-----------------------------------------------------------------------------
(* The invariant *)

\* mkfs_mini counts the root and its block as taken.
LEMMA InitSpace == Init => SpaceInv
<1> SUFFICES ASSUME Init PROVE SpaceInv
  OBVIOUS
<1>1. EntryInv
  BY InitEntries
<1>2. /\ inodeBitmap = {Root} /\ blockBitmap = {DataStart} /\ ~mounted /\ writing = {}
      /\ diskSb = [free_blocks |-> TotalBlocks - DataStart - 1, free_inodes |-> MaxInodes - 1]
  BY DEF Init
<1>3. Root \in Inodes /\ DataStart \in DataBlocks
  BY GeometryAssumption
<1>4. inodeTable[Root].type = "DIR"
  BY <1>3 DEF Init, NewDir
<1>5. /\ Cardinality(DataBlocks \ blockBitmap) = diskSb.free_blocks
      /\ Cardinality(Inodes \ inodeBitmap) = diskSb.free_inodes
  <2>1. Cardinality(DataBlocks) = TotalBlocks - DataStart /\ Cardinality(Inodes) = MaxInodes
    BY GeometryAssumption, FS_Interval
  <2>2. /\ Cardinality(DataBlocks \ ({} \cup {DataStart})) = Cardinality(DataBlocks \ {}) - 1
        /\ Cardinality(Inodes \ ({} \cup {Root})) = Cardinality(Inodes \ {}) - 1
    BY <1>3, OutsideTaken
  <2>3. /\ {} \cup {DataStart} = blockBitmap /\ {} \cup {Root} = inodeBitmap
        /\ DataBlocks \ {} = DataBlocks /\ Inodes \ {} = Inodes
    BY <1>2
  <2>4. QED
    BY <1>2, <2>1, <2>2, <2>3, GeometryAssumption
<1>6. Bounds(diskSb, blockBitmap, inodeBitmap, UsedBlocks(inodeTable, block),
             UsedInodes(inodeTable, block))
  <2> DEFINE UB == UsedBlocks(inodeTable, block)
             UI == UsedInodes(inodeTable, block)
  <2>1. UB \subseteq blockBitmap /\ UI \subseteq inodeBitmap
    BY <1>1, UsedMarked
  <2> HIDE DEF UB, UI
  <2>2. /\ Cardinality(DataBlocks \ blockBitmap) <= Cardinality(DataBlocks \ UB)
        /\ Cardinality(Inodes \ inodeBitmap) <= Cardinality(Inodes \ UI)
    BY <2>1, OutsideLess
  <2>3. Cardinality(DataBlocks \ blockBitmap) \in Nat /\ Cardinality(Inodes \ inodeBitmap) \in Nat
    BY OutsideFinite
  <2>4. Bounds(diskSb, blockBitmap, inodeBitmap, UB, UI)
    BY <1>5, <2>2, <2>3 DEF Bounds
  <2>5. QED
    BY <2>4 DEF UB, UI
<1>7. Extends(writing, inodeTable)
  BY <1>2 DEF Extends
<1>8. QED
  BY <1>1, <1>2, <1>4, <1>6, <1>7 DEF SpaceInv

\* Every callback and every event keeps the bounds, and loses nothing unless
\* it fails for want of space or is the death of the process.
LEMMA NextSpace == ~CutPaths /\ SpaceInv /\ [Next]_vars => SpaceStep
<1> SUFFICES ASSUME ~CutPaths, SpaceInv, [Next]_vars PROVE SpaceStep
  OBVIOUS
<1>e. EntryInv /\ EntryInv'
  BY NextEntries DEF SpaceInv, EntryStep
<1>b. /\ Bounds(diskSb, blockBitmap, inodeBitmap,
                UsedBlocks(inodeTable, block), UsedInodes(inodeTable, block))
      /\ mounted => Bounds(sb, blockBitmap, inodeBitmap,
                           UsedBlocks(inodeTable, block) \cup Copied(writing),
                           UsedInodes(inodeTable, block))
      /\ ~mounted => writing = {}
      /\ Extends(writing, inodeTable)
  BY DEF SpaceInv
<1>n. Copied({}) = {} /\ Extends({}, inodeTable)
  BY DEF Copied, Extends
<1>s. ASSUME UNCHANGED <<inodeTable, block>> PROVE SameEntries(inodeTable, block, inodeTable', block')
  BY <1>s DEF SameEntries
<1>k. UsedBlocks(inodeTable, block) \cup {} = UsedBlocks(inodeTable, block)
  OBVIOUS
<1>0. ASSUME UNCHANGED <<disk, diskSb, sb, mounted, writing>> PROVE SpaceStep
  BY <1>0, <1>b, <1>e, <1>s, TableKeptSpace DEF disk, Idle
<1>f. ASSUME NEW code, Fail(code) PROVE SpaceStep
  BY <1>f, <1>0 DEF Fail
<1>1. ASSUME NEW par \in Inodes, NEW n \in Names, Create(par, n)
      PROVE  SpaceStep
  <2>1. ReadyIn(par, n)
    BY <1>1 DEF Create
  <2>2. ASSUME NEW i \in FirstFit(Inodes \ inodeBitmap), CreateNew(par, n, i) PROVE SpaceStep
    <3>1. i \in Inodes \ inodeBitmap
      BY DEF FirstFit
    <3>2. QED
      BY <1>1, <1>e, <2>1, <2>2, <3>1, CreateSpace
  <2>3. QED
    BY <1>1, <1>f, <2>2 DEF Create, CreateRefused
<1>2. ASSUME NEW par \in Inodes, NEW n \in Names, Mkdir(par, n)
      PROVE  SpaceStep
  <2>1. ReadyIn(par, n)
    BY <1>2 DEF Mkdir
  <2>2. ASSUME NEW i \in FirstFit(Inodes \ inodeBitmap),
               NEW b \in FirstFit(DataBlocks \ blockBitmap), MkdirNew(par, n, i, b)
        PROVE  SpaceStep
    <3>1. i \in Inodes \ inodeBitmap /\ b \in DataBlocks \ blockBitmap
      BY DEF FirstFit
    <3>2. QED
      BY <1>2, <1>e, <2>1, <2>2, <3>1, MkdirSpace
  <2>3. QED
    BY <1>2, <1>f, <2>2 DEF Mkdir, MkdirRefused
<1>3. ASSUME NEW par \in Inodes, NEW n \in Names, Unlink(par, n)
      PROVE  SpaceStep
  <2>1. ASSUME NEW i \in Lookup(inodeTable, block, par, n), inodeTable[i].type = "FILE",
               Discard(par, n, i)
        PROVE  SpaceStep
    <3>1. ReadyIn(par, n)
      BY <1>3 DEF Unlink
    <3>2. \A p \in Where : ~HasEntry(inodeTable, block, i, p)
      BY <2>1 DEF HasEntry
    <3>3. QED
      BY <1>3, <1>e, <2>1, <3>1, <3>2, DiscardSpace
  <2>2. QED
    BY <1>3, <1>f, <2>1 DEF Unlink
<1>4. ASSUME NEW par \in Inodes, NEW n \in Names, Rmdir(par, n)
      PROVE  SpaceStep
  <2>1. ASSUME NEW i \in Lookup(inodeTable, block, par, n),
               Listed(inodeTable[i], block) = {}, Discard(par, n, i)
        PROVE  SpaceStep
    <3>1. ReadyIn(par, n)
      BY <1>4 DEF Rmdir
    <3>2. i \in Inodes
      BY <1>4, <1>e, LookupType DEF EntryInv, OwnershipInv, TypeOK
    <3>3. ASSUME NEW p \in Where, HasEntry(inodeTable, block, i, p) PROVE FALSE
      <4>1. Target(inodeTable, block, i, p) # Root
        BY <1>e, <3>2, <3>3 DEF EntryInv, Resolve
      <4>2. p \in Listed(inodeTable[i], block)
        BY <3>3, <4>1 DEF HasEntry, Target, Listed
      <4>3. QED
        BY <2>1, <4>2
    <3>4. QED
      BY <1>4, <1>e, <2>1, <3>1, <3>3, DiscardSpace
  <2>2. QED
    BY <1>4, <1>f, <2>1 DEF Rmdir
<1>5. ASSUME NEW par \in Inodes, NEW n \in Names, Open(par, n)
      PROVE  SpaceStep
  BY <1>5, <1>f, <1>0 DEF Open, OpenFound
<1>6. ASSUME NEW par \in Inodes, NEW n \in Names, NEW keep \in 0 .. DirectBlocks,
             Truncate(par, n, keep)
      PROVE  SpaceStep
  <2> DEFINE K(i) == {k \in Pointers(inodeTable[i]) : k >= keep}
  <2>1. ASSUME NEW i \in Lookup(inodeTable, block, par, n), inodeTable[i].type = "FILE",
               BlockFree(inodeTable[i], K(i)),
               inodeTable' = [inodeTable EXCEPT ![i] = Shortened(inodeTable[i], K(i))],
               sb' = GiveBlocks(sb, K(i)), diskSb' = sb',
               UNCHANGED <<inodeBitmap, block, mounted, writing>>
        PROVE  SpaceStep
    <3>1. K(i) \in SUBSET Pointers(inodeTable[i]) /\ ReadyIn(par, n)
      BY <1>6 DEF Truncate
    <3> HIDE DEF K
    <3>2. QED
      BY <1>6, <1>e, <2>1, <3>1, TruncateSpace
  <2>2. QED
    BY <1>6, <1>f, <2>1 DEF Truncate, TruncateFound
<1>7. ASSUME NEW i, NEW first, NEW last, WriteBegin(i, first, last) PROVE SpaceStep
  <2>1. ASSUME inodeTable[i].type = "FILE",
               writing' = {[ino |-> i, inode |-> inodeTable[i],
                            first |-> first, next |-> first, last |-> last]},
               UNCHANGED <<disk, diskSb, sb, mounted, opened, rc>>
        PROVE  SpaceStep
    <3>1. mounted /\ writing = {} /\ i \in opened
      BY <1>7 DEF WriteBegin, Ready
    <3>2. i \in Inodes /\ OfTree(inodeTable, block, i)
      BY <1>e, <3>1 DEF EntryInv, OwnershipInv, TypeOK, Handles, OfTree
    <3>3. Copied(writing') \subseteq UsedBlocks(inodeTable, block)
      BY <2>1, <3>2 DEF Copied, UsedBlocks, UsedInodes
    <3>4. UsedBlocks(inodeTable, block) \cup Copied(writing') =
             UsedBlocks(inodeTable, block) \cup Copied(writing)
      BY <1>n, <3>1, <3>3
    <3>5. Extends(writing', inodeTable)
      BY <2>1 DEF Extends
    <3>6. UNCHANGED <<inodeTable, block, inodeBitmap, blockBitmap, diskSb, sb, mounted>>
      BY <2>1 DEF disk
    <3>7. QED
      BY <1>b, <1>e, <1>s, <3>1, <3>4, <3>5, <3>6, TableKeptSpace DEF Idle
  <2>2. QED
    BY <1>7, <1>f, <2>1 DEF WriteBegin
<1>8. ASSUME NEW w \in writing, WriteInPlace(w) PROVE SpaceStep
  BY <1>8, <1>e, WriteInPlaceSpace
<1>9. ASSUME NEW w \in writing, WriteAlloc(w) PROVE SpaceStep
  BY <1>9, <1>e, WriteAllocSpace
<1>10. ASSUME NEW w \in writing, WriteEnd(w) PROVE SpaceStep
  BY <1>10, <1>e, WriteEndSpace
<1>11. ASSUME NEW W, W = {}, writing' = W, rc' \in {"ENOSPC", "SHORT"} \/ Kill, mounted' => mounted,
              mounted' => sb' = sb, UNCHANGED <<disk, diskSb>>
       PROVE  SpaceStep
  <2>1. UNCHANGED <<inodeTable, block, inodeBitmap, blockBitmap, diskSb>>
    BY <1>11 DEF disk
  <2>2. ASSUME mounted'
        PROVE  Bounds(sb', blockBitmap', inodeBitmap,
                      UsedBlocks(inodeTable, block) \cup Copied(writing'),
                      UsedInodes(inodeTable, block))
    <3> DEFINE UB == UsedBlocks(inodeTable, block)
               UI == UsedInodes(inodeTable, block)
               C == Copied(writing)
    <3>1. sb \in Counters
      BY <1>e DEF EntryInv, OwnershipInv, TypeOK
    <3>2. Bounds(sb, blockBitmap, inodeBitmap, UB \cup C, UI)
      BY <1>b, <1>11, <2>2
    <3> HIDE DEF UB, UI, C
    <3>3. Bounds(sb, blockBitmap, inodeBitmap, UB, UI)
      BY <3>1, <3>2, BoundsWider
    <3>4. QED
      BY <1>11, <1>n, <1>k, <2>1, <2>2, <3>3 DEF UB, UI
  <2>3. QED
    BY <1>11, <1>b, <1>e, <1>n, <1>s, <2>1, <2>2, TableKeptSpace
<1>12. ASSUME NEW w, WriteNoSpace(w) PROVE SpaceStep
  BY <1>12, <1>11 DEF WriteNoSpace
<1>13. ASSUME NEW i, Release(i) PROVE SpaceStep
  BY <1>13, <1>0 DEF Release
<1>14. CASE Mount
  <2>1. /\ UNCHANGED <<inodeTable, block, inodeBitmap, blockBitmap, diskSb, writing>>
        /\ ~mounted /\ sb' = diskSb
    BY <1>14 DEF Mount, disk
  <2>2. writing = {} /\ writing' = {}
    BY <1>b, <2>1
  <2>3. UsedBlocks(inodeTable, block) \cup Copied(writing') = UsedBlocks(inodeTable, block)
    BY <1>n, <2>2
  <2>4. QED
    BY <1>b, <1>e, <1>s, <2>1, <2>2, <2>3, TableKeptSpace DEF Idle
<1>15. CASE Unmount
  <2>1. /\ UNCHANGED <<inodeTable, block, inodeBitmap, blockBitmap, writing>>
        /\ mounted /\ writing = {} /\ diskSb' = sb /\ ~mounted'
    BY <1>15 DEF Unmount, Ready, disk
  <2>2. UsedBlocks(inodeTable, block) \cup Copied(writing) = UsedBlocks(inodeTable, block)
    BY <1>n, <2>1
  <2>3. QED
    BY <1>b, <1>e, <1>s, <2>1, <2>2, TableKeptSpace DEF Idle
<1>16. CASE Kill
  BY <1>16, <1>11 DEF Kill
<1>17. CASE UNCHANGED vars
  BY <1>17, <1>0 DEF vars, disk
<1>18. QED
  BY <1>1, <1>2, <1>3, <1>4, <1>5, <1>6, <1>7, <1>8, <1>9, <1>10, <1>12, <1>13, <1>14, <1>15,
     <1>16, <1>17 DEF Next

\* While no path is cut the bounds hold in every state.
LEMMA SpaceInvariant == ~CutPaths /\ Spec => []SpaceInv
<1>1. ~CutPaths /\ SpaceInv /\ [Next]_vars => SpaceInv'
  BY NextSpace DEF SpaceStep
<1>2. CASE ~CutPaths
  <2>1. SpaceInv /\ [Next]_vars => SpaceInv'
    BY <1>1, <1>2
  <2>2. QED
    BY InitSpace, <2>1, PTL DEF Spec
<1>3. QED
  BY <1>2

-----------------------------------------------------------------------------
(* The theorems about space *)

LEMMA SpaceImplies == SpaceInv => FreeCountsBounded
<1> SUFFICES ASSUME SpaceInv PROVE FreeCountsBounded
  OBVIOUS
<1> DEFINE UB == UsedBlocks(inodeTable, block)
           UI == UsedInodes(inodeTable, block)
<1>e. EntryInv /\ sb \in Counters /\ diskSb \in Counters
  BY DEF SpaceInv, EntryInv, OwnershipInv, TypeOK
<1>1. InTree = UI /\ TreeBlocks = UB
  BY <1>e, UsedAre
<1>2. UI \subseteq inodeBitmap
  BY <1>e, UsedMarked
<1>3. FreeInodes \cup LeakedInodes = Inodes \ UI
  <2>1. inodeBitmap \subseteq Inodes
    BY <1>e DEF EntryInv, OwnershipInv, TypeOK
  <2>2. QED
    BY <1>1, <1>2, <2>1 DEF FreeInodes, LeakedInodes
<1>4. ASSUME NEW s \in {diskSb} \cup (IF mounted THEN {sb} ELSE {})
      PROVE  Bounds(s, blockBitmap, inodeBitmap, UB, UI)
  <2>1. CASE s = diskSb
    BY <2>1 DEF SpaceInv
  <2>2. CASE mounted /\ s = sb
    <3> DEFINE C == Copied(writing)
    <3>1. Bounds(sb, blockBitmap, inodeBitmap, UB \cup C, UI)
      BY <2>2 DEF SpaceInv
    <3> HIDE DEF UB, UI, C
    <3>2. QED
      BY <1>e, <2>2, <3>1, BoundsWider
  <2>3. QED
    BY <2>1, <2>2
<1> HIDE DEF UB, UI
<1>5. QED
  BY <1>1, <1>3, <1>4 DEF FreeCountsBounded, Bounds, FreeBlocks, FreeInodes

\* While no path is cut, what statfs reports is never less than what is free, and
\* at most what the tree does not use: the counters on disk and in memory, in
\* every state, also inside a write and after the process has died.
THEOREM FreeCountsHold == ~CutPaths /\ Spec => []FreeCountsBounded
  BY SpaceInvariant, SpaceImplies, PTL

\* While no path is cut, no callback that succeeds leaves a block or an inode
\* marked that nothing names: what leaks is lost to a callback that ran out of
\* space half-way, or to the death of the process.
THEOREM NothingLeaksOnSuccess == ~CutPaths /\ Spec => LeaksOnlyOnFailure
<1> DEFINE C == UNION {Refs(w.inode) : w \in writing}
<1>1. SpaceInv => /\ LeakedBlocks = Idle(blockBitmap, inodeTable, block, writing)
                  /\ LeakedInodes = inodeBitmap \ UsedInodes(inodeTable, block)
  <2> SUFFICES ASSUME SpaceInv
               PROVE  /\ LeakedBlocks = Idle(blockBitmap, inodeTable, block, writing)
                      /\ LeakedInodes = inodeBitmap \ UsedInodes(inodeTable, block)
    OBVIOUS
  <2>e. EntryInv /\ \A w \in writing : w.inode \in Inode
    BY DEF SpaceInv, EntryInv, OwnershipInv, TypeOK, WriteLoop
  <2>1. InTree = UsedInodes(inodeTable, block) /\ TreeBlocks = UsedBlocks(inodeTable, block)
    BY <2>e, UsedAre
  <2>2. \A w \in writing : \A b : b \in Refs(w.inode) <=> b \in DataBlocks /\ PointsTo(w.inode, b)
    BY <2>e, RefsArePointed
  <2>3. C = Copied(writing)
    BY <2>2 DEF Copied
  <2>4. QED
    BY <2>1, <2>3 DEF LeakedBlocks, LeakedInodes, Idle
<1>2. SpaceInv' => /\ LeakedBlocks' = Idle(blockBitmap', inodeTable', block', writing')
                   /\ LeakedInodes' = inodeBitmap' \ UsedInodes(inodeTable', block')
  <2> SUFFICES ASSUME SpaceInv'
               PROVE  /\ LeakedBlocks' = Idle(blockBitmap', inodeTable', block', writing')
                      /\ LeakedInodes' = inodeBitmap' \ UsedInodes(inodeTable', block')
    OBVIOUS
  <2>e. EntryInv' /\ \A w \in writing' : w.inode \in Inode
    BY DEF SpaceInv, EntryInv, OwnershipInv, TypeOK, WriteLoop
  <2>1. InTree' = UsedInodes(inodeTable', block') /\ TreeBlocks' = UsedBlocks(inodeTable', block')
    BY <2>e, UsedAreNext
  <2>2. \A w \in writing' : \A b : b \in Refs(w.inode) <=> b \in DataBlocks /\ PointsTo(w.inode, b)
    BY <2>e, RefsArePointed
  <2>3. C' = Copied(writing')
    BY <2>2 DEF Copied, Refs, Pointers
  <2>4. QED
    BY <2>1, <2>3 DEF LeakedBlocks, LeakedInodes, Idle
<1>3. ~CutPaths /\ SpaceInv /\ [Next]_vars =>
         [\/ rc' \in {"ENOSPC", "SHORT"}
          \/ Kill
          \/ LeakedBlocks' \subseteq LeakedBlocks /\ LeakedInodes' \subseteq LeakedInodes]_vars
  BY <1>1, <1>2, NextSpace DEF SpaceStep
<1>4. CASE ~CutPaths
  <2>1. SpaceInv /\ [Next]_vars =>
           [\/ rc' \in {"ENOSPC", "SHORT"}
            \/ Kill
            \/ LeakedBlocks' \subseteq LeakedBlocks /\ LeakedInodes' \subseteq LeakedInodes]_vars
    BY <1>3, <1>4
  <2>2. Spec => []SpaceInv
    BY <1>4, SpaceInvariant
  <2>3. QED
    BY <2>1, <2>2, PTL DEF Spec, LeaksOnlyOnFailure
<1>5. QED
  BY <1>4
=============================================================================
