---------------------------- MODULE FormatProofs ----------------------------
(***************************************************************************)
(* Proofs about module Format: what a driver reads of a new image, and     *)
(* what its allocators offer, for all sizes of blocks, inodes and images.  *)
(*                                                                         *)
(* No structure reaches into another, so a write of the formatter destroys *)
(* none of its earlier ones.  The invariant says which writes the image    *)
(* shows: those done so far, whatever else the file held; and on a file    *)
(* that was all zeroes nothing but the first writes of one format, whether *)
(* it goes on or died.                                                     *)
(***************************************************************************)
EXTENDS Format, SequenceTheorems, TLAPS

-----------------------------------------------------------------------------
(* The invariant *)

Structures == {"sb", "ibits", "bbits", "table", "dir"}

Place(g, s) == Layout(g)[s].at
Size(g, s)  == Layout(g)[s].blocks
Area(g, s)  == Place(g, s) .. Place(g, s) + Size(g, s) - 1

\* The geometries that the formatters write.
Goals ==
    {g \in [tool : {"mini", "fuse"}, total : Nat, inodes : Nat] :
        IF g.tool = "mini"
        THEN g.inodes = MiniInodes /\ g.total > MiniDataStart + 1
        ELSE g.inodes \notin {0, 1} /\ DataStart(g) < Size(g, "bbits") * BitsPerBlock}

Transfers == [what : Structures, first : Nat, n : Nat]
Writes(g) == IF g.tool = "mini" THEN MiniWrites ELSE FuseWrites(g)

\* The blocks that a write covers, and that they show it.
Cover(g, w) == Place(g, w.what) + w.first .. Place(g, w.what) + w.first + w.n - 1

Shows(im, g, w) ==
    \A b \in Cover(g, w) : b \in DOMAIN im /\ im[b] = Part(w.what, b - Place(g, w.what), g)

\* The image shows the first p writes for g; it shows nothing else.
ShowsFirst(im, g, p) == \A j \in 1 .. p : Shows(im, g, Writes(g)[j])
ShowsOnly(im, g, p)  == \A b \in DOMAIN im : \E j \in 1 .. p : b \in Cover(g, Writes(g)[j])

\* All writes for g but the first p remain.
Remains(ws, g, p) ==
    /\ Len(ws) = Len(Writes(g)) - p
    /\ \A j \in 1 .. Len(ws) : ws[j] = Writes(g)[p + j]

\* The formatter is at some write, or through.
UnderWay(g) ==
    \E p \in 0 .. Len(Writes(g)) :
        /\ Remains(todo, g, p)
        /\ ShowsFirst(image, g, p)
        /\ fresh => ShowsOnly(image, g, p)

\* One format, cut short or not, made the whole image.
OneFormat ==
    \/ DOMAIN image = {}
    \/ \E g \in Goals : \E p \in 0 .. Len(Writes(g)) :
          ShowsFirst(image, g, p) /\ ShowsOnly(image, g, p)

FormatInv ==
    /\ length \in Nat
    /\ todo \in Seq(Transfers)
    /\ goal \in Goals \cup {NoGoal}
    /\ goal = NoGoal => todo = <<>>
    /\ goal # NoGoal => UnderWay(goal)
    /\ fresh => OneFormat

-----------------------------------------------------------------------------
(* Rounding up to whole blocks *)

\* Division by the size of a block.
LEMMA BlockDivision ==
    ASSUME NEW n \in Nat
    PROVE  /\ n \div BlockSize \in Nat
           /\ BlockSize * (n \div BlockSize) <= n
           /\ n < BlockSize * (n \div BlockSize) + BlockSize
  BY SizeAssumption

\* A quotient by its bounds, and products in order.
LEMMA Quotient ==
    ASSUME NEW m \in Nat \ {0}, NEW n \in Nat, NEW q \in Nat, m * q <= n, n < m * q + m
    PROVE  n \div m = q
<1> DEFINE d == n \div m
<1>1. d \in Nat /\ m * d <= n /\ n < m * d + m
  OBVIOUS
<1>2. CASE d < q
  <2>1. q = (d + 1) + (q - d - 1) /\ q - d - 1 \in Nat
    BY <1>1, <1>2
  <2>2. \A e \in Nat : m * ((d + 1) + e) = m * d + m + m * e /\ m * e >= 0
    BY <1>1
  <2> QED BY <1>1, <2>1, <2>2
<1>3. CASE q < d
  <2>1. d = (q + 1) + (d - q - 1) /\ d - q - 1 \in Nat
    BY <1>1, <1>3
  <2>2. \A e \in Nat : m * ((q + 1) + e) = m * q + m + m * e /\ m * e >= 0
    OBVIOUS
  <2> QED BY <1>1, <2>1, <2>2
<1> QED BY <1>1, <1>2, <1>3

\* What lies before n starts in one of the blocks that n needs.
LEMMA BlocksHold ==
    ASSUME NEW n \in Nat, NEW k \in Nat, k < n
    PROVE  k \div BlockSize \in 0 .. Blocks(n) - 1
<1> DEFINE q == k \div BlockSize
           r == Blocks(n)
<1>1. BlockSize \in Nat /\ BlockSize > 0 /\ n + BlockSize - 1 \in Nat
  BY SizeAssumption
<1>2. q \in Nat /\ BlockSize * q <= k
  BY BlockDivision
<1>3. r \in Nat /\ n + BlockSize - 1 < BlockSize * r + BlockSize
  BY <1>1, BlockDivision DEF Blocks
<1>4. r <= q => BlockSize * r <= BlockSize * q
  <2>1. ASSUME r <= q
        PROVE  BlockSize * r <= BlockSize * q
    <3> HIDE DEF q, r
    <3>1. PICK e \in Nat : q = r + e
      BY <1>2, <1>3, <2>1
    <3>2. BlockSize * (r + e) = BlockSize * r + BlockSize * e /\ BlockSize * e >= 0
      BY <1>1, <1>3
    <3>3. BlockSize * r \in Nat /\ BlockSize * e \in Nat
      BY <1>1, <1>3
    <3> QED BY <3>1, <3>2, <3>3
  <2> QED BY <2>1
<1>5. BlockSize * r \in Nat /\ BlockSize * q \in Nat
  BY <1>1, <1>2, <1>3
<1>6. q < r
  <2> HIDE DEF q, r
  <2> QED BY <1>1, <1>2, <1>3, <1>4, <1>5
<1> QED BY <1>2, <1>3, <1>6

LEMMA BlocksType ==
    ASSUME NEW n \in Nat
    PROVE  Blocks(n) \in Nat
<1>1. BlockSize \in Nat /\ BlockSize > 0 /\ n + BlockSize - 1 \in Nat
  BY SizeAssumption
<1> QED BY <1>1, BlockDivision DEF Blocks

\* Every bit lies in the blocks of its bitmap.
LEMMA BitsHold ==
    ASSUME NEW bits \in Nat, NEW i \in Nat, i < bits
    PROVE  i \div BitsPerBlock \in 0 .. Blocks(Bytes(bits)) - 1
<1> DEFINE y == i \div 8
           q == y \div BlockSize
<1>1. y \in Nat /\ Bytes(bits) \in Nat /\ y < Bytes(bits) /\ 8 * y <= i /\ i < 8 * y + 8
  BY DEF Bytes
<1>2. q \in 0 .. Blocks(Bytes(bits)) - 1
  BY <1>1, BlocksHold
<1>3. q \in Nat /\ BlockSize * q <= y /\ y < BlockSize * q + BlockSize
  BY <1>1, BlockDivision
<1>4. BitsPerBlock \in Nat \ {0}
  BY SizeAssumption DEF BitsPerBlock
<1>5. BitsPerBlock * q = 8 * (BlockSize * q)
  BY <1>3, SizeAssumption DEF BitsPerBlock
<1>6. BlockSize * q \in Nat /\ BlockSize \in Nat
  BY <1>3, SizeAssumption
<1>7. BitsPerBlock * q <= i /\ i < BitsPerBlock * q + BitsPerBlock
  <2> HIDE DEF q, y
  <2> QED BY <1>1, <1>3, <1>5, <1>6 DEF BitsPerBlock
<1>8. i \div BitsPerBlock = q
  <2> HIDE DEF q, y
  <2> QED BY <1>3, <1>4, <1>7, Quotient
<1> QED BY <1>2, <1>8

\* A bit before the end of so many blocks of bits lies in one of them.
LEMMA BitsWithin ==
    ASSUME NEW n \in Nat, NEW i \in Nat, i < n * BitsPerBlock
    PROVE  i \div BitsPerBlock \in 0 .. n - 1
<1> DEFINE m == BitsPerBlock
           q == i \div m
<1>1. m \in Nat \ {0}
  BY SizeAssumption DEF BitsPerBlock
<1>2. q \in Nat /\ m * q <= i
  <2> HIDE DEF m
  <2> QED BY <1>1
<1>3. n <= q => n * m <= m * q
  <2> SUFFICES ASSUME n <= q
               PROVE  n * m <= m * q
    OBVIOUS
  <2>1. q = n + (q - n) /\ q - n \in Nat
    BY <1>2
  <2> HIDE DEF m, q
  <2>2. \A e \in Nat : m * (n + e) = n * m + m * e /\ m * e >= 0
    BY <1>1
  <2> QED BY <2>1, <2>2, <1>1
<1>4. n * m \in Nat /\ m * q \in Nat
  <2> HIDE DEF m, q
  <2> QED BY <1>1, <1>2
<1>5. q < n
  <2> HIDE DEF q
  <2> QED BY <1>2, <1>3, <1>4
<1> QED BY <1>2, <1>5

-----------------------------------------------------------------------------
(* The structures *)

\* What the layout says of each geometry.
LEMMA PlacesAre ==
    ASSUME NEW g
    PROVE  /\ Place(g, "sb") = 0 /\ Size(g, "sb") = 1
           /\ Place(g, "ibits") = 1
           /\ Size(g, "dir") = 1
           /\ Place(g, "dir") = DataStart(g)
           /\ g.tool = "mini" =>
                 /\ Size(g, "ibits") = 1
                 /\ Place(g, "bbits") = 2 /\ Size(g, "bbits") = 1
                 /\ Place(g, "table") = 3 /\ Size(g, "table") = MiniTableBlocks
                 /\ Place(g, "dir") = 3 + MiniTableBlocks
           /\ g.tool # "mini" =>
                 /\ Size(g, "ibits") = Blocks(Bytes(g.inodes))
                 /\ Place(g, "table") = 1 + Size(g, "ibits")
                 /\ Size(g, "table") = Blocks(g.inodes * FuseInodeSize)
                 /\ Place(g, "bbits") = Place(g, "table") + Size(g, "table")
                 /\ Size(g, "bbits") = Blocks(Bytes(g.total))
                 /\ Place(g, "dir") = Place(g, "bbits") + Size(g, "bbits")
  BY DEF Place, Size, Layout, MiniLayout, FuseLayout, Region, DataStart, MiniDataStart

LEMMA GoalIs ==
    ASSUME NEW g \in Goals
    PROVE  /\ g.tool \in {"mini", "fuse"} /\ g.total \in Nat /\ g.inodes \in Nat \ {0}
           /\ g # NoGoal /\ NoGoal.tool \notin {"mini", "fuse"}
           /\ g.tool = "mini" => g.inodes = MiniInodes /\ g.total > MiniDataStart + 1
           /\ g.tool # "mini" =>
                 /\ g.inodes > 1
                 /\ DataStart(g) < Size(g, "bbits") * BitsPerBlock
  BY SizeAssumption DEF Goals, NoGoal

\* The last inode of mkfs_mini ends where the table does.
LEMMA MiniTable ==
    /\ MiniTableBlocks \in Nat
    /\ MiniInodes * MiniInodeSize \in Nat \ {0}
    /\ BlockSize * MiniTableBlocks = MiniInodes * MiniInodeSize
    /\ MiniTableBlocks = Blocks(MiniInodes * MiniInodeSize)
<1> DEFINE n == MiniInodes * MiniInodeSize
<1>1. n \in Nat \ {0} /\ BlockSize \in Nat \ {0}
  BY SizeAssumption
<1>2. n % BlockSize = 0 /\ MiniTableBlocks = n \div BlockSize
  BY SizeAssumption DEF MiniTableBlocks
<1> HIDE DEF n
<1>3. MiniTableBlocks \in Nat /\ n = BlockSize * MiniTableBlocks
  BY <1>1, <1>2
<1>4. (n + BlockSize - 1) \div BlockSize = MiniTableBlocks
  BY <1>1, <1>3, Quotient, n + BlockSize - 1 \in Nat
<1> QED BY <1>1, <1>3, <1>4 DEF n, Blocks

\* Each structure has at least one block.
LEMMA PlacesType ==
    ASSUME NEW g \in Goals
    PROVE  \A s \in Structures : Place(g, s) \in Nat /\ Size(g, s) \in Nat \ {0}
<1>1. CASE g.tool = "mini"
  <2>1. MiniTableBlocks \in Nat \ {0}
    BY MiniTable, SizeAssumption
  <2> QED BY <1>1, <2>1, PlacesAre DEF Structures
<1>2. CASE g.tool # "mini"
  <2>1. g.inodes \in Nat \ {0} /\ g.total \in Nat /\ FuseInodeSize \in Nat \ {0}
    BY GoalIs, SizeAssumption
  <2>2. Bytes(g.inodes) \in Nat \ {0} /\ Bytes(g.total) \in Nat
    <3>1. \A n \in Nat : (n + 7) \div 8 \in Nat /\ (n > 0 => (n + 7) \div 8 > 0)
      OBVIOUS
    <3> QED BY <2>1, <3>1 DEF Bytes
  <2>3. g.inodes * FuseInodeSize \in Nat \ {0}
    BY <2>1
  <2>4. Size(g, "ibits") \in Nat \ {0} /\ Size(g, "table") \in Nat \ {0}
    <3>1. \A n \in Nat \ {0} : Blocks(n) \in Nat \ {0}
      <4> TAKE n \in Nat \ {0}
      <4>1. Blocks(n) \in Nat /\ 0 \div BlockSize \in 0 .. Blocks(n) - 1
        BY BlocksType, BlocksHold
      <4> QED BY <4>1
    <3> QED BY <1>2, <2>2, <2>3, <3>1, PlacesAre
  <2>5. Size(g, "bbits") \in Nat
    BY <1>2, <2>2, BlocksType, PlacesAre
  <2>6. Place(g, "table") \in Nat /\ Place(g, "bbits") \in Nat /\ Place(g, "dir") \in Nat
    BY <1>2, <2>4, <2>5, PlacesAre
  <2>7. Size(g, "bbits") # 0
    <3>1. BitsPerBlock \in Nat
      BY SizeAssumption DEF BitsPerBlock
    <3>2. DataStart(g) \in Nat /\ DataStart(g) < Size(g, "bbits") * BitsPerBlock
      BY <1>2, <2>6, GoalIs, PlacesAre
    <3>3. 0 * BitsPerBlock = 0
      BY <3>1
    <3> QED BY <3>2, <3>3
  <2> QED BY <2>4, <2>5, <2>6, <2>7, PlacesAre DEF Structures
<1> QED BY <1>1, <1>2

\* No structure reaches into another.
LEMMA AreasApart ==
    ASSUME NEW g \in Goals, NEW s \in Structures, NEW r \in Structures,
           NEW b \in Area(g, s) \cap Area(g, r)
    PROVE  s = r
<1>1. \A x \in Structures : Place(g, x) \in Nat /\ Size(g, x) \in Nat \ {0}
  BY PlacesType
<1>2. /\ b \in Int
      /\ Place(g, s) <= b /\ b < Place(g, s) + Size(g, s)
      /\ Place(g, r) <= b /\ b < Place(g, r) + Size(g, r)
  BY <1>1 DEF Area
<1>3. CASE g.tool = "mini"
  BY <1>1, <1>2, <1>3, PlacesAre DEF Structures
<1>4. CASE g.tool # "mini"
  BY <1>1, <1>2, <1>4, PlacesAre DEF Structures
<1> QED BY <1>3, <1>4

-----------------------------------------------------------------------------
(* The writes of a format *)

LEMMA MiniWritesAre ==
    /\ MiniWrites \in Seq(Transfers)
    /\ Len(MiniWrites) = MiniTableBlocks + 4
    /\ MiniWrites[1] = Transfer("sb", 0, 1)
    /\ MiniWrites[2] = Transfer("ibits", 0, 1)
    /\ MiniWrites[3] = Transfer("bbits", 0, 1)
    /\ \A k \in 1 .. MiniTableBlocks : MiniWrites[3 + k] = Transfer("table", k - 1, 1)
    /\ MiniWrites[MiniTableBlocks + 4] = Transfer("dir", 0, 1)
<1> DEFINE a == <<Transfer("sb", 0, 1), Transfer("ibits", 0, 1), Transfer("bbits", 0, 1)>>
           t == [k \in 1 .. MiniTableBlocks |-> Transfer("table", k - 1, 1)]
           d == <<Transfer("dir", 0, 1)>>
<1>1. MiniTableBlocks \in Nat
  BY MiniTable
<1>2. a \in Seq(Transfers) /\ Len(a) = 3 /\ d \in Seq(Transfers) /\ Len(d) = 1
  BY DEF Transfers, Transfer, Structures
<1>3. /\ t \in Seq(Transfers) /\ Len(t) = MiniTableBlocks
      /\ \A k \in 1 .. MiniTableBlocks : t[k] = Transfer("table", k - 1, 1)
  <2>1. \A k \in 1 .. MiniTableBlocks : Transfer("table", k - 1, 1) \in Transfers
    BY <1>1 DEF Transfers, Transfer, Structures
  <2> QED BY <1>1, <2>1
<1>4. /\ a[1] = Transfer("sb", 0, 1) /\ a[2] = Transfer("ibits", 0, 1)
      /\ a[3] = Transfer("bbits", 0, 1) /\ d[1] = Transfer("dir", 0, 1)
  OBVIOUS
<1>5. MiniWrites = (a \o t) \o d
  BY DEF MiniWrites
<1> HIDE DEF a, t, d
<1>6. /\ a \o t \in Seq(Transfers) /\ Len(a \o t) = 3 + MiniTableBlocks
      /\ \A i \in 1 .. 3 + MiniTableBlocks : (a \o t)[i] = IF i <= 3 THEN a[i] ELSE t[i - 3]
  <2>1. /\ a \o t \in Seq(Transfers) /\ Len(a \o t) = Len(a) + Len(t)
        /\ \A i \in 1 .. Len(a) + Len(t) :
              (a \o t)[i] = IF i <= Len(a) THEN a[i] ELSE t[i - Len(a)]
    BY <1>2, <1>3, ConcatProperties, Zenon
  <2> QED BY <1>2, <1>3, <2>1
<1>7. /\ MiniWrites \in Seq(Transfers) /\ Len(MiniWrites) = 3 + MiniTableBlocks + 1
      /\ \A i \in 1 .. 3 + MiniTableBlocks + 1 :
            MiniWrites[i] = IF i <= 3 + MiniTableBlocks THEN (a \o t)[i]
                            ELSE d[i - (3 + MiniTableBlocks)]
  <2> DEFINE m == a \o t
  <2>1. m \in Seq(Transfers) /\ Len(m) = 3 + MiniTableBlocks
    BY <1>6
  <2> HIDE DEF m
  <2>2. /\ m \o d \in Seq(Transfers) /\ Len(m \o d) = Len(m) + Len(d)
        /\ \A i \in 1 .. Len(m) + Len(d) :
              (m \o d)[i] = IF i <= Len(m) THEN m[i] ELSE d[i - Len(m)]
    BY <1>2, <2>1, ConcatProperties, Zenon
  <2>3. MiniWrites = m \o d
    BY <1>5 DEF m
  <2>4. /\ MiniWrites \in Seq(Transfers) /\ Len(MiniWrites) = 3 + MiniTableBlocks + 1
        /\ \A i \in 1 .. 3 + MiniTableBlocks + 1 :
              MiniWrites[i] = IF i <= 3 + MiniTableBlocks THEN m[i]
                              ELSE d[i - (3 + MiniTableBlocks)]
    BY <1>2, <2>1, <2>2, <2>3
  <2> QED BY <2>4 DEF m
<1>8. \A k \in 1 .. 3 : MiniWrites[k] = a[k]
  <2> TAKE k \in 1 .. 3
  <2>1. /\ k \in 1 .. 3 + MiniTableBlocks + 1 /\ k <= 3 + MiniTableBlocks
        /\ k \in 1 .. 3 + MiniTableBlocks /\ k <= 3
    BY <1>1
  <2>2. MiniWrites[k] = (a \o t)[k]
    BY <1>7, <2>1
  <2>3. (a \o t)[k] = a[k]
    BY <1>6, <2>1
  <2> QED BY <2>2, <2>3
<1>9. \A k \in 1 .. MiniTableBlocks : MiniWrites[3 + k] = t[k]
  <2> TAKE k \in 1 .. MiniTableBlocks
  <2>1. 3 + k \in 1 .. 3 + MiniTableBlocks + 1 /\ 3 + k <= 3 + MiniTableBlocks
    BY <1>1
  <2>2. MiniWrites[3 + k] = (a \o t)[3 + k]
    BY <1>7, <2>1
  <2>3. (a \o t)[3 + k] = t[(3 + k) - 3] /\ (3 + k) - 3 = k
    BY <1>1, <1>6, <2>1
  <2> QED BY <2>2, <2>3
<1>10. Len(MiniWrites) = MiniTableBlocks + 4 /\ MiniWrites[MiniTableBlocks + 4] = d[1]
  BY <1>1, <1>7
<1>11. MiniWrites[1] = a[1] /\ MiniWrites[2] = a[2] /\ MiniWrites[3] = a[3]
  BY <1>8
<1>12. \A k \in 1 .. MiniTableBlocks : MiniWrites[3 + k] = Transfer("table", k - 1, 1)
  BY <1>3, <1>9
<1> QED BY <1>4, <1>7, <1>10, <1>11, <1>12

LEMMA FuseWritesAre ==
    ASSUME NEW g \in Goals, g.tool # "mini"
    PROVE  /\ FuseWrites(g) \in Seq(Transfers)
           /\ Len(FuseWrites(g)) = 5
           /\ FuseWrites(g)[1] = Transfer("sb", 0, Size(g, "sb"))
           /\ FuseWrites(g)[2] = Transfer("ibits", 0, Size(g, "ibits"))
           /\ FuseWrites(g)[3] = Transfer("table", 0, Size(g, "table"))
           /\ FuseWrites(g)[4] = Transfer("bbits", 0, Size(g, "bbits"))
           /\ FuseWrites(g)[5] = Transfer("dir", 0, Size(g, "dir"))
<1> DEFINE name(k) == <<"sb", "ibits", "table", "bbits", "dir">>[k]
<1>1. \A k \in 1 .. 5 : FuseWrites(g)[k] = Transfer(name(k), 0, Size(g, name(k)))
  BY DEF FuseWrites, Size, Layout
<1>2. /\ name(1) = "sb" /\ name(2) = "ibits" /\ name(3) = "table"
      /\ name(4) = "bbits" /\ name(5) = "dir"
  OBVIOUS
<1>3. \A k \in 1 .. 5 : name(k) \in Structures
  BY <1>2 DEF Structures
<1> HIDE DEF name
<1>4. \A k \in 1 .. 5 : FuseWrites(g)[k] \in Transfers
  BY <1>1, <1>3, PlacesType DEF Transfers, Transfer
<1>5. /\ DOMAIN FuseWrites(g) = 1 .. 5
      /\ FuseWrites(g) = [k \in 1 .. 5 |-> FuseWrites(g)[k]]
  BY DEF FuseWrites
<1>6. FuseWrites(g) \in Seq(Transfers) /\ Len(FuseWrites(g)) = 5
  BY <1>4, <1>5
<1> QED BY <1>1, <1>2, <1>6

\* Each write is of blocks of its structure.  All but the table's are of the
\* whole of it, and come once.
LEMMA WritesAre ==
    ASSUME NEW g \in Goals
    PROVE  /\ Writes(g) \in Seq(Transfers) /\ Len(Writes(g)) \in Nat
           /\ \A j \in 1 .. Len(Writes(g)) :
                 /\ Writes(g)[j] \in Transfers
                 /\ Writes(g)[j].first + Writes(g)[j].n <= Size(g, Writes(g)[j].what)
                 /\ Writes(g)[j].what # "table" =>
                       Writes(g)[j].first = 0 /\ Writes(g)[j].n = Size(g, Writes(g)[j].what)
           /\ \A i, j \in 1 .. Len(Writes(g)) :
                 i # j => \/ Writes(g)[i].what # Writes(g)[j].what
                          \/ Writes(g)[i].first + Writes(g)[i].n <= Writes(g)[j].first
                          \/ Writes(g)[j].first + Writes(g)[j].n <= Writes(g)[i].first
           /\ \A s \in Structures : \A k \in 0 .. Size(g, s) - 1 :
                 \E j \in 1 .. Len(Writes(g)) :
                    /\ Writes(g)[j].what = s
                    /\ Writes(g)[j].first <= k /\ k < Writes(g)[j].first + Writes(g)[j].n
           /\ \A j \in 1 .. Len(Writes(g)) :
                 Writes(g)[j].what = "table" =>
                    /\ \E i \in 1 .. j - 1 : Writes(g)[i].what = "ibits"
                    /\ g.tool = "mini" => \E i \in 1 .. j - 1 : Writes(g)[i].what = "bbits"
           /\ Writes(g)[1].what = "sb"
<1> DEFINE W == Writes(g)
<1>1. \A s \in Structures : Place(g, s) \in Nat /\ Size(g, s) \in Nat \ {0}
  BY PlacesType
<1>2. CASE g.tool = "mini"
  <2>1. W = MiniWrites
    BY <1>2 DEF Writes
  <2>2. /\ MiniTableBlocks \in Nat /\ Size(g, "table") = MiniTableBlocks
        /\ \A s \in Structures \ {"table"} : Size(g, s) = 1
    BY <1>2, PlacesAre, MiniTable DEF Structures
  <2>3. \A j \in 1 .. MiniTableBlocks + 4 :
           \/ j = 1 /\ W[j] = Transfer("sb", 0, 1)
           \/ j = 2 /\ W[j] = Transfer("ibits", 0, 1)
           \/ j = 3 /\ W[j] = Transfer("bbits", 0, 1)
           \/ j \in 4 .. MiniTableBlocks + 3 /\ W[j] = Transfer("table", j - 4, 1)
           \/ j = MiniTableBlocks + 4 /\ W[j] = Transfer("dir", 0, 1)
    <3> TAKE j \in 1 .. MiniTableBlocks + 4
    <3>1. CASE j \in 4 .. MiniTableBlocks + 3
      <4>1. j - 3 \in 1 .. MiniTableBlocks /\ 3 + (j - 3) = j /\ (j - 3) - 1 = j - 4
        BY <2>2, <3>1
      <4>2. MiniWrites[3 + (j - 3)] = Transfer("table", (j - 3) - 1, 1)
        BY <4>1, MiniWritesAre
      <4> QED BY <2>1, <3>1, <4>1, <4>2
    <3>2. j \in {1, 2, 3, MiniTableBlocks + 4} \/ j \in 4 .. MiniTableBlocks + 3
      BY <2>2
    <3> QED BY <2>1, <3>1, <3>2, MiniWritesAre
  <2>4. Len(W) = MiniTableBlocks + 4 /\ W \in Seq(Transfers)
    BY <2>1, MiniWritesAre
  <2> HIDE DEF W
  <2>5. \A j \in 1 .. Len(W) :
           /\ W[j] \in Transfers
           /\ W[j].first + W[j].n <= Size(g, W[j].what)
           /\ W[j].what # "table" => W[j].first = 0 /\ W[j].n = Size(g, W[j].what)
    <3> TAKE j \in 1 .. Len(W)
    <3> QED BY <2>2, <2>3, <2>4 DEF Transfer, Structures, Transfers
  <2>6. \A i, j \in 1 .. Len(W) :
           i # j => \/ W[i].what # W[j].what
                    \/ W[i].first + W[i].n <= W[j].first
                    \/ W[j].first + W[j].n <= W[i].first
    BY <2>2, <2>3, <2>4 DEF Transfer
  <2>7. \A s \in Structures : \A k \in 0 .. Size(g, s) - 1 :
           \E j \in 1 .. Len(W) : W[j].what = s /\ W[j].first <= k /\ k < W[j].first + W[j].n
    <3> TAKE s \in Structures
    <3> TAKE k \in 0 .. Size(g, s) - 1
    <3>1. CASE s = "table"
      <4>1. 4 + k \in 4 .. MiniTableBlocks + 3 /\ 4 + k \in 1 .. Len(W) /\ (4 + k) - 4 = k
        BY <2>2, <2>4, <3>1
      <4>2. W[4 + k] = Transfer("table", k, 1)
        BY <2>2, <2>3, <2>4, <4>1
      <4> QED BY <3>1, <4>1, <4>2 DEF Transfer
    <3>2. CASE s # "table"
      <4>1. k = 0
        BY <2>2, <3>2
      <4>2. /\ W[1] = Transfer("sb", 0, 1) /\ W[2] = Transfer("ibits", 0, 1)
            /\ W[3] = Transfer("bbits", 0, 1) /\ W[MiniTableBlocks + 4] = Transfer("dir", 0, 1)
        BY <2>1, MiniWritesAre
      <4>3. /\ 1 \in 1 .. Len(W) /\ 2 \in 1 .. Len(W) /\ 3 \in 1 .. Len(W)
            /\ MiniTableBlocks + 4 \in 1 .. Len(W)
        BY <2>2, <2>4
      <4> QED BY <3>2, <4>1, <4>2, <4>3 DEF Transfer, Structures
    <3> QED BY <3>1, <3>2
  <2>8. /\ W[1].what = "sb"
        /\ \A j \in 1 .. Len(W) :
              W[j].what = "table" =>
                 /\ \E i \in 1 .. j - 1 : W[i].what = "ibits"
                 /\ \E i \in 1 .. j - 1 : W[i].what = "bbits"
    <3>1. W[1].what = "sb" /\ W[2].what = "ibits" /\ W[3].what = "bbits"
      BY <2>1, MiniWritesAre DEF Transfer
    <3>2. ASSUME NEW j \in 1 .. Len(W), W[j].what = "table"
          PROVE  2 \in 1 .. j - 1 /\ 3 \in 1 .. j - 1
      BY <2>2, <2>3, <2>4, <3>2 DEF Transfer
    <3> QED BY <3>1, <3>2
  <2> QED BY <2>2, <2>4, <2>5, <2>6, <2>7, <2>8 DEF W
<1>3. CASE g.tool # "mini"
  <2>1. /\ W \in Seq(Transfers) /\ Len(W) = 5
        /\ W[1] = Transfer("sb", 0, Size(g, "sb"))
        /\ W[2] = Transfer("ibits", 0, Size(g, "ibits"))
        /\ W[3] = Transfer("table", 0, Size(g, "table"))
        /\ W[4] = Transfer("bbits", 0, Size(g, "bbits"))
        /\ W[5] = Transfer("dir", 0, Size(g, "dir"))
    BY <1>3, FuseWritesAre DEF Writes
  <2> HIDE DEF W
  <2>2. \A j \in 1 .. 5 : /\ W[j] \in Transfers /\ W[j].first = 0
                          /\ W[j].n = Size(g, W[j].what) /\ Size(g, W[j].what) \in Nat \ {0}
    BY <1>1, <2>1 DEF Transfer, Structures, Transfers
  <2>3. /\ W[1].what = "sb" /\ W[2].what = "ibits" /\ W[3].what = "table"
        /\ W[4].what = "bbits" /\ W[5].what = "dir"
    BY <2>1 DEF Transfer
  <2>4. \A i, j \in 1 .. Len(W) : i # j => W[i].what # W[j].what
    BY <2>1, <2>3
  <2>5. \A s \in Structures : \E j \in 1 .. 5 : W[j].what = s
    BY <2>3 DEF Structures
  <2>6. \A s \in Structures : \A k \in 0 .. Size(g, s) - 1 :
           \E j \in 1 .. Len(W) : W[j].what = s /\ W[j].first <= k /\ k < W[j].first + W[j].n
    <3> TAKE s \in Structures
    <3> TAKE k \in 0 .. Size(g, s) - 1
    <3>1. PICK j \in 1 .. 5 : W[j].what = s
      BY <2>5
    <3>2. W[j].first = 0 /\ W[j].n = Size(g, s) /\ Size(g, s) \in Nat
      BY <2>2, <3>1
    <3> QED BY <2>1, <3>1, <3>2
  <2>7. \A j \in 1 .. Len(W) :
           W[j].what = "table" => \E i \in 1 .. j - 1 : W[i].what = "ibits"
    BY <2>1, <2>3
  <2>8. \A j \in 1 .. Len(W) :
           /\ W[j] \in Transfers
           /\ W[j].first + W[j].n <= Size(g, W[j].what)
           /\ W[j].what # "table" => W[j].first = 0 /\ W[j].n = Size(g, W[j].what)
    BY <2>1, <2>2
  <2> QED BY <1>3, <2>1, <2>3, <2>4, <2>6, <2>7, <2>8 DEF W
<1> QED BY <1>2, <1>3

-----------------------------------------------------------------------------
(* What a write covers *)

LEMMA CoverIs ==
    ASSUME NEW g \in Goals, NEW j \in 1 .. Len(Writes(g))
    PROVE  /\ Writes(g)[j].what \in Structures
           /\ Cover(g, Writes(g)[j]) \subseteq Area(g, Writes(g)[j].what)
           /\ Writes(g)[j].what # "table" =>
                 Cover(g, Writes(g)[j]) = Area(g, Writes(g)[j].what)
<1> DEFINE w == Writes(g)[j]
           P == Place(g, w.what)
           N == Size(g, w.what)
<1>1. /\ w \in Transfers /\ w.first + w.n <= N
      /\ w.what # "table" => w.first = 0 /\ w.n = N
  BY WritesAre
<1> HIDE DEF w
<1>2. w.what \in Structures /\ w.first \in Nat /\ w.n \in Nat
  BY <1>1 DEF Transfers
<1>3. P \in Nat /\ N \in Nat
  BY <1>2, PlacesType
<1>4. /\ Cover(g, w) = P + w.first .. P + w.first + w.n - 1
      /\ Area(g, w.what) = P .. P + N - 1
  BY DEF Cover, Area
<1> HIDE DEF P, N
<1>5. /\ Cover(g, w) \subseteq Area(g, w.what)
      /\ w.what # "table" => Cover(g, w) = Area(g, w.what)
  <2>1. \A a, n \in Nat : a + n <= N => P + a .. P + a + n - 1 \subseteq P .. P + N - 1
    BY <1>3
  <2>2. P + 0 .. P + 0 + N - 1 = P .. P + N - 1
    BY <1>3
  <2> QED BY <1>1, <1>2, <1>4, <2>1, <2>2
<1> QED BY <1>2, <1>5 DEF w

\* No write covers a block that another one covers.
LEMMA CoversApart ==
    ASSUME NEW g \in Goals, NEW i \in 1 .. Len(Writes(g)), NEW j \in 1 .. Len(Writes(g)),
           NEW b \in Cover(g, Writes(g)[i]) \cap Cover(g, Writes(g)[j])
    PROVE  i = j
<1> DEFINE v == Writes(g)[i]
           w == Writes(g)[j]
<1>1. v.what = w.what /\ v.what \in Structures
  BY CoverIs, AreasApart
<1>2. /\ v \in Transfers /\ w \in Transfers
      /\ i # j => \/ v.what # w.what
                  \/ v.first + v.n <= w.first
                  \/ w.first + w.n <= v.first
  BY WritesAre
<1> HIDE DEF v, w
<1>3. Place(g, v.what) \in Nat
  BY <1>1, PlacesType
<1>4. b \in Cover(g, v) /\ b \in Cover(g, w)
  BY DEF v, w
<1> QED BY <1>1, <1>2, <1>3, <1>4 DEF Cover, Transfers

\* Every block of every structure is written.
LEMMA CoversAll ==
    ASSUME NEW g \in Goals, NEW s \in Structures, NEW b \in Area(g, s)
    PROVE  \E j \in 1 .. Len(Writes(g)) :
              Writes(g)[j].what = s /\ b \in Cover(g, Writes(g)[j])
<1>1. Place(g, s) \in Nat /\ Size(g, s) \in Nat
  BY PlacesType
<1>2. b - Place(g, s) \in 0 .. Size(g, s) - 1 /\ b \in Int
  BY <1>1 DEF Area
<1>3. PICK j \in 1 .. Len(Writes(g)) :
         /\ Writes(g)[j].what = s
         /\ Writes(g)[j].first <= b - Place(g, s)
         /\ b - Place(g, s) < Writes(g)[j].first + Writes(g)[j].n
  BY <1>2, WritesAre
<1>4. Writes(g)[j].first \in Nat /\ Writes(g)[j].n \in Nat
  BY WritesAre DEF Transfers
<1>5. Cover(g, Writes(g)[j])
         = Place(g, s) + Writes(g)[j].first .. Place(g, s) + Writes(g)[j].first + Writes(g)[j].n - 1
  BY <1>3 DEF Cover
<1>6. \A P, f, n \in Nat, c \in Int :
         f <= c - P /\ c - P < f + n => c \in P + f .. P + f + n - 1
  OBVIOUS
<1>7. b \in Cover(g, Writes(g)[j])
  BY <1>1, <1>2, <1>3, <1>4, <1>5, <1>6
<1> QED BY <1>3, <1>7

-----------------------------------------------------------------------------
(* What a driver reads of the writes so far *)

\* All blocks of a structure are read.
Whole(g, s) == \A k \in 0 .. Size(g, s) - 1 : Reads(Place(g, s), s, k, g)

LEMMA ReadOne ==
    ASSUME NEW g \in Goals, NEW p \in 0 .. Len(Writes(g)), ShowsFirst(image, g, p),
           NEW j \in 1 .. p, NEW k \in 0 .. Size(g, Writes(g)[j].what) - 1,
           Place(g, Writes(g)[j].what) + k \in Cover(g, Writes(g)[j])
    PROVE  Reads(Place(g, Writes(g)[j].what), Writes(g)[j].what, k, g)
<1> DEFINE s == Writes(g)[j].what
<1>1. Len(Writes(g)) \in Nat
  BY WritesAre
<1>2. s \in Structures
  BY <1>1, CoverIs
<1>3. Place(g, s) \in Nat /\ Size(g, s) \in Nat
  BY <1>2, PlacesType
<1>4. /\ Place(g, s) + k \in DOMAIN image
      /\ image[Place(g, s) + k] = Part(s, (Place(g, s) + k) - Place(g, s), g)
  BY DEF ShowsFirst, Shows
<1>5. (Place(g, s) + k) - Place(g, s) = k
  BY <1>3
<1> QED BY <1>4, <1>5 DEF Reads, At

\* A structure other than the table is read whole once its write is done.
LEMMA ReadWritten ==
    ASSUME NEW g \in Goals, NEW p \in 0 .. Len(Writes(g)), ShowsFirst(image, g, p),
           NEW j \in 1 .. p, Writes(g)[j].what # "table"
    PROVE  Whole(g, Writes(g)[j].what)
<1> DEFINE s == Writes(g)[j].what
<1>1. Len(Writes(g)) \in Nat
  BY WritesAre
<1>2. s \in Structures /\ Cover(g, Writes(g)[j]) = Area(g, s)
  BY <1>1, CoverIs
<1>3. Place(g, s) \in Nat /\ Size(g, s) \in Nat
  BY <1>2, PlacesType
<1>4. \A k \in 0 .. Size(g, s) - 1 : Place(g, s) + k \in Area(g, s)
  BY <1>3 DEF Area
<1> QED BY <1>2, <1>4, ReadOne DEF Whole

\* Everything is read after the last write.
LEMMA ReadAll ==
    ASSUME NEW g \in Goals, ShowsFirst(image, g, Len(Writes(g)))
    PROVE  \A s \in Structures : Whole(g, s)
<1> SUFFICES ASSUME NEW s \in Structures, NEW k \in 0 .. Size(g, s) - 1
             PROVE  Reads(Place(g, s), s, k, g)
  BY DEF Whole
<1>1. Place(g, s) \in Nat /\ Size(g, s) \in Nat /\ Len(Writes(g)) \in Nat
  BY PlacesType, WritesAre
<1>2. Place(g, s) + k \in Area(g, s)
  BY <1>1 DEF Area
<1>3. PICK j \in 1 .. Len(Writes(g)) :
         Writes(g)[j].what = s /\ Place(g, s) + k \in Cover(g, Writes(g)[j])
  BY <1>2, CoversAll
<1>4. Len(Writes(g)) \in 0 .. Len(Writes(g))
  BY <1>1
<1> QED BY <1>3, <1>4, ReadOne

\* On a file of zeroes all that is read was written.
LEMMA ReadOnly ==
    ASSUME NEW g \in Goals, NEW p \in 0 .. Len(Writes(g)),
           ShowsFirst(image, g, p), ShowsOnly(image, g, p),
           NEW b, At(b) # Zeroes
    PROVE  \E j \in 1 .. p :
              /\ j \in 1 .. Len(Writes(g))
              /\ b \in Cover(g, Writes(g)[j])
              /\ At(b) = Part(Writes(g)[j].what, b - Place(g, Writes(g)[j].what), g)
<1>1. b \in DOMAIN image
  BY DEF At
<1>2. PICK j \in 1 .. p : b \in Cover(g, Writes(g)[j])
  BY <1>1 DEF ShowsOnly
<1>3. image[b] = Part(Writes(g)[j].what, b - Place(g, Writes(g)[j].what), g)
  BY <1>2 DEF ShowsFirst, Shows
<1>4. j \in 1 .. Len(Writes(g))
  BY WritesAre
<1> QED BY <1>1, <1>2, <1>3, <1>4 DEF At

-----------------------------------------------------------------------------
(* What the allocators offer *)

LEMMA BitmapPlaces ==
    ASSUME NEW g
    PROVE  InodeBitmapAt(g) = Place(g, "ibits") /\ BlockBitmapAt(g) = Place(g, "bbits")
  BY DEF InodeBitmapAt, BlockBitmapAt, Place, Layout, MiniLayout, FuseLayout, Region, Blocks

\* The bit of every inode is in the bitmap.
LEMMA InodeBitsWhole ==
    ASSUME NEW g \in Goals, NEW i \in 0 .. g.inodes - 1
    PROVE  i \div BitsPerBlock \in 0 .. Size(g, "ibits") - 1
<1>1. g.inodes \in Nat /\ i \in Nat /\ i < g.inodes
  BY GoalIs
<1>2. CASE g.tool = "mini"
  <2>1. i < 1 * BitsPerBlock /\ Size(g, "ibits") = 1
    BY <1>1, <1>2, GoalIs, PlacesAre, SizeAssumption DEF BitsPerBlock
  <2> QED BY <1>1, <2>1, BitsWithin
<1>3. CASE g.tool # "mini"
  BY <1>1, <1>3, BitsHold, PlacesAre
<1> QED BY <1>2, <1>3

\* The root's number is never offered once the bits of inodes are written.
LEMMA RootNotOffered ==
    ASSUME NEW g \in Goals, Whole(g, "ibits")
    PROVE  RootInode(g) \notin InodesOffered(g)
<1>1. \A i \in InodesMarked(g) : i \in 0 .. g.inodes - 1 => InodeBit(g, i)
  BY InodeBitsWhole, BitmapPlaces DEF Whole, InodeBit, BitSet
<1>2. RootInode(g) \in InodesMarked(g)
  BY DEF RootInode, InodesMarked
<1> QED BY <1>1, <1>2 DEF InodesOffered

\* The blocks offered are those of data but the root's, once the bits of blocks
\* are written.
LEMMA BlocksOfferedAre ==
    ASSUME NEW g \in Goals, Whole(g, "bbits")
    PROVE  BlocksOffered(g) = DataStart(g) + 1 .. g.total - 1
<1>1. /\ BitsPerBlock \in Nat \ {0} /\ g.total \in Nat
      /\ DataStart(g) \in Nat /\ Size(g, "bbits") \in Nat \ {0}
  BY SizeAssumption, GoalIs, PlacesAre, PlacesType DEF BitsPerBlock, Structures
<1>2. \A n \in Nat : n \div BitsPerBlock \in 0 .. Size(g, "bbits") - 1 =>
         (BlockBit(g, n) <=> n \in BlocksMarked(g))
  BY BitmapPlaces DEF Whole, BlockBit, BitSet
<1>3. 0 \div BitsPerBlock = 0
  BY <1>1
<1>4. CASE g.tool = "mini"
  <2>1. BlocksMarked(g) = {0} /\ DataStart(g) = MiniDataStart /\ MiniDataStart \in Nat
    BY <1>1, <1>4 DEF BlocksMarked, DataStart, Layout, MiniLayout, Region
  <2>2. BlockBit(g, 0)
    BY <1>1, <1>2, <1>3, <2>1
  <2>3. \A m \in Nat : m > 0 => ~BlockBit(g, m)
    BY <2>1 DEF BlockBit, BitSet
  <2>4. {m \in 0 .. g.total - MiniDataStart - 1 : m >= BitsPerBlock \/ ~BlockBit(g, m)}
        = 1 .. g.total - MiniDataStart - 1
    BY <1>1, <2>1, <2>2, <2>3
  <2>5. BlocksOffered(g) = {MiniDataStart + n : n \in 1 .. g.total - MiniDataStart - 1}
    BY <1>4, <2>4 DEF BlocksOffered
  <2>6. \A b \in DataStart(g) + 1 .. g.total - 1 :
           /\ b - MiniDataStart \in 1 .. g.total - MiniDataStart - 1
           /\ b = MiniDataStart + (b - MiniDataStart)
    BY <1>1, <2>1
  <2>7. \A n \in 1 .. g.total - MiniDataStart - 1 :
           MiniDataStart + n \in DataStart(g) + 1 .. g.total - 1
    BY <1>1, <2>1
  <2> QED BY <2>5, <2>6, <2>7
<1>5. CASE g.tool # "mini"
  <2>1. BlocksMarked(g) = 0 .. DataStart(g)
    BY <1>5 DEF BlocksMarked
  <2>2. \A n \in 0 .. DataStart(g) : BlockBit(g, n)
    <3> TAKE n \in 0 .. DataStart(g)
    <3>1. Size(g, "bbits") * BitsPerBlock \in Nat
      BY <1>1
    <3>2. n \in Nat /\ n < Size(g, "bbits") * BitsPerBlock
      BY <1>1, <1>5, <3>1, GoalIs
    <3> QED BY <1>1, <1>2, <2>1, <3>2, BitsWithin
  <2>3. \A n : BlockBit(g, n) => n \in 0 .. DataStart(g)
    BY <2>1 DEF BlockBit, BitSet
  <2>4. BlocksOffered(g) = {b \in 0 .. g.total - 1 : ~BlockBit(g, b)}
    BY <1>1, <1>5, <2>2 DEF BlocksOffered
  <2> QED BY <1>1, <2>2, <2>3, <2>4
<1> QED BY <1>4, <1>5

\* The blocks that hold an inode are blocks of the table.
LEMMA InodesWhole ==
    ASSUME NEW g \in Goals, NEW i \in 0 .. g.inodes - 1
    PROVE  InodeBlocks(g, i) \subseteq 0 .. Size(g, "table") - 1
<1> DEFINE size == IF g.tool = "mini" THEN MiniInodeSize ELSE FuseInodeSize
           first == (i * size) \div BlockSize
           last  == (i * size + size - 1) \div BlockSize
<1>1. size \in Nat \ {0} /\ g.inodes \in Nat /\ i \in Nat /\ i + 1 <= g.inodes
  BY SizeAssumption, GoalIs
<1>2. Size(g, "table") = Blocks(g.inodes * size)
  BY MiniTable, PlacesAre, GoalIs
<1>3. InodeBlocks(g, i) = first .. last
  BY DEF InodeBlocks
<1> HIDE DEF size
<1>4. i * size \in Nat /\ i * size + size - 1 \in Nat /\ g.inodes * size \in Nat
  BY <1>1
<1>5. i * size + size - 1 < g.inodes * size
  <2>1. PICK e \in Nat : g.inodes = (i + 1) + e
    <3>1. g.inodes - (i + 1) \in Nat /\ g.inodes = (i + 1) + (g.inodes - (i + 1))
      BY <1>1
    <3> QED BY <3>1
  <2>2. ((i + 1) + e) * size = i * size + size + e * size /\ e * size >= 0
    BY <1>1
  <2>3. e * size \in Nat
    BY <1>1
  <2>4. g.inodes * size = i * size + size + e * size
    BY <2>1, <2>2
  <2> QED BY <1>1, <1>4, <2>2, <2>3, <2>4
<1>6. first \in Nat
  BY <1>4, BlockDivision
<1>7. last \in 0 .. Blocks(g.inodes * size) - 1
  BY <1>4, <1>5, BlocksHold
<1>8. Blocks(g.inodes * size) \in Nat
  BY <1>4, BlocksType
<1> HIDE DEF first, last
<1> QED BY <1>2, <1>3, <1>6, <1>7, <1>8

\* An inode is held by at least one block.
LEMMA InodeBlocksExist ==
    ASSUME NEW g, NEW i \in Nat
    PROVE  \E k \in Nat : k \in InodeBlocks(g, i)
<1> DEFINE size == IF g.tool = "mini" THEN MiniInodeSize ELSE FuseInodeSize
           m == i * size
           n == i * size + size - 1
           k == m \div BlockSize
<1>1. size \in Nat \ {0}
  BY SizeAssumption
<1> HIDE DEF size
<1>2. m \in Nat /\ n \in Nat /\ m <= n
  BY <1>1
<1>3. k \in Nat /\ n \div BlockSize \in Nat
  BY <1>2, BlockDivision
<1>4. k <= n \div BlockSize
  <2>1. n + 1 \in Nat /\ BlockSize \in Nat \ {0}
    BY <1>2, SizeAssumption
  <2>2. BlockSize * k <= m /\ n < BlockSize * (n \div BlockSize) + BlockSize
    BY <1>2, BlockDivision
  <2> DEFINE q == n \div BlockSize
  <2> HIDE DEF m, n, k, q
  <2>3. CASE q < k
    <3>1. PICK e \in Nat : k = (q + 1) + e
      <4>1. k - (q + 1) \in Nat /\ k = (q + 1) + (k - (q + 1))
        BY <1>3, <2>3 DEF q
      <4> QED BY <4>1
    <3>2. /\ BlockSize * ((q + 1) + e) = BlockSize * q + BlockSize + BlockSize * e
          /\ BlockSize * e >= 0
      BY <1>3, <2>1 DEF q
    <3>3. BlockSize * q \in Nat /\ BlockSize * e \in Nat
      BY <1>3, <2>1 DEF q
    <3>4. BlockSize * k = BlockSize * q + BlockSize + BlockSize * e
      BY <3>1, <3>2
    <3> QED BY <1>2, <2>1, <2>2, <3>3, <3>4 DEF q
  <2> QED BY <1>3, <2>3 DEF q
<1>5. InodeBlocks(g, i) = k .. n \div BlockSize
  BY DEF InodeBlocks, size
<1> HIDE DEF m, n, k
<1> QED BY <1>3, <1>4, <1>5

-----------------------------------------------------------------------------
(* The steps *)

\* A format that has written nothing yet.
LEMMA Begun ==
    ASSUME NEW g \in Goals, NEW ws, ws = Writes(g)
    PROVE  /\ ws \in Seq(Transfers)
           /\ 0 \in 0 .. Len(Writes(g))
           /\ Remains(ws, g, 0)
           /\ \A im : ShowsFirst(im, g, 0)
           /\ \A im : DOMAIN im = {} => ShowsOnly(im, g, 0)
<1>1. Writes(g) \in Seq(Transfers) /\ Len(Writes(g)) \in Nat
  BY WritesAre
<1>2. \A j \in 1 .. Len(Writes(g)) : 0 + j = j
  BY <1>1
<1> QED BY <1>1, <1>2 DEF Remains, ShowsFirst, ShowsOnly

LEMMA InitFormat == Init => FormatInv
<1> SUFFICES ASSUME Init
             PROVE  FormatInv
  OBVIOUS
<1>1. todo \in Seq(Transfers) /\ DOMAIN image = {} /\ length \in Nat
  BY SizeAssumption DEF Init
<1> QED BY <1>1 DEF Init, FormatInv, OneFormat

LEMMA StartMiniKeeps ==
    ASSUME FormatInv, NEW mb \in Megabytes, StartMini(mb)
    PROVE  FormatInv'
<1> DEFINE total == mb * BlocksPerMB
<1>1. total \in Nat
  BY SizeAssumption
<1>2. goal' \in Goals /\ goal'.tool = "mini"
  BY <1>1, SizeAssumption DEF StartMini, Goals
<1>3. todo' = Writes(goal') /\ DOMAIN image' = {} /\ length' \in Nat
  BY <1>1, <1>2 DEF StartMini, Writes
<1>4. goal' # NoGoal
  BY <1>2, GoalIs
<1>5. UnderWay(goal)'
  BY <1>2, <1>3, Begun DEF UnderWay
<1>6. todo' \in Seq(Transfers)
  BY <1>2, <1>3, Begun
<1> QED BY <1>2, <1>3, <1>4, <1>5, <1>6 DEF FormatInv, OneFormat

LEMMA StartFuseKeeps ==
    ASSUME FormatInv, NEW n \in InodeCounts, StartFuse(n)
    PROVE  FormatInv'
<1>1. goal' \in Goals /\ goal'.tool = "fuse"
  BY SizeAssumption DEF StartFuse, Goals, FormatInv, Size, Layout
<1>2. todo' = Writes(goal') /\ image' = image /\ length' = length /\ fresh' = (image = <<>>)
  BY <1>1 DEF StartFuse, Writes
<1>3. goal' # NoGoal
  BY <1>1, GoalIs
<1>4. fresh' => DOMAIN image' = {}
  <2>1. DOMAIN <<>> = {}
    OBVIOUS
  <2>2. fresh' => image = <<>>
    BY <1>2, Zenon
  <2> QED BY <1>2, <2>1, <2>2
<1>5. UnderWay(goal)'
  BY <1>1, <1>2, <1>4, Begun DEF UnderWay
<1>6. todo' \in Seq(Transfers)
  BY <1>1, <1>2, Begun
<1> QED BY <1>1, <1>2, <1>3, <1>4, <1>5, <1>6 DEF FormatInv, OneFormat

\* What a write does to the image.
LEMMA WriteIs ==
    ASSUME FormatInv, Write
    PROVE  LET w == Head(todo)
           IN  /\ goal \in Goals /\ w \in Transfers
               /\ DOMAIN image' = Cover(goal, w) \cup DOMAIN image
               /\ \A b \in Cover(goal, w) : image'[b] = Part(w.what, b - Place(goal, w.what), goal)
               /\ \A b \in DOMAIN image \ Cover(goal, w) : image'[b] = image[b]
               /\ length' \in Nat
               /\ goal' = goal /\ fresh' = fresh /\ todo' = Tail(todo) /\ todo # <<>>
<1> DEFINE w == Head(todo)
           first == Layout(goal)[w.what].at + w.first
           here == first .. first + w.n - 1
<1>1. goal \in Goals /\ todo # <<>> /\ w \in Transfers
  BY HeadTailProperties DEF FormatInv, Write
<1>2. w.what \in Structures /\ w.first \in Nat /\ w.n \in Nat
  BY <1>1 DEF Transfers
<1>3. Place(goal, w.what) \in Nat /\ first = Place(goal, w.what) + w.first
  BY <1>1, <1>2, PlacesType DEF Place
<1>4. Cover(goal, w) = here
  BY <1>3 DEF Cover
<1>5. image' = [b \in here \cup DOMAIN image |->
                   IF b \in here THEN Part(w.what, w.first + b - first, goal) ELSE image[b]]
  BY DEF Write
<1>6. length' \in Nat
  BY <1>2, <1>3 DEF Write, FormatInv
<1>7. \A b \in here : w.first + b - first = b - Place(goal, w.what)
  BY <1>2, <1>3
<1>8. /\ DOMAIN image' = Cover(goal, w) \cup DOMAIN image
      /\ \A b \in Cover(goal, w) : image'[b] = Part(w.what, b - Place(goal, w.what), goal)
      /\ \A b \in DOMAIN image \ Cover(goal, w) : image'[b] = image[b]
  <2> HIDE DEF first, here
  <2> QED BY <1>4, <1>5, <1>7
<1> QED BY <1>1, <1>6, <1>8 DEF Write

LEMMA WriteKeeps ==
    ASSUME FormatInv, Write
    PROVE  FormatInv'
<1> DEFINE w == Head(todo)
           W == Writes(goal)
<1>1. goal \in Goals /\ goal # NoGoal /\ W \in Seq(Transfers) /\ Len(W) \in Nat
  BY WriteIs, GoalIs, WritesAre
<1>2. PICK p \in 0 .. Len(W) :
         /\ Remains(todo, goal, p)
         /\ ShowsFirst(image, goal, p)
         /\ fresh => ShowsOnly(image, goal, p)
  BY <1>1 DEF FormatInv, UnderWay
<1>3. /\ todo \in Seq(Transfers) /\ todo # <<>>
      /\ todo' \in Seq(Transfers) /\ Len(todo') = Len(todo) - 1
      /\ \A i \in 1 .. Len(todo') : todo'[i] = todo[i + 1]
      /\ Len(todo) \in Nat \ {0} /\ w = todo[1]
  BY WriteIs, HeadTailProperties DEF FormatInv
<1>4. p + 1 \in 1 .. Len(W) /\ p + 1 \in 0 .. Len(W) /\ w = W[p + 1]
  BY <1>1, <1>2, <1>3 DEF Remains
<1>5. Remains(todo', goal, p + 1)
  <2>1. Len(todo') = Len(W) - (p + 1)
    BY <1>1, <1>2, <1>3 DEF Remains
  <2>2. ASSUME NEW i \in 1 .. Len(todo')
        PROVE  todo'[i] = W[(p + 1) + i]
    <3>1. i + 1 \in 1 .. Len(todo) /\ p + (i + 1) = (p + 1) + i
      BY <1>2, <1>3
    <3>2. todo'[i] = todo[i + 1] /\ todo[i + 1] = W[p + (i + 1)]
      BY <1>2, <1>3, <3>1 DEF Remains
    <3> QED BY <3>1, <3>2
  <2> QED BY <2>1, <2>2 DEF Remains
<1>6. ShowsFirst(image', goal, p + 1)
  <2>1. ASSUME NEW j \in 1 .. p, NEW b \in Cover(goal, W[j])
        PROVE  b \in DOMAIN image' /\ image'[b] = Part(W[j].what, b - Place(goal, W[j].what), goal)
    <3>1. b \in DOMAIN image /\ image[b] = Part(W[j].what, b - Place(goal, W[j].what), goal)
      BY <1>2 DEF ShowsFirst, Shows
    <3>2. j \in 1 .. Len(W) /\ j # p + 1
      BY <1>1, <1>2
    <3>3. b \notin Cover(goal, w)
      BY <1>1, <1>4, <3>2, CoversApart
    <3> QED BY <3>1, <3>3, WriteIs
  <2>2. Shows(image', goal, W[p + 1])
    BY <1>4, WriteIs DEF Shows
  <2>3. \A j \in 1 .. p + 1 : j \in 1 .. p \/ j = p + 1
    BY <1>2
  <2> QED BY <2>1, <2>2, <2>3 DEF ShowsFirst, Shows
<1>7. fresh => ShowsOnly(image', goal, p + 1)
  <2> SUFFICES ASSUME fresh, NEW b \in DOMAIN image'
               PROVE  \E j \in 1 .. p + 1 : b \in Cover(goal, W[j])
    BY DEF ShowsOnly
  <2>1. CASE b \in Cover(goal, w)
    BY <1>2, <1>4, <2>1
  <2>2. CASE b \notin Cover(goal, w)
    <3>1. b \in DOMAIN image
      BY <2>2, WriteIs
    <3>2. PICK j \in 1 .. p : b \in Cover(goal, W[j])
      BY <1>2, <3>1 DEF ShowsOnly
    <3>3. j \in 1 .. p + 1
      BY <1>2
    <3> QED BY <3>2, <3>3
  <2> QED BY <2>1, <2>2
<1>8. UnderWay(goal)'
  <2>1. /\ p + 1 \in 0 .. Len(Writes(goal'))
        /\ Remains(todo', goal', p + 1)
        /\ ShowsFirst(image', goal', p + 1)
        /\ fresh' => ShowsOnly(image', goal', p + 1)
    BY <1>4, <1>5, <1>6, <1>7, WriteIs
  <2> QED BY <2>1 DEF UnderWay
<1>9. fresh' => OneFormat'
  <2>1. fresh => \E q \in 0 .. Len(W) : ShowsFirst(image', goal, q) /\ ShowsOnly(image', goal, q)
    BY <1>4, <1>6, <1>7
  <2> QED BY <1>1, <2>1, WriteIs DEF OneFormat
<1> QED BY <1>1, <1>3, <1>8, <1>9, WriteIs DEF FormatInv

LEMMA NextFormat ==
    ASSUME FormatInv, [Next]_vars
    PROVE  FormatInv'
<1>1. CASE \E mb \in Megabytes : StartMini(mb)
  BY <1>1, StartMiniKeeps
<1>2. CASE \E n \in InodeCounts : StartFuse(n)
  BY <1>2, StartFuseKeeps
<1>3. CASE Write
  BY <1>3, WriteKeeps
<1>4. CASE Death
  <2>1. todo' \in Seq(Transfers) /\ NoGoal = NoGoal
    BY <1>4 DEF Death
  <2>2. image' = image /\ length' = length /\ fresh' = fresh /\ goal' = NoGoal /\ todo' = <<>>
    BY <1>4 DEF Death
  <2>3. fresh' => OneFormat'
    BY <2>2 DEF OneFormat, FormatInv
  <2> QED BY <2>1, <2>2, <2>3 DEF FormatInv
<1>5. CASE UNCHANGED vars
  BY <1>5 DEF vars, FormatInv, UnderWay, OneFormat
<1> QED BY <1>1, <1>2, <1>3, <1>4, <1>5 DEF Next

LEMMA FormatInvariant == Spec => []FormatInv
<1>1. Init => FormatInv
  BY InitFormat
<1>2. FormatInv /\ [Next]_vars => FormatInv'
  BY NextFormat
<1> QED BY <1>1, <1>2, PTL DEF Spec

-----------------------------------------------------------------------------
(* The theorems *)

\* A format that is done shows all its writes.
LEMMA DoneIs ==
    ASSUME FormatInv, Done
    PROVE  /\ goal \in Goals
           /\ \A s \in Structures : Whole(goal, s)
           /\ Mountable /\ Found = goal
<1>1. goal \in Goals /\ UnderWay(goal) /\ todo = <<>>
  BY DEF FormatInv, Done
<1>2. PICK p \in 0 .. Len(Writes(goal)) :
         Remains(todo, goal, p) /\ ShowsFirst(image, goal, p)
  BY <1>1 DEF UnderWay
<1>3. p = Len(Writes(goal))
  BY <1>1, <1>2, WritesAre, Len(todo) = 0 DEF Remains
<1>4. \A s \in Structures : Whole(goal, s)
  BY <1>1, <1>2, <1>3, ReadAll
<1>5. At(0) = Part("sb", 0, goal)
  <2>1. "sb" \in Structures /\ 0 \in 0 .. Size(goal, "sb") - 1 /\ Place(goal, "sb") + 0 = 0
    BY PlacesAre DEF Structures
  <2> QED BY <1>4, <2>1 DEF Whole, Reads
<1> QED BY <1>1, <1>4, <1>5 DEF Mountable, Found, Part

\* The invariant says what a driver finds after a format.
LEMMA FormatReads == FormatInv => FormatReadsBack
<1> SUFFICES ASSUME FormatInv, Done
             PROVE  /\ Mountable /\ Found = goal
                    /\ \A i \in 0 .. goal.inodes - 1 :
                          /\ ReadsInode(goal, i)
                          /\ Reads(InodeBitmapAt(goal), "ibits", i \div BitsPerBlock, goal)
                    /\ goal.tool = "fuse" => \A b \in 0 .. goal.total - 1 :
                          Reads(BlockBitmapAt(goal), "bbits", b \div BitsPerBlock, goal)
                    /\ Reads(BlockBitmapAt(goal), "bbits", 0, goal)
                    /\ Reads(DataStart(goal), "dir", 0, goal)
  BY DEF FormatReadsBack
<1>1. /\ goal \in Goals
      /\ Whole(goal, "ibits") /\ Whole(goal, "bbits") /\ Whole(goal, "table") /\ Whole(goal, "dir")
      /\ Mountable /\ Found = goal
  BY DoneIs DEF Structures
<1>2. ASSUME NEW i \in 0 .. goal.inodes - 1
      PROVE  /\ ReadsInode(goal, i)
             /\ Reads(InodeBitmapAt(goal), "ibits", i \div BitsPerBlock, goal)
  <2>1. Layout(goal).table.at = Place(goal, "table")
    BY DEF Place
  <2> QED BY <1>1, <2>1, InodesWhole, InodeBitsWhole, BitmapPlaces DEF ReadsInode, Whole
<1>3. ASSUME goal.tool = "fuse", NEW b \in 0 .. goal.total - 1
      PROVE  Reads(BlockBitmapAt(goal), "bbits", b \div BitsPerBlock, goal)
  <2>1. goal.total \in Nat /\ b \in Nat /\ b < goal.total
    BY <1>1, GoalIs
  <2>2. b \div BitsPerBlock \in 0 .. Size(goal, "bbits") - 1
    BY <1>3, <2>1, BitsHold, PlacesAre
  <2> QED BY <1>1, <2>2, BitmapPlaces DEF Whole
<1>4. 0 \in 0 .. Size(goal, "bbits") - 1 /\ 0 \in 0 .. Size(goal, "dir") - 1
  BY <1>1, PlacesType DEF Structures
<1>5. Reads(BlockBitmapAt(goal), "bbits", 0, goal) /\ Reads(DataStart(goal), "dir", 0, goal)
  BY <1>1, <1>4, BitmapPlaces, PlacesAre DEF Whole
<1> QED BY <1>1, <1>2, <1>3, <1>5

\* After a format a driver finds every inode, every bit and the root directory
\* where minifs_mount and the core layer look for them, whatever the file held,
\* for all sizes of blocks, inodes and images.
THEOREM FormatCorrect == Spec => []FormatReadsBack
  BY FormatInvariant, FormatReads, PTL

\* The invariant says what the allocators of a served image offer.
LEMMA RootNotGivenOut == FormatInv => AllocatorsAvoidRoot
<1> SUFFICES ASSUME FormatInv, Serves, fresh \/ Done
             PROVE  /\ RootInode(Found) \notin InodesOffered(Found)
                    /\ BlocksOffered(Found) \subseteq DataStart(Found) + 1 .. Found.total - 1
                    /\ At(DataStart(Found)) \in {Zeroes, Part("dir", 0, Found)}
                    /\ Done => BlocksOffered(Found) = DataStart(Found) + 1 .. Found.total - 1
  BY DEF AllocatorsAvoidRoot
<1>1. CASE Done
  <2>1. /\ Found \in Goals
        /\ Whole(Found, "ibits") /\ Whole(Found, "bbits") /\ Whole(Found, "dir")
    BY <1>1, DoneIs DEF Structures
  <2>2. At(DataStart(Found)) = Part("dir", 0, Found)
    <3>1. 0 \in 0 .. Size(Found, "dir") - 1 /\ Place(Found, "dir") + 0 = DataStart(Found)
      BY <2>1, PlacesType, PlacesAre DEF Structures
    <3> QED BY <2>1, <3>1 DEF Whole, Reads
  <2> QED BY <2>1, <2>2, RootNotOffered, BlocksOfferedAre
<1>2. CASE fresh /\ ~Done
  <2>1. DOMAIN image # {}
    <3>1. At(0) # Zeroes
      BY DEF Serves, Mountable, Zeroes
    <3> QED BY <3>1 DEF At
  <2>2. PICK g \in Goals : \E p \in 0 .. Len(Writes(g)) :
           ShowsFirst(image, g, p) /\ ShowsOnly(image, g, p)
    BY <1>2, <2>1 DEF FormatInv, OneFormat
  <2>3. PICK p \in 0 .. Len(Writes(g)) : ShowsFirst(image, g, p) /\ ShowsOnly(image, g, p)
    BY <2>2
  <2>4. Len(Writes(g)) \in Nat /\ p \in Nat
    BY WritesAre
  <2>5. Found = g
    <3>1. At(0) # Zeroes
      BY DEF Serves, Mountable, Zeroes
    <3> QED BY <2>3, <3>1, ReadOnly DEF Found, Part
  \* A part of a structure that is read was written by a write of it.
  <2>6. ASSUME NEW at, NEW s \in Structures, NEW k, Reads(at, s, k, g)
        PROVE  \E j \in 1 .. p : j \in 1 .. Len(Writes(g)) /\ Writes(g)[j].what = s
    <3>1. At(at + k) = Part(s, k, g) /\ At(at + k) # Zeroes
      BY <2>6 DEF Reads, Part, Zeroes, Structures
    <3> QED BY <2>3, <3>1, ReadOnly DEF Part
  \* The root is served, so at least one write of the table was done.
  <2>7. PICK j \in 1 .. p : j \in 1 .. Len(Writes(g)) /\ Writes(g)[j].what = "table"
    <3>1. PICK k \in Nat : k \in InodeBlocks(g, RootInode(g))
      BY InodeBlocksExist DEF RootInode
    <3>2. Reads(Layout(g).table.at, "table", k, g)
      BY <2>5, <3>1 DEF Serves, ReadsInode
    <3> QED BY <2>6, <3>2 DEF Structures
  <2>8. ASSUME NEW i \in 1 .. j - 1, Writes(g)[i].what # "table"
        PROVE  Whole(g, Writes(g)[i].what)
    <3>1. i \in 1 .. p
      BY <2>4
    <3> QED BY <2>3, <2>8, <3>1, ReadWritten
  <2>9. Whole(g, "ibits") /\ (g.tool = "mini" => Whole(g, "bbits"))
    BY <2>7, <2>8, WritesAre
  <2>10. ASSUME Reads(Place(g, "bbits"), "bbits", 0, g)
         PROVE  Whole(g, "bbits")
    <3>1. PICK i \in 1 .. p : Writes(g)[i].what = "bbits"
      BY <2>6, <2>10 DEF Structures
    <3> QED BY <2>3, <3>1, ReadWritten
  <2>11. BlocksOffered(g) \subseteq DataStart(g) + 1 .. g.total - 1
    <3>1. CASE Whole(g, "bbits")
      BY <3>1, BlocksOfferedAre
    <3>2. CASE ~Whole(g, "bbits")
      <4>1. 0 \div BitsPerBlock = 0
        BY SizeAssumption DEF BitsPerBlock
      <4>2. ~BlockBit(g, 0) /\ g.tool # "mini"
        BY <2>9, <2>10, <3>2, <4>1, BitmapPlaces DEF BlockBit, BitSet
      <4> QED BY <4>2 DEF BlocksOffered
    <3> QED BY <3>1, <3>2
  <2>12. At(DataStart(g)) \in {Zeroes, Part("dir", 0, g)}
    <3> SUFFICES ASSUME At(DataStart(g)) # Zeroes
                 PROVE  At(DataStart(g)) = Part("dir", 0, g)
      OBVIOUS
    <3>1. PICK i \in 1 .. p :
             /\ i \in 1 .. Len(Writes(g))
             /\ DataStart(g) \in Cover(g, Writes(g)[i])
             /\ At(DataStart(g)) =
                   Part(Writes(g)[i].what, DataStart(g) - Place(g, Writes(g)[i].what), g)
      BY <2>3, ReadOnly
    <3>2. DataStart(g) \in Nat /\ DataStart(g) \in Area(g, "dir") /\ "dir" \in Structures
      BY PlacesType, PlacesAre DEF Area, Structures
    <3>3. Writes(g)[i].what = "dir"
      BY <3>1, <3>2, CoverIs, AreasApart
    <3>4. DataStart(g) - Place(g, "dir") = 0
      BY <3>2, PlacesAre
    <3> QED BY <3>1, <3>3, <3>4
  <2> QED BY <1>2, <2>5, <2>9, <2>11, <2>12, RootNotOffered
<1> QED BY <1>1, <1>2

\* An image whose root can be served offers neither the root's inode nor its
\* block, nor a block outside its data, also when its only format was cut.
THEOREM AllocatorsCorrect == Spec => []AllocatorsAvoidRoot
  BY FormatInvariant, RootNotGivenOut, PTL

\* The size that mkfs_mini was called with.
SizeAsked == goal.tool = "mini" => \E mb \in Megabytes : goal.total = mb * BlocksPerMB

\* As long as no image has more data blocks than one block has bits (128 MB and
\* a little in the code), the bit of every data block lies in the bitmap of
\* mkfs_mini; a larger one refutes it.
THEOREM SmallImagesHaveTheirBits ==
    ASSUME \A mb \in Megabytes : mb * BlocksPerMB <= MiniDataStart + BitsPerBlock
    PROVE  Spec => []EveryBlockHasItsBit
<1>1. Init => SizeAsked
  BY DEF Init, SizeAsked, NoGoal
<1>2. SizeAsked /\ [Next]_vars => SizeAsked'
  <2> SUFFICES ASSUME SizeAsked, [Next]_vars
               PROVE  SizeAsked'
    OBVIOUS
  <2>1. CASE \E mb \in Megabytes : StartMini(mb)
    BY <2>1 DEF SizeAsked, StartMini
  <2>2. CASE \E n \in InodeCounts : StartFuse(n)
    BY <2>2 DEF SizeAsked, StartFuse
  <2>3. CASE Write \/ UNCHANGED vars
    BY <2>3 DEF SizeAsked, Write, vars
  <2>4. CASE Death
    BY <2>4 DEF SizeAsked, Death, NoGoal
  <2> QED BY <2>1, <2>2, <2>3, <2>4 DEF Next
<1>3. FormatInv /\ SizeAsked => EveryBlockHasItsBit
  <2> SUFFICES ASSUME FormatInv, SizeAsked, Done, goal.tool = "mini",
                      NEW n \in 0 .. goal.total - MiniDataStart - 1
               PROVE  Reads(BlockBitmapAt(goal), "bbits", n \div BitsPerBlock, goal)
    BY DEF EveryBlockHasItsBit
  <2>1. goal \in Goals /\ Whole(goal, "bbits")
    BY DoneIs DEF Structures
  <2>2. BitsPerBlock \in Nat /\ MiniDataStart \in Nat /\ goal.total \in Nat
    BY <2>1, GoalIs, MiniTable, SizeAssumption DEF BitsPerBlock, MiniDataStart
  <2>3. goal.total <= MiniDataStart + BitsPerBlock
    BY DEF SizeAsked
  <2>4. n \in Nat /\ n < 1 * BitsPerBlock
    BY <2>2, <2>3
  <2>5. n \div BitsPerBlock \in 0 .. Size(goal, "bbits") - 1
    BY <2>1, <2>4, BitsWithin, PlacesAre
  <2> QED BY <2>1, <2>5, BitmapPlaces DEF Whole
<1> QED BY <1>1, <1>2, <1>3, FormatInvariant, PTL DEF Spec
=============================================================================
