------------------------ MODULE MiniFSThreadsProofs -------------------------
(***************************************************************************)
(* What the driver guarantees with one worker (the option -s), proved for  *)
(* every geometry of MiniFSThreads, any number of table blocks, inodes and *)
(* data blocks whose bitmaps fit one block each: allocators hand out what  *)
(* is free, and a write that has returned stays.  With two workers numbers *)
(* and transfers collide (the runs that expect a violation).               *)
(*                                                                         *)
(* The invariant says of each point of a callback what its locals know of  *)
(* the image: a buffer is what its block still holds, a new block belongs  *)
(* to no file, the pointer of a truncated file is the only one to a block  *)
(* whose bit is clear.  It is about the image, the names, and one callback *)
(* as values, so that most of the proof is free of primes.                 *)
(***************************************************************************)
EXTENDS MiniFSThreads, TLAPS

OneWorker == \E t : Workers = {t}

Bufs == [kind : {"bitmap"}, bits : SUBSET Nat]
        \cup [kind : {"table"}, direct : [Slots -> Pointers]]
        \cup [kind : {"data"}, of : SUBSET Inodes]
Call == [op : {"create", "read", "write", "truncate", "unlink"}, f : Inodes, at : Points,
         sought : BOOLEAN, buf : Bufs, direct : Pointers]

-----------------------------------------------------------------------------
(* The image, with the parts a callback looks at *)

IBits(img)  == img[InodeBitmap].bits
BBits(img)  == img[BlockBitmap].bits
Direct(img) == [i \in Inodes |-> img[TableOf(i)].direct[Slot(i)]]

ImageType(img) ==
    /\ img \in [Blocks -> Bufs]
    /\ img[InodeBitmap].kind = "bitmap" /\ IBits(img) \subseteq Inodes
    /\ img[BlockBitmap].kind = "bitmap" /\ BBits(img) \subseteq DataBits
    /\ \A b \in TableArea : img[b].kind = "table"
    /\ \A b \in DataBlocks : img[b].kind = "data"

\* The points each callback passes through.
PointsOf(op) ==
    CASE op = "create"   -> {"number", "table", "record", "ibits", "iwrite"}
      [] op = "read"     -> {"inode", "data", "table", "record"}
      [] op = "write"    -> {"inode", "find", "mark", "zero", "data", "store", "table", "record"}
      [] op = "truncate" -> {"inode", "look", "unmark", "table", "record"}
      [] op = "unlink"   -> {"inode", "look", "unmark", "table", "record", "ibits", "iwrite"}

\* The block c.direct is marked, and no file but c.f points to it.
Owns(img, c) ==
    /\ c.direct \in DataBlocks
    /\ Bit(c.direct) \in BBits(img)
    /\ \A i \in Inodes : i # c.f => Direct(img)[i] # c.direct

\* What callback c knows at its point.
Knows(img, c) ==
    /\ c.at \in PointsOf(c.op)
    /\ c.at = "mark" =>
          /\ c.buf.bits = BBits(img)
          /\ c.direct \in DataBlocks /\ Bit(c.direct) \notin BBits(img)
    /\ c.at = "zero" => Owns(img, c) /\ Direct(img)[c.f] # c.direct
    /\ c.op = "write" /\ c.at \in {"data", "store", "table", "record"} => Owns(img, c)
    /\ c.op = "write" /\ c.at \in {"table", "record"} => img[c.direct] = Bytes(c.f)
    /\ c.op = "read" /\ c.at # "inode" =>
          c.direct \in DataBlocks /\ c.direct = Direct(img)[c.f]
    /\ c.at \in {"look", "unmark"} =>
          c.direct \in DataBlocks /\ c.direct = Direct(img)[c.f]
    /\ c.at = "unmark" => c.buf.bits = BBits(img)
    /\ c.at = "record" => c.buf.kind = "table" /\ c.buf.direct = img[TableOf(c.f)].direct
    /\ c.at = "iwrite" => c.buf.bits = IBits(img)

\* The bit of file i is clear while its pointer is still on the image.
Unmarked(c, i) ==
    c # Idle /\ c.op \in {"truncate", "unlink"} /\ c.at \in {"table", "record"} /\ c.f = i

MarkedInv(img, c) ==
    \A i \in Inodes : Direct(img)[i] \in DataBlocks =>
        Bit(Direct(img)[i]) \in BBits(img) \/ Unmarked(c, i)

ApartInv(img) ==
    \A i, j \in Inodes :
        Direct(img)[i] \in DataBlocks /\ Direct(img)[i] = Direct(img)[j] => i = j

NamesInv(img, mk, st, c) ==
    /\ Root \in IBits(img)
    /\ mk \subseteq Files /\ mk \subseteq IBits(img)
    /\ st \subseteq mk
    /\ c # Idle /\ c.op # "create" => c.f \in mk
    /\ c # Idle /\ c.op = "create" /\ c.at # "number" => c.f \in Files \ IBits(img)
    /\ c # Idle /\ c.op \notin {"create", "read"} => c.f \notin st

StoredInv(img, st) ==
    \A f \in st : /\ Direct(img)[f] \in DataBlocks
                  /\ Bit(Direct(img)[f]) \in BBits(img)
                  /\ img[Direct(img)[f]] = Bytes(f)

CallInv(img, c) == c # Idle => c \in Call /\ Knows(img, c)

Safe(img, mk, st, c) ==
    /\ ImageType(img)
    /\ CallInv(img, c)
    /\ MarkedInv(img, c)
    /\ ApartInv(img)
    /\ NamesInv(img, mk, st, c)
    /\ StoredInv(img, st)

\* The offset is where the transfer that comes next needs it.
Positioned(p, c) ==
    /\ p \in InodeBitmap .. LastBlock + 1
    /\ c # Idle /\ c.sought => p = Target(c)

WorkerInv ==
    /\ call \in [Workers -> Call \cup {Idle}]
    /\ \A t \in Workers : Safe(image, made, stored, call[t]) /\ Positioned(pos, call[t])
-----------------------------------------------------------------------------
(* Blocks, bits and points *)

USE DEF Root, NoBlock, NotAFile, InodeBitmap, BlockBitmap

\* Dividing by the number of inodes in a block.
LEMMA Division ==
    ASSUME NEW K \in Nat \ {0}, NEW i \in Nat
    PROVE  /\ i \div K \in Nat /\ i % K \in 0 .. K - 1
           /\ \A T \in Nat : i < T * K => i \div K < T
<1>1. i \div K \in Nat
  OBVIOUS
<1>2. i % K \in 0 .. K - 1
  OBVIOUS
<1>3. ASSUME NEW T \in Nat, i < T * K PROVE i \div K < T
  BY <1>3
<1> QED BY <1>1, <1>2, <1>3

LEMMA SameQuotient ==
    ASSUME NEW K \in Nat \ {0}, NEW i \in Nat, NEW j \in Nat,
           i \div K = j \div K, i % K = j % K
    PROVE  i = j
  OBVIOUS

\* Every inode has a place in the table, and no two the same.
LEMMA TablePlaces ==
    /\ \A i \in Inodes : TableOf(i) \in TableArea /\ Slot(i) \in Slots
    /\ \A i, j \in Inodes : TableOf(i) = TableOf(j) /\ Slot(i) = Slot(j) => i = j
<1>1. InodesPerBlock \in Nat \ {0} /\ TableBlocks \in Nat
  BY SizeAssumption
<1>2. \A i \in Inodes : i \in Nat /\ i < TableBlocks * InodesPerBlock
  BY <1>1 DEF Inodes, MaxInodes
<1>3. \A i \in Inodes : i \div InodesPerBlock \in Nat
  BY <1>1, <1>2, Division
<1>4. ASSUME NEW i \in Inodes PROVE TableOf(i) \in TableArea /\ Slot(i) \in Slots
  <2>1. i % InodesPerBlock \in 0 .. InodesPerBlock - 1
    BY <1>1, <1>2, Division
  <2>2. i \div InodesPerBlock < TableBlocks
    BY <1>1, <1>2, Division
  <2> QED BY <1>1, <1>3, <2>1, <2>2 DEF TableOf, Slot, Slots, TableArea, DataStart, TableStart
<1>5. ASSUME NEW i \in Inodes, NEW j \in Inodes, TableOf(i) = TableOf(j), Slot(i) = Slot(j)
      PROVE  i = j
  <2>1. i \div InodesPerBlock = j \div InodesPerBlock
    BY <1>3, <1>5 DEF TableOf, TableStart
  <2> QED BY <1>1, <1>2, <1>5, <2>1, SameQuotient DEF Slot
<1> QED BY <1>4, <1>5

LEMMA InodeFacts == Root \in Inodes /\ Inodes \subseteq Nat /\ 0 \in Slots
  BY SizeAssumption DEF Inodes, MaxInodes, Slots

\* The metadata blocks are different blocks and no data block, and a data block
\* has its own bit.
LEMMA BlockFacts ==
    /\ {InodeBitmap, BlockBitmap} \cup TableArea \cup DataBlocks = Blocks
    /\ {InodeBitmap, BlockBitmap} \cap TableArea = {}
    /\ InodeBitmap # BlockBitmap
    /\ ({InodeBitmap, BlockBitmap} \cup TableArea) \cap DataBlocks = {}
    /\ NoBlock \notin DataBlocks /\ NotAFile \notin DataBlocks
    /\ DataStart \in DataBlocks
    /\ DataBits \subseteq Nat
    /\ \A b \in DataBlocks : Bit(b) \in DataBits
    /\ \A b, d \in DataBlocks : Bit(b) = Bit(d) => b = d
    /\ \A n \in DataBits : DataStart + n \in DataBlocks /\ Bit(DataStart + n) = n
  BY SizeAssumption DEF TableArea, DataBlocks, Blocks, DataStart, TableStart, Bit, DataBits

LEMMA DirectType ==
    ASSUME NEW img, ImageType(img)
    PROVE  /\ Direct(img) \in [Inodes -> Pointers]
           /\ \A i \in Inodes : /\ img[TableOf(i)].direct \in [Slots -> Pointers]
                                /\ img[TableOf(i)] = Inos(img[TableOf(i)].direct)
                                /\ img[TableOf(i)].direct[Slot(i)] = Direct(img)[i]
<1>1. \A b \in TableArea : img[b].direct \in [Slots -> Pointers] /\ img[b] = Inos(img[b].direct)
  BY BlockFacts DEF ImageType, Bufs, Inos
<1> QED BY <1>1, TablePlaces DEF Direct

LEMMA BitmapReads ==
    ASSUME NEW img, ImageType(img)
    PROVE  /\ AsBits(img[InodeBitmap]) = {IBits(img)}
           /\ AsBits(img[BlockBitmap]) = {BBits(img)}
  BY DEF ImageType, AsBits, IBits, BBits, Zeros

LEMMA BitsType ==
    ASSUME NEW img, ImageType(img)
    PROVE  Bits(IBits(img)) \in Bufs /\ Bits(BBits(img)) \in Bufs
<1>1. IBits(img) \subseteq Inodes /\ BBits(img) \subseteq DataBits
  BY DEF ImageType
<1>2. IBits(img) \subseteq Nat /\ BBits(img) \subseteq Nat
  BY <1>1, BlockFacts, InodeFacts
<1> QED BY <1>2 DEF Bits, Bufs

LEMMA TableReads ==
    ASSUME NEW img, ImageType(img), NEW i \in Inodes
    PROVE  AsTable(img[TableOf(i)]) = {img[TableOf(i)].direct}
  BY TablePlaces DEF ImageType, AsTable, Zeros

LEMMA IdleFacts == Idle \notin Call /\ Idle.op = "none" /\ \A c \in Call : c.op # "none"
  BY DEF Idle, Call

-----------------------------------------------------------------------------
(* A read takes the block for what it is. *)

LEMMA SeekSafe ==
    ASSUME NEW img, NEW mk, NEW st, NEW c \in Call, Safe(img, mk, st, c), NEW v \in BOOLEAN
    PROVE  Safe(img, mk, st, [c EXCEPT !.sought = v])
<1> DEFINE d == [c EXCEPT !.sought = v]
<1>1. /\ d \in Call /\ d # Idle /\ c # Idle
      /\ d.op = c.op /\ d.f = c.f /\ d.at = c.at /\ d.buf = c.buf /\ d.direct = c.direct
  BY IdleFacts DEF Call
<1>2. CallInv(img, d)
  BY <1>1 DEF Safe, CallInv, Knows, Owns
<1>3. MarkedInv(img, d)
  BY <1>1 DEF Safe, MarkedInv, Unmarked
<1>4. NamesInv(img, mk, st, d)
  BY <1>1 DEF Safe, NamesInv
<1> QED BY <1>2, <1>3, <1>4 DEF Safe

LEMMA IdleSafe ==
    ASSUME NEW img, NEW mk, NEW st, NEW c \in Call, Safe(img, mk, st, c),
           ~ (c.op \in {"truncate", "unlink"} /\ c.at \in {"table", "record"})
    PROVE  Safe(img, mk, st, Idle)
  BY IdleFacts DEF Safe, CallInv, MarkedInv, Unmarked, NamesInv

\* The callback goes on to another point with what it has read.
LEMMA MoveSafe ==
    ASSUME NEW img, NEW mk, NEW st, NEW c \in Call, Safe(img, mk, st, c),
           NEW d \in Call, d.op = c.op, Knows(img, d),
           Unmarked(c, c.f) => Unmarked(d, c.f),
           \/ d.f = c.f /\ (c.at = "number" => d.at = "number")
           \/ c.op = "create" /\ d.f \in Files \ IBits(img)
    PROVE  Safe(img, mk, st, d)
<1>1. c # Idle /\ d # Idle
  BY IdleFacts
<1>2. CallInv(img, d)
  BY DEF CallInv
<1>3. MarkedInv(img, d)
  BY <1>1 DEF Safe, MarkedInv, Unmarked
<1>4. NamesInv(img, mk, st, d)
  BY <1>1 DEF Safe, NamesInv
<1> QED BY <1>2, <1>3, <1>4 DEF Safe

LEMMA AfterReadSafe ==
    ASSUME NEW img, NEW mk, NEW st, NEW c \in Call, Safe(img, mk, st, c), Reading(c),
           NEW d \in AfterRead(c, img[Target(c)])
    PROVE  d \in Call \cup {Idle} /\ Safe(img, mk, st, d)
<1>1. ImageType(img) /\ Knows(img, c) /\ c # Idle
  BY IdleFacts DEF Safe, CallInv
<1>2. CASE c.at = "number"
  <2>1. d \in AfterNumber(c, IBits(img)) /\ c.op = "create"
    BY <1>1, <1>2, BitmapReads DEF AfterRead, Target, Knows, PointsOf, Call
  <2>2. CASE d = Idle
    BY <1>2, <2>2, IdleSafe
  <2>3. CASE d # Idle
    <3>1. PICK i \in Inodes \ IBits(img) : d = [c EXCEPT !.at = "table", !.f = i]
      BY <2>1, <2>3 DEF AfterNumber, FirstFit
    <3>2. d \in Call /\ d.op = "create" /\ d.at = "table" /\ d.f \in Files \ IBits(img)
      BY <1>1, <2>1, <3>1 DEF Call, Points, Safe, NamesInv, Files
    <3>3. Knows(img, d)
      BY <3>2 DEF Knows, PointsOf
    <3> QED BY <1>2, <2>1, <3>2, <3>3, MoveSafe DEF Unmarked
  <2> QED BY <2>2, <2>3
<1>3. CASE c.at = "inode"
  <2> DEFINE q == Direct(img)[c.f]
  <2> DEFINE e == img[TableOf(c.f)].direct
  <2>1. /\ d \in AfterInode(c, e) /\ e[Slot(c.f)] = q /\ q \in Pointers
        /\ c.op \in {"read", "write", "truncate", "unlink"}
    <3>1. c.f \in Inodes /\ c.op \in {"read", "write", "truncate", "unlink"}
      BY <1>1, <1>3 DEF Knows, PointsOf, Call
    <3>2. Target(c) = TableOf(c.f) /\ AsTable(img[Target(c)]) = {e}
      BY <1>1, <1>3, <3>1, TableReads DEF Target
    <3>3. d \in AfterInode(c, e)
      BY <1>3, <3>2 DEF AfterRead
    <3> QED BY <1>1, <3>1, <3>3, DirectType
  <2> HIDE DEF e
  <2>2. CASE d = Idle
    BY <1>3, <2>2, IdleSafe
  <2>3. CASE d # Idle
    <3>1. PICK point \in {"look", "data", "find", "table"} :
            /\ d = [c EXCEPT !.at = point, !.direct = q]
            /\ \/ point = "look" /\ q \in DataBlocks /\ c.op \in {"truncate", "unlink"}
               \/ point = "data" /\ q \in DataBlocks /\ c.op \in {"read", "write"}
               \/ point = "find" /\ q = NoBlock /\ c.op = "write"
               \/ point = "table" /\ q = NoBlock /\ c.op \in {"truncate", "unlink"}
      <4>1. q \in DataBlocks \/ q = NoBlock \/ q = NotAFile
        BY <2>1 DEF Pointers
      <4>2. CASE q \in DataBlocks
        <5>1. CASE c.op \in {"truncate", "unlink"}
          <6>1. d = [c EXCEPT !.at = "look", !.direct = q]
            BY <2>1, <2>3, <4>2, <5>1, BlockFacts DEF AfterInode
          <6> QED BY <4>2, <5>1, <6>1
        <5>2. CASE c.op \in {"read", "write"}
          <6>1. d = [c EXCEPT !.at = "data", !.direct = q]
            BY <2>1, <2>3, <4>2, <5>2, BlockFacts DEF AfterInode
          <6> QED BY <4>2, <5>2, <6>1
        <5> QED BY <2>1, <5>1, <5>2
      <4>3. CASE q = NoBlock
        BY <2>1, <2>3, <4>3, BlockFacts DEF AfterInode
      <4>4. CASE q = NotAFile
        BY <2>1, <2>3, <4>4, BlockFacts DEF AfterInode
      <4> QED BY <4>1, <4>2, <4>3, <4>4
    <3>3. d \in Call /\ d.op = c.op /\ d.at = point /\ d.f = c.f /\ d.direct = q
      BY <2>1, <3>1, BlockFacts DEF Call, Points
    <3>4. CASE point = "data" /\ c.op = "write"
      <4>1. Owns(img, d)
        BY <1>3, <3>1, <3>3, <3>4, BlockFacts
           DEF Safe, MarkedInv, ApartInv, Owns, Unmarked, Call
      <4>2. Knows(img, d)
        BY <3>3, <3>4, <4>1 DEF Knows, PointsOf
      <4> QED BY <1>3, <3>3, <4>2, MoveSafe DEF Unmarked
    <3>5. CASE ~(point = "data" /\ c.op = "write")
      <4>1. Knows(img, d)
        BY <3>1, <3>3, <3>5 DEF Knows, PointsOf
      <4> QED BY <1>3, <3>3, <4>1, MoveSafe DEF Unmarked
    <3> QED BY <3>4, <3>5
  <2> QED BY <2>2, <2>3
<1>4. CASE c.at = "find"
  <2>1. d \in AfterFind(c, BBits(img)) /\ c.op = "write"
    BY <1>1, <1>4, BitmapReads DEF AfterRead, Target, Knows, PointsOf, Call
  <2>2. CASE d = Idle
    BY <1>4, <2>2, IdleSafe
  <2>3. CASE d # Idle
    <3>1. PICK n \in DataBits \ BBits(img) :
              d = [c EXCEPT !.at = "mark", !.buf = Bits(BBits(img)), !.direct = DataStart + n]
      BY <2>1, <2>3 DEF AfterFind, FirstFit
    <3>2. Bits(BBits(img)) \in Bufs
      BY <1>1, BitsType
    <3>3. d \in Call /\ d.op = c.op /\ d.at = "mark" /\ d.f = c.f /\ d.buf = Bits(BBits(img))
          /\ d.direct = DataStart + n
      BY <3>1, <3>2, BlockFacts DEF Call, Points, Pointers
    <3>4. Knows(img, d)
      BY <2>1, <3>3, BlockFacts DEF Knows, PointsOf, Bits
    <3> QED BY <1>4, <3>3, <3>4, MoveSafe DEF Unmarked
  <2> QED BY <2>2, <2>3
<1>5. CASE c.at = "look"
  <2>1. d = [c EXCEPT !.at = "unmark", !.buf = Bits(BBits(img))]
    BY <1>1, <1>5, BitmapReads DEF AfterRead, Target
  <2>2. Bits(BBits(img)) \in Bufs
    BY <1>1, BitsType
  <2>3. d \in Call /\ d.op = c.op /\ d.at = "unmark" /\ d.f = c.f /\ d.buf = Bits(BBits(img))
        /\ d.direct = c.direct
    BY <2>1, <2>2 DEF Call, Points
  <2>4. c.op \in {"truncate", "unlink"}
    BY <1>1, <1>5 DEF Knows, PointsOf, Call
  <2>5. Knows(img, d)
    BY <1>1, <1>5, <2>3, <2>4 DEF Knows, PointsOf, Bits
  <2> QED BY <1>5, <2>3, <2>5, MoveSafe DEF Unmarked
<1>6. CASE c.at = "ibits"
  <2>1. d = [c EXCEPT !.at = "iwrite", !.buf = Bits(IBits(img))]
    BY <1>1, <1>6, BitmapReads DEF AfterRead, Target
  <2>2. Bits(IBits(img)) \in Bufs
    BY <1>1, BitsType
  <2>3. d \in Call /\ d.op = c.op /\ d.at = "iwrite" /\ d.f = c.f /\ d.buf = Bits(IBits(img))
    BY <2>1, <2>2 DEF Call, Points
  <2>4. c.op \in {"create", "unlink"}
    BY <1>1, <1>6 DEF Knows, PointsOf, Call
  <2>5. Knows(img, d)
    BY <2>3, <2>4 DEF Knows, PointsOf, Bits
  <2> QED BY <1>6, <2>3, <2>5, MoveSafe DEF Unmarked
<1>7. CASE c.at = "table"
  <2> DEFINE e == img[TableOf(c.f)].direct
  <2>1. c.f \in Inodes /\ d = [c EXCEPT !.at = "record", !.buf = Inos(e)]
    <3>1. c.f \in Inodes
      BY DEF Call
    <3>2. Target(c) = TableOf(c.f) /\ AsTable(img[Target(c)]) = {e}
      BY <1>1, <1>7, <3>1, TableReads DEF Target
    <3> QED BY <1>7, <3>1, <3>2 DEF AfterRead
  <2>2. Inos(e) \in Bufs
    BY <1>1, <2>1, DirectType DEF Inos, Bufs
  <2>3. d \in Call /\ d.op = c.op /\ d.at = "record" /\ d.f = c.f /\ d.buf = Inos(e)
        /\ d.direct = c.direct
    BY <2>1, <2>2 DEF Call, Points
  <2>4. Owns(img, c) => Owns(img, d)
    BY <2>3 DEF Owns
  <2>5. Knows(img, d)
    BY <1>1, <1>7, <2>3, <2>4 DEF Knows, PointsOf, Inos, Call
  <2> QED BY <1>7, <2>3, <2>5, MoveSafe, IdleFacts DEF Unmarked
<1>8. CASE c.at = "data"
  <2>1. d = [c EXCEPT !.at = IF c.op = "read" THEN "table" ELSE "store"]
    BY <1>1, <1>8 DEF AfterRead
  <2>2. c.op \in {"read", "write"}
    BY <1>1, <1>8 DEF Knows, PointsOf, Call
  <2>3. d \in Call /\ d.op = c.op /\ d.at = (IF c.op = "read" THEN "table" ELSE "store")
        /\ d.f = c.f /\ d.direct = c.direct
    BY <2>1 DEF Call, Points
  <2>4. Owns(img, c) => Owns(img, d)
    BY <2>3 DEF Owns
  <2>5. Knows(img, d)
    BY <1>1, <1>8, <2>2, <2>3, <2>4 DEF Knows, PointsOf
  <2> QED BY <1>8, <2>3, <2>5, MoveSafe DEF Unmarked
<1> QED BY <1>2, <1>3, <1>4, <1>5, <1>6, <1>7, <1>8 DEF Reading

-----------------------------------------------------------------------------
(* A write changes what its block is for, and the callback knows that the  *)
(* new content is right.                                                   *)

Put(img, b, x) == [a \in Blocks |-> IF a = b THEN x ELSE img[a]]

\* What the write of c makes of the names and of the history.
MadeAfter(c, mk) ==
    CASE AfterWrite(c) = Idle /\ c.op = "create" -> mk \cup {c.f}
      [] AfterWrite(c) = Idle /\ c.op = "unlink" -> mk \ {c.f}
      [] OTHER -> mk
StoredAfter(c, st) == IF c.at = "record" /\ c.op = "write" THEN st \cup {c.f} ELSE st

\* A data block gets a file's bytes or zeroes.
LEMMA PutData ==
    ASSUME NEW img, ImageType(img), NEW b \in DataBlocks,
           NEW F \in SUBSET Inodes
    PROVE  LET im == Put(img, b, [kind |-> "data", of |-> F])
           IN  /\ ImageType(im)
               /\ IBits(im) = IBits(img) /\ BBits(im) = BBits(img) /\ Direct(im) = Direct(img)
               /\ im[b] = [kind |-> "data", of |-> F]
               /\ \A a \in DataBlocks : a # b => im[a] = img[a]
<1> DEFINE x == [kind |-> "data", of |-> F]
           im == Put(img, b, x)
<1>1. x \in Bufs /\ b \in Blocks
  BY BlockFacts DEF Bufs
<1>2. im \in [Blocks -> Bufs]
  BY <1>1 DEF ImageType, Put
<1>3. /\ im[InodeBitmap] = img[InodeBitmap] /\ im[BlockBitmap] = img[BlockBitmap]
      /\ \A a \in TableArea : im[a] = img[a]
  BY BlockFacts DEF Put
<1>4. im[b] = x /\ \A a \in DataBlocks : a # b => im[a] = img[a]
  BY <1>1, BlockFacts DEF Put
<1>5. \A a \in DataBlocks : im[a].kind = "data"
  BY <1>4 DEF ImageType
<1>6. Direct(im) = Direct(img)
  BY <1>3, TablePlaces DEF Direct
<1> QED BY <1>2, <1>3, <1>4, <1>5, <1>6 DEF ImageType, IBits, BBits

LEMMA PutBlockBits ==
    ASSUME NEW img, ImageType(img), NEW B \in SUBSET DataBits
    PROVE  LET im == Put(img, BlockBitmap, Bits(B))
           IN  /\ ImageType(im)
               /\ IBits(im) = IBits(img) /\ BBits(im) = B /\ Direct(im) = Direct(img)
               /\ \A a \in DataBlocks : im[a] = img[a]
<1> DEFINE im == Put(img, BlockBitmap, Bits(B))
<1>1. Bits(B) \in Bufs
  BY BlockFacts DEF Bufs, Bits
<1>2. im \in [Blocks -> Bufs]
  BY <1>1 DEF ImageType, Put
<1>3. /\ im[InodeBitmap] = img[InodeBitmap] /\ im[BlockBitmap] = Bits(B)
      /\ \A b \in TableArea : im[b] = img[b]
      /\ \A a \in DataBlocks : im[a] = img[a]
  BY BlockFacts DEF Put
<1>4. Direct(im) = Direct(img)
  BY <1>3, TablePlaces DEF Direct
<1> QED BY <1>2, <1>3, <1>4 DEF ImageType, IBits, BBits, Bits

LEMMA PutInodeBits ==
    ASSUME NEW img, ImageType(img), NEW B \in SUBSET Inodes
    PROVE  LET im == Put(img, InodeBitmap, Bits(B))
           IN  /\ ImageType(im)
               /\ IBits(im) = B /\ BBits(im) = BBits(img) /\ Direct(im) = Direct(img)
               /\ \A a \in DataBlocks : im[a] = img[a]
<1> DEFINE im == Put(img, InodeBitmap, Bits(B))
<1>1. Bits(B) \in Bufs
  BY InodeFacts DEF Bufs, Bits
<1>2. im \in [Blocks -> Bufs]
  BY <1>1 DEF ImageType, Put
<1>3. /\ im[InodeBitmap] = Bits(B) /\ im[BlockBitmap] = img[BlockBitmap]
      /\ \A b \in TableArea : im[b] = img[b]
      /\ \A a \in DataBlocks : im[a] = img[a]
  BY BlockFacts DEF Put
<1>4. Direct(im) = Direct(img)
  BY <1>3, TablePlaces DEF Direct
<1> QED BY <1>2, <1>3, <1>4 DEF ImageType, IBits, BBits, Bits

LEMMA PutTable ==
    ASSUME NEW img, ImageType(img), NEW f \in Inodes, NEW p \in Pointers
    PROVE  LET x  == Inos([img[TableOf(f)].direct EXCEPT ![Slot(f)] = p])
               im == Put(img, TableOf(f), x)
           IN  /\ ImageType(im)
               /\ IBits(im) = IBits(img) /\ BBits(im) = BBits(img)
               /\ Direct(im) = [Direct(img) EXCEPT ![f] = p]
               /\ \A a \in DataBlocks : im[a] = img[a]
<1> DEFINE e == [img[TableOf(f)].direct EXCEPT ![Slot(f)] = p]
           im == Put(img, TableOf(f), Inos(e))
<1>1. e \in [Slots -> Pointers] /\ e[Slot(f)] = p
      /\ \A s \in Slots : s # Slot(f) => e[s] = img[TableOf(f)].direct[s]
  BY DirectType, TablePlaces
<1> HIDE DEF e
<1>2. Inos(e) \in Bufs /\ Inos(e).kind = "table" /\ Inos(e).direct = e
  BY <1>1 DEF Bufs, Inos
<1>3. im \in [Blocks -> Bufs]
  BY <1>2 DEF ImageType, Put
<1>4. /\ im[InodeBitmap] = img[InodeBitmap] /\ im[BlockBitmap] = img[BlockBitmap]
      /\ im[TableOf(f)] = Inos(e)
      /\ \A a \in TableArea : a # TableOf(f) => im[a] = img[a]
      /\ \A a \in DataBlocks : im[a] = img[a]
  BY TablePlaces, BlockFacts DEF Put
<1> HIDE DEF im
<1>5. ImageType(im)
  BY <1>2, <1>3, <1>4 DEF ImageType, IBits, BBits
<1>6. ASSUME NEW i \in Inodes
      PROVE  Direct(im)[i] = IF i = f THEN p ELSE Direct(img)[i]
  <2>1. Direct(im)[i] = im[TableOf(i)].direct[Slot(i)]
    BY DEF Direct
  <2>2. Direct(img)[i] = img[TableOf(i)].direct[Slot(i)]
    BY DEF Direct
  <2>3. CASE i = f
    BY <1>1, <1>2, <1>4, <2>1, <2>3
  <2>4. CASE i # f /\ TableOf(i) = TableOf(f)
    BY <1>1, <1>2, <1>4, <2>1, <2>2, <2>4, TablePlaces
  <2>5. CASE i # f /\ TableOf(i) # TableOf(f)
    BY <1>4, <2>1, <2>2, <2>5, TablePlaces
  <2> QED BY <2>3, <2>4, <2>5
<1>7. Direct(im) = [Direct(img) EXCEPT ![f] = p]
  BY <1>6 DEF Direct
<1> QED BY <1>4, <1>5, <1>7 DEF IBits, BBits, im, e

\* minifs_block_alloc sets the bit of a block that no file points to.
LEMMA MarkSafe ==
    ASSUME NEW img, NEW mk, NEW st, NEW c \in Call, Safe(img, mk, st, c), c.at = "mark"
    PROVE  LET d == AfterWrite(c)
           IN  d \in Call /\ Safe(Put(img, Target(c), Payload(c)), mk, st, d)
<1> DEFINE d == AfterWrite(c)
           B == BBits(img) \cup {Bit(c.direct)}
           im == Put(img, BlockBitmap, Bits(B))
<1>1. ImageType(img) /\ Knows(img, c) /\ c # Idle
  BY IdleFacts DEF Safe, CallInv
<1>2. Put(img, Target(c), Payload(c)) = im
  BY <1>1 DEF Target, Payload, Knows
<1>3. d = [c EXCEPT !.at = "zero"]
  BY DEF AfterWrite
<1>4. c.op = "write" /\ c.direct \in DataBlocks /\ Bit(c.direct) \notin BBits(img)
  BY <1>1 DEF Knows, PointsOf, Call
<1>5. d \in Call /\ d # Idle /\ d.at = "zero" /\ d.op = "write" /\ d.f = c.f /\ d.direct = c.direct
  BY <1>3, <1>4, IdleFacts DEF Call, Points
<1>6. ImageType(im) /\ IBits(im) = IBits(img) /\ BBits(im) = B /\ Direct(im) = Direct(img)
      /\ \A a \in DataBlocks : im[a] = img[a]
  <2>1. B \in SUBSET DataBits
    BY <1>1, <1>4, BlockFacts DEF ImageType
  <2> QED BY <1>1, <2>1, PutBlockBits
<1>7. \A i \in Inodes : Direct(img)[i] # c.direct
  BY <1>1, <1>4 DEF Safe, MarkedInv, Unmarked
<1> HIDE DEF im
<1>8. CallInv(im, d)
  BY <1>4, <1>5, <1>6, <1>7 DEF CallInv, Knows, Owns, PointsOf, Call
<1>9. MarkedInv(im, d)
  BY <1>4, <1>5, <1>6 DEF Safe, MarkedInv, Unmarked
<1>10. ApartInv(im) /\ NamesInv(im, mk, st, d)
  BY <1>1, <1>4, <1>5, <1>6 DEF Safe, ApartInv, NamesInv
<1>11. StoredInv(im, st)
  BY <1>6 DEF Safe, StoredInv
<1> QED BY <1>2, <1>5, <1>6, <1>8, <1>9, <1>10, <1>11 DEF Safe

\* The new block is zeroed, then filled, before any pointer leads to it; a
\* block rewritten in place is the file's own.
LEMMA FillSafe ==
    ASSUME NEW img, NEW mk, NEW st, NEW c \in Call, Safe(img, mk, st, c), c.at \in {"zero", "store"}
    PROVE  LET d == AfterWrite(c)
           IN  d \in Call /\ Safe(Put(img, Target(c), Payload(c)), mk, st, d)
<1> DEFINE d == AfterWrite(c)
           F == IF c.at = "zero" THEN {} ELSE {c.f}
           im == Put(img, c.direct, [kind |-> "data", of |-> F])
<1>1. ImageType(img) /\ Knows(img, c) /\ c # Idle
  BY IdleFacts DEF Safe, CallInv
<1>2. Put(img, Target(c), Payload(c)) = im
  BY DEF Target, Payload, Zeros, Bytes
<1>3. d = [c EXCEPT !.at = IF c.at = "zero" THEN "data" ELSE "table"]
  BY DEF AfterWrite
<1>4. c.op = "write" /\ Owns(img, c) /\ c.direct \in DataBlocks
  BY <1>1 DEF Knows, PointsOf, Call, Owns
<1>5. d \in Call /\ d # Idle /\ d.at = (IF c.at = "zero" THEN "data" ELSE "table")
      /\ d.op = "write" /\ d.f = c.f /\ d.direct = c.direct
  BY <1>3, <1>4, IdleFacts DEF Call, Points
<1>6. ImageType(im) /\ IBits(im) = IBits(img) /\ BBits(im) = BBits(img) /\ Direct(im) = Direct(img)
      /\ im[c.direct] = [kind |-> "data", of |-> F]
      /\ \A a \in DataBlocks : a # c.direct => im[a] = img[a]
  <2>1. F \in SUBSET Inodes
    BY DEF Call
  <2> QED BY <1>1, <1>4, <2>1, PutData
<1> HIDE DEF im
<1>7. Owns(im, d)
  BY <1>4, <1>5, <1>6 DEF Owns
<1>8. CallInv(im, d)
  BY <1>4, <1>5, <1>6, <1>7 DEF CallInv, Knows, PointsOf, Call, Bytes
<1>9. MarkedInv(im, d)
  BY <1>4, <1>5, <1>6 DEF Safe, MarkedInv, Unmarked
<1>10. ApartInv(im) /\ NamesInv(im, mk, st, d)
  BY <1>1, <1>4, <1>5, <1>6 DEF Safe, ApartInv, NamesInv
<1>11. StoredInv(im, st)
  <2>1. \A f \in st : f \in Inodes /\ f # c.f
    BY <1>1, <1>4 DEF Safe, NamesInv, Files
  <2> QED BY <1>4, <1>6, <2>1 DEF Safe, StoredInv, Owns
<1> QED BY <1>2, <1>5, <1>6, <1>8, <1>9, <1>10, <1>11 DEF Safe

\* minifs_block_free clears the bit of the file's own block, which no other
\* file points to.
LEMMA UnmarkSafe ==
    ASSUME NEW img, NEW mk, NEW st, NEW c \in Call, Safe(img, mk, st, c), c.at = "unmark"
    PROVE  LET d == AfterWrite(c)
           IN  d \in Call /\ Safe(Put(img, Target(c), Payload(c)), mk, st, d)
<1> DEFINE d == AfterWrite(c)
           B == BBits(img) \ {Bit(c.direct)}
           im == Put(img, BlockBitmap, Bits(B))
<1>1. ImageType(img) /\ Knows(img, c) /\ c # Idle
  BY IdleFacts DEF Safe, CallInv
<1>2. Put(img, Target(c), Payload(c)) = im
  BY <1>1 DEF Target, Payload, Knows
<1>3. d = [c EXCEPT !.at = "table"]
  BY DEF AfterWrite
<1>4. c.op \in {"truncate", "unlink"} /\ c.direct \in DataBlocks /\ c.direct = Direct(img)[c.f]
  BY <1>1 DEF Knows, PointsOf, Call
<1>5. d \in Call /\ d # Idle /\ d.at = "table" /\ d.op = c.op /\ d.f = c.f /\ c.f \in Inodes
  BY <1>3, <1>4, IdleFacts DEF Call, Points
<1>6. ImageType(im) /\ IBits(im) = IBits(img) /\ BBits(im) = B /\ Direct(im) = Direct(img)
      /\ \A a \in DataBlocks : im[a] = img[a]
  <2>1. B \in SUBSET DataBits
    BY <1>1 DEF ImageType
  <2> QED BY <1>1, <2>1, PutBlockBits
<1> HIDE DEF im
<1>7. \A i \in Inodes : Direct(img)[i] \in DataBlocks /\ i # c.f => Bit(Direct(img)[i]) # Bit(c.direct)
  BY <1>4, <1>5, BlockFacts DEF Safe, ApartInv
<1>8. CallInv(im, d)
  BY <1>4, <1>5, <1>6 DEF CallInv, Knows, PointsOf, Call
<1>9. MarkedInv(im, d)
  <2>1. SUFFICES ASSUME NEW i \in Inodes, Direct(img)[i] \in DataBlocks, i # c.f
                 PROVE  Bit(Direct(img)[i]) \in B
    BY <1>4, <1>5, <1>6 DEF MarkedInv, Unmarked
  <2>2. Bit(Direct(img)[i]) \in BBits(img)
    BY <2>1 DEF Safe, MarkedInv, Unmarked
  <2> QED BY <1>7, <2>1, <2>2
<1>10. ApartInv(im) /\ NamesInv(im, mk, st, d)
  BY <1>1, <1>4, <1>5, <1>6 DEF Safe, ApartInv, NamesInv
<1>11. StoredInv(im, st)
  <2>1. \A f \in st : f \in Inodes /\ f # c.f
    BY <1>1, <1>4 DEF Safe, NamesInv, Files
  <2> QED BY <1>6, <1>7, <2>1 DEF Safe, StoredInv
<1> QED BY <1>2, <1>5, <1>6, <1>8, <1>9, <1>10, <1>11 DEF Safe

\* The inode bitmap is written last by create, which gives the file its name,
\* and by unlink.
LEMMA NumberSafe ==
    ASSUME NEW img, NEW mk, NEW st, NEW c \in Call, Safe(img, mk, st, c), c.at = "iwrite"
    PROVE  /\ AfterWrite(c) = Idle
           /\ Safe(Put(img, Target(c), Payload(c)), MadeAfter(c, mk), st, Idle)
<1> DEFINE B == IF c.op = "create" THEN IBits(img) \cup {c.f} ELSE IBits(img) \ {c.f}
           im == Put(img, InodeBitmap, Bits(B))
<1>1. ImageType(img) /\ Knows(img, c) /\ c # Idle
  BY IdleFacts DEF Safe, CallInv
<1>2. Put(img, Target(c), Payload(c)) = im
  BY <1>1 DEF Target, Payload, Knows
<1>3. AfterWrite(c) = Idle
  BY DEF AfterWrite
<1>4. c.op \in {"create", "unlink"} /\ c.f \in Inodes
  BY <1>1 DEF Knows, PointsOf, Call
<1>5. c.op = "create" => c.f \in Files \ IBits(img) /\ MadeAfter(c, mk) = mk \cup {c.f}
  BY <1>1, <1>3 DEF MadeAfter, Safe, NamesInv
<1>6. c.op = "unlink" => c.f \in mk /\ c.f \notin st /\ MadeAfter(c, mk) = mk \ {c.f}
  BY <1>1, <1>3 DEF MadeAfter, Safe, NamesInv
<1>7. ImageType(im) /\ IBits(im) = B /\ BBits(im) = BBits(img) /\ Direct(im) = Direct(img)
      /\ \A a \in DataBlocks : im[a] = img[a]
  <2>1. B \in SUBSET Inodes
    BY <1>1, <1>4 DEF ImageType
  <2> QED BY <1>1, <2>1, PutInodeBits
<1> HIDE DEF im
<1>8. CallInv(im, Idle)
  BY DEF CallInv
<1>9. MarkedInv(im, Idle)
  BY <1>7 DEF Safe, MarkedInv, Unmarked
<1>10. ApartInv(im)
  BY <1>7 DEF Safe, ApartInv
<1>11. NamesInv(im, MadeAfter(c, mk), st, Idle)
  BY <1>4, <1>5, <1>6, <1>7 DEF Safe, NamesInv, Files
<1>12. StoredInv(im, st)
  BY <1>7 DEF Safe, StoredInv
<1> QED BY <1>2, <1>3, <1>7, <1>8, <1>9, <1>10, <1>11, <1>12 DEF Safe

\* The table block is written back with one inode changed.
LEMMA RecordSafe ==
    ASSUME NEW img, NEW mk, NEW st, NEW c \in Call, Safe(img, mk, st, c), c.at = "record"
    PROVE  LET d == AfterWrite(c)
           IN  /\ d \in Call \cup {Idle}
               /\ MadeAfter(c, mk) = mk
               /\ Safe(Put(img, Target(c), Payload(c)), mk, StoredAfter(c, st), d)
<1> DEFINE d == AfterWrite(c)
           p == CASE c.op \in {"truncate", "create"} -> NoBlock
                  [] c.op = "unlink" -> NotAFile
                  [] OTHER -> c.direct
           D == [Direct(img) EXCEPT ![c.f] = p]
           im == Put(img, TableOf(c.f), Inos([img[TableOf(c.f)].direct EXCEPT ![Slot(c.f)] = p]))
<1>1. ImageType(img) /\ Knows(img, c) /\ c # Idle /\ Direct(img) \in [Inodes -> Pointers]
  BY IdleFacts, DirectType DEF Safe, CallInv
<1>2. Put(img, Target(c), Payload(c)) = im
  BY <1>1 DEF Target, Payload, Knows
<1>3. c.f \in Inodes /\ c.op \in {"create", "read", "write", "truncate", "unlink"}
  BY DEF Call
<1>4. \/ c.op \in {"create", "unlink"} /\ d = [c EXCEPT !.at = "ibits"]
      \/ c.op \in {"read", "write", "truncate"} /\ d = Idle
  BY <1>3 DEF AfterWrite
<1>5. \/ /\ c.op \in {"create", "unlink"}
         /\ d \in Call /\ d # Idle /\ d.at = "ibits" /\ d.op = c.op /\ d.f = c.f
      \/ c.op \in {"read", "write", "truncate"} /\ d = Idle
  BY <1>4, IdleFacts DEF Call, Points
<1>6. MadeAfter(c, mk) = mk
  BY <1>3, <1>5 DEF MadeAfter
<1>7. p \in Pointers /\ (p \in DataBlocks => c.op \in {"read", "write"} /\ p = c.direct)
  BY <1>3, BlockFacts DEF Pointers, Call
<1>8. /\ ImageType(im) /\ IBits(im) = IBits(img) /\ BBits(im) = BBits(img) /\ Direct(im) = D
      /\ \A a \in DataBlocks : im[a] = img[a]
  <2>1. c.f \in Inodes /\ p \in Pointers
    BY <1>3, <1>7
  <2> HIDE DEF p
  <2> QED BY <1>1, <2>1, PutTable
<1>9. D[c.f] = p /\ \A i \in Inodes : i # c.f => D[i] = Direct(img)[i]
  BY <1>1, <1>3
<1>10. p \in DataBlocks => /\ Bit(p) \in BBits(img)
                          /\ \A i \in Inodes : i # c.f => Direct(img)[i] # p
  <2>1. CASE c.op = "read"
    <3>1. p \in DataBlocks => c.direct \in DataBlocks /\ c.direct = Direct(img)[c.f] /\ p = c.direct
      BY <1>1, <1>7, <2>1 DEF Knows
    <3> QED BY <1>3, <2>1, <3>1 DEF Safe, MarkedInv, ApartInv, Unmarked
  <2>2. CASE c.op = "write"
    BY <1>1, <1>7, <2>2 DEF Knows, Owns
  <2> QED BY <1>7, <2>1, <2>2
<1> HIDE DEF im, D, p, d
<1>11. CallInv(im, d)
  BY <1>5 DEF CallInv, Knows, PointsOf
<1>12. MarkedInv(im, d)
  <2>1. SUFFICES ASSUME NEW i \in Inodes, D[i] \in DataBlocks
                 PROVE  Bit(D[i]) \in BBits(img)
    BY <1>8 DEF MarkedInv
  <2>2. CASE i = c.f
    BY <1>9, <1>10, <2>1, <2>2
  <2>3. CASE i # c.f
    BY <1>9, <2>1, <2>3 DEF Safe, MarkedInv, Unmarked
  <2> QED BY <2>2, <2>3
<1>13. ApartInv(im)
  <2>1. SUFFICES ASSUME NEW i \in Inodes, NEW j \in Inodes, D[i] \in DataBlocks, D[i] = D[j]
                 PROVE  i = j
    BY <1>8 DEF ApartInv
  <2>2. CASE i = c.f \/ j = c.f
    BY <1>9, <1>10, <2>1, <2>2
  <2>3. CASE i # c.f /\ j # c.f
    BY <1>9, <2>1, <2>3 DEF Safe, ApartInv
  <2> QED BY <2>2, <2>3
<1>14. StoredAfter(c, st) \subseteq mk
       /\ (c.op \notin {"create", "read", "write"} => c.f \notin StoredAfter(c, st))
  BY <1>1, <1>3 DEF Safe, NamesInv, StoredAfter
<1>15. NamesInv(im, mk, StoredAfter(c, st), d)
  BY <1>1, <1>5, <1>8, <1>14 DEF Safe, NamesInv
<1>16. StoredInv(im, StoredAfter(c, st))
  <2>1. SUFFICES ASSUME NEW f \in StoredAfter(c, st)
                 PROVE  D[f] \in DataBlocks /\ Bit(D[f]) \in BBits(img) /\ img[D[f]] = Bytes(f)
    BY <1>8 DEF StoredInv
  <2>2. CASE f \in st /\ f # c.f
    BY <1>9, <1>14, <2>2 DEF Safe, StoredInv, NamesInv, Files
  <2>3. CASE f = c.f /\ c.op = "write"
    <3>1. p = c.direct /\ c.direct \in DataBlocks /\ img[c.direct] = Bytes(c.f)
      BY <1>1, <2>3 DEF Knows, Owns, p
    <3> QED BY <1>9, <1>10, <2>3, <3>1
  <2>4. CASE f = c.f /\ c.op = "read"
    <3>1. f \in st
      BY <2>1, <2>4 DEF StoredAfter
    <3>2. p = c.direct /\ c.direct = Direct(img)[c.f]
      BY <1>1, <2>4 DEF Knows, p
    <3> QED BY <1>9, <2>4, <3>1, <3>2 DEF Safe, StoredInv
  <2>5. CASE f = c.f /\ c.op \notin {"read", "write"}
    <3>1. c.op = "create" /\ f \in st
      BY <1>14, <2>1, <2>5 DEF StoredAfter
    <3> QED BY <1>1, <2>5, <3>1 DEF Safe, NamesInv
  <2> QED BY <2>1, <2>2, <2>3, <2>4, <2>5 DEF StoredAfter
<1> QED BY <1>2, <1>5, <1>6, <1>8, <1>11, <1>12, <1>13, <1>15, <1>16 DEF Safe, d

LEMMA AfterWriteSafe ==
    ASSUME NEW img, NEW mk, NEW st, NEW c \in Call, Safe(img, mk, st, c), ~Reading(c)
    PROVE  /\ AfterWrite(c) \in Call \cup {Idle}
           /\ Safe(Put(img, Target(c), Payload(c)), MadeAfter(c, mk), StoredAfter(c, st),
                   AfterWrite(c))
<1>1. c.at \in {"mark", "zero", "store", "unmark", "iwrite", "record"}
  BY DEF Call, Points, Reading
<1>2. CASE c.at = "record"
  BY <1>2, RecordSafe
<1>3. CASE c.at = "iwrite"
  BY <1>3, NumberSafe DEF StoredAfter
<1>4. CASE c.at \in {"mark", "zero", "store", "unmark"}
  <2>1. AfterWrite(c) \in Call /\ Safe(Put(img, Target(c), Payload(c)), mk, st, AfterWrite(c))
    BY <1>4, MarkSafe, FillSafe, UnmarkSafe
  <2>2. MadeAfter(c, mk) = mk /\ StoredAfter(c, st) = st
    BY <1>4, <2>1, IdleFacts DEF MadeAfter, StoredAfter
  <2> QED BY <2>1, <2>2
<1> QED BY <1>1, <1>2, <1>3, <1>4

-----------------------------------------------------------------------------
(* The invariant of the worker *)

LEMMA InitWorker == ASSUME OneWorker, Init PROVE WorkerInv
<1>1. call \in [Workers -> Call \cup {Idle}] /\ \A t \in Workers : call[t] = Idle
  BY DEF Init
<1>2. Positioned(pos, Idle)
  BY SizeAssumption DEF Init, Positioned
<1>3. \A b \in Blocks : image[b] = CASE b = InodeBitmap -> Bits({Root})
                                     [] b = BlockBitmap -> Bits({Bit(DataStart)})
                                     [] b \in TableArea -> Inos([s \in Slots |-> NotAFile])
                                     [] b = DataStart   -> Bytes(Root)
                                     [] OTHER           -> Zeros
  BY DEF Init
<1>4. DataStart \in DataBlocks /\ Bit(DataStart) \in DataBits /\ Root \in Inodes
  BY BlockFacts, InodeFacts
<1>5. /\ image[InodeBitmap] = Bits({Root})
      /\ image[BlockBitmap] = Bits({Bit(DataStart)})
      /\ \A b \in TableArea : image[b] = Inos([s \in Slots |-> NotAFile])
      /\ image[DataStart] = Bytes(Root)
      /\ \A b \in DataBlocks : b # DataStart => image[b] = Zeros
  BY <1>3, <1>4, BlockFacts
<1>6. ImageType(image) /\ IBits(image) = {Root} /\ BBits(image) = {Bit(DataStart)}
      /\ Direct(image) = [i \in Inodes |-> NotAFile]
  <2>1. Bits({Root}) \in Bufs /\ Bits({Bit(DataStart)}) \in Bufs
    <3>1. Bit(DataStart) \in Nat
      BY <1>4, BlockFacts
    <3> QED BY <3>1 DEF Bits, Bufs
  <2>2. Inos([s \in Slots |-> NotAFile]) \in Bufs
    BY DEF Inos, Bufs, Pointers
  <2>3. Bytes(Root) \in Bufs /\ Zeros \in Bufs
    BY <1>4 DEF Bytes, Zeros, Bufs
  <2>4. \A b \in Blocks : image[b] \in Bufs
    BY <1>5, <2>1, <2>2, <2>3, BlockFacts
  <2>5. image \in [Blocks -> Bufs]
    <3>1. image = [b \in Blocks |-> image[b]]
      BY DEF Init
    <3> QED BY <2>4, <3>1
  <2>6. \A b \in TableArea : image[b].kind = "table" /\ image[b].direct = [s \in Slots |-> NotAFile]
    BY <1>5 DEF Inos
  <2>7. Direct(image) = [i \in Inodes |-> NotAFile]
    BY <2>6, TablePlaces DEF Direct
  <2> QED BY <1>4, <1>5, <2>5, <2>6, <2>7 DEF ImageType, IBits, BBits, Bits, Bytes, Zeros
<1>7. Safe(image, made, stored, Idle)
  BY <1>4, <1>6, BlockFacts
     DEF Safe, CallInv, MarkedInv, ApartInv, NamesInv, StoredInv, Init
<1> QED BY <1>1, <1>2, <1>7 DEF WorkerInv

LEMMA NextWorker == ASSUME OneWorker, WorkerInv, [Next]_vars PROVE WorkerInv'
<1> USE DEF Busy
<1>1. PICK w : Workers = {w}
  BY DEF OneWorker
<1> DEFINE c == call[w]
<1>2. /\ call \in [Workers -> Call \cup {Idle}]
      /\ c \in Call \cup {Idle}
      /\ Safe(image, made, stored, c) /\ Positioned(pos, c)
  BY <1>1 DEF WorkerInv
<1>3. SUFFICES /\ call' \in [Workers -> Call \cup {Idle}]
               /\ Safe(image', made', stored', call'[w])
               /\ Positioned(pos', call'[w])
  BY <1>1 DEF WorkerInv
<1>4. ASSUME NEW x \in Call \cup {Idle}, call' = [call EXCEPT ![w] = x]
      PROVE  call' \in [Workers -> Call \cup {Idle}] /\ call'[w] = x
  BY <1>1, <1>2, <1>4
<1>5. CASE StartCreate(w)
  <2> DEFINE x == [Started("create", Root) EXCEPT !.at = "number"]
  <2>1. c = Idle /\ call' = [call EXCEPT ![w] = x]
    BY <1>2, <1>5, IdleFacts DEF StartCreate
  <2>2. x \in Call /\ x # Idle /\ x.op = "create" /\ x.at = "number" /\ x.sought = FALSE
    <3> DEFINE y == Started("create", Root)
    <3>1. Zeros \in Bufs /\ Root \in Inodes
      BY InodeFacts DEF Zeros, Bufs
    <3>2. y \in Call /\ y.op = "create" /\ y.sought = FALSE
      BY <3>1 DEF Started, Call, Points, Pointers
    <3> HIDE DEF y
    <3>3. x = [y EXCEPT !.at = "number"]
      BY DEF y
    <3>4. x \in Call /\ x.op = "create" /\ x.at = "number" /\ x.sought = FALSE
      BY <3>2, <3>3 DEF Call, Points
    <3> QED BY <3>4, IdleFacts
  <2> HIDE DEF x
  <2>3. Safe(image, made, stored, x)
    BY <1>2, <2>1, <2>2
       DEF Safe, CallInv, Knows, PointsOf, MarkedInv, Unmarked, NamesInv
  <2>4. Positioned(pos, x)
    BY <1>2, <2>2 DEF Positioned
  <2> QED BY <1>4, <1>5, <2>1, <2>2, <2>3, <2>4 DEF StartCreate
<1>6. ASSUME NEW op \in {"read", "write", "truncate", "unlink"}, NEW f \in Files, Start(w, op, f)
      PROVE  /\ call' \in [Workers -> Call \cup {Idle}]
             /\ Safe(image', made', stored', call'[w])
             /\ Positioned(pos', call'[w])
  <2> DEFINE x == Started(op, f)
  <2>1. c = Idle /\ call' = [call EXCEPT ![w] = x] /\ f \in made
    BY <1>2, <1>6, IdleFacts DEF Start
  <2>2. x \in Call /\ x # Idle /\ x.op = op /\ x.f = f /\ x.at = "inode" /\ x.sought = FALSE
    BY IdleFacts, BlockFacts DEF Started, Call, Points, Zeros, Bufs, Pointers, Files
  <2> HIDE DEF x
  <2>3. stored' \subseteq stored /\ (op # "read" => f \notin stored')
    BY <1>6 DEF Start
  <2>4. Safe(image, made, stored', x)
    BY <1>2, <2>1, <2>2, <2>3
       DEF Safe, CallInv, Knows, PointsOf, MarkedInv, Unmarked, NamesInv, StoredInv
  <2>5. Positioned(pos, x)
    BY <1>2, <2>2 DEF Positioned
  <2> QED BY <1>4, <1>6, <2>1, <2>2, <2>4, <2>5 DEF Start
<1>7. CASE Seek(w)
  <2> DEFINE x == [c EXCEPT !.sought = TRUE]
  <2>1. c \in Call /\ call' = [call EXCEPT ![w] = x] /\ pos' = Target(c)
    BY <1>1, <1>2, <1>7, IdleFacts DEF Seek
  <2>2. x \in Call /\ x.at = c.at /\ x.direct = c.direct /\ x.f = c.f /\ c.f \in Inodes
    BY <2>1 DEF Call
  <2>3. Safe(image, made, stored, x)
    BY <1>2, <2>1, SeekSafe
  <2>4. Target(c) \in Blocks
    <3>1. c.at \in {"zero", "data", "store"} => c.direct \in DataBlocks
      BY <1>2, <2>1, IdleFacts DEF Safe, CallInv, Knows, Owns, PointsOf, Call
    <3> QED BY <2>1, <2>2, <3>1, BlockFacts, TablePlaces DEF Target, Call, Points
  <2>5. Positioned(pos', x)
    <3>1. Target(x) = Target(c)
      BY <2>2 DEF Target
    <3> HIDE DEF x
    <3> QED BY <2>1, <2>4, <3>1, SizeAssumption DEF Positioned, Blocks
  <2> QED BY <1>4, <1>7, <2>1, <2>2, <2>3, <2>5 DEF Seek
<1>8. CASE Read(w)
  <2>1. c \in Call /\ c.sought /\ Reading(c) /\ pos = Target(c)
    BY <1>2, <1>8, IdleFacts DEF Read, Positioned
  <2>2. pos \in Blocks
    <3>1. c.at = "data" => c.direct \in DataBlocks
      BY <1>2, <2>1, IdleFacts DEF Safe, CallInv, Knows, Owns, PointsOf, Call
    <3> QED BY <2>1, <3>1, BlockFacts, TablePlaces DEF Target, Reading, Call
  <2>3. PICK d \in AfterRead(c, image[pos]) : call' = [call EXCEPT ![w] = Sought(d)]
    BY <1>8, <2>2 DEF Read
  <2>4. d \in Call \cup {Idle} /\ Safe(image, made, stored, d)
    BY <1>2, <2>1, AfterReadSafe
  <2>5. Sought(d) \in Call \cup {Idle} /\ Safe(image, made, stored, Sought(d))
        /\ (Sought(d) # Idle => ~Sought(d).sought)
    BY <2>4, SeekSafe DEF Sought, Call
  <2>6. pos' = pos + 1 /\ Positioned(pos', Sought(d))
    BY <1>8, <2>2, <2>5, SizeAssumption DEF Read, Positioned, Blocks
  <2> QED BY <1>4, <1>8, <2>3, <2>5, <2>6 DEF Read
<1>9. CASE Write(w)
  <2> DEFINE d == AfterWrite(c)
  <2>1. c \in Call /\ c.sought /\ ~Reading(c) /\ pos = Target(c)
    BY <1>2, <1>9, IdleFacts DEF Write, Positioned
  <2>2. pos \in Blocks
    <3>1. c.at \in {"zero", "store"} => c.direct \in DataBlocks
      BY <1>2, <2>1, IdleFacts DEF Safe, CallInv, Knows, Owns, PointsOf, Call
    <3> QED BY <2>1, <3>1, BlockFacts, TablePlaces DEF Target, Reading, Call, Points
  <2>3. d \in Call \cup {Idle}
        /\ Safe(Put(image, Target(c), Payload(c)), MadeAfter(c, made), StoredAfter(c, stored), d)
    BY <1>2, <2>1, AfterWriteSafe
  <2>4. /\ image' = Put(image, Target(c), Payload(c))
        /\ made' = MadeAfter(c, made) /\ stored' = StoredAfter(c, stored)
        /\ call' = [call EXCEPT ![w] = Sought(d)] /\ pos' = pos + 1
    BY <1>9, <2>1 DEF Write, Put, MadeAfter, StoredAfter
  <2>5. Sought(d) \in Call \cup {Idle} /\ Safe(image', made', stored', Sought(d))
        /\ (Sought(d) # Idle => ~Sought(d).sought)
    BY <2>3, <2>4, SeekSafe DEF Sought, Call
  <2>6. Positioned(pos', Sought(d))
    BY <2>2, <2>4, <2>5, SizeAssumption DEF Positioned, Blocks
  <2> QED BY <1>4, <2>4, <2>5, <2>6
<1>10. CASE UNCHANGED vars
  BY <1>2, <1>10 DEF vars
<1> QED BY <1>1, <1>5, <1>6, <1>7, <1>8, <1>9, <1>10 DEF Next

-----------------------------------------------------------------------------
(* The theorems *)

LEMMA WorkerInvariant == ASSUME OneWorker PROVE Spec => []WorkerInv
<1>1. Init => WorkerInv
  BY InitWorker
<1>2. WorkerInv /\ [Next]_vars => WorkerInv'
  BY NextWorker
<1> QED BY <1>1, <1>2, PTL DEF Spec

\* With one worker the metadata blocks stay what they are for, bitmaps in their
\* range, pointers to data blocks, and the offset within the image or just
\* behind it (every lseek and transfer of minifs_core.c).
THEOREM TypeCorrect == ASSUME OneWorker PROVE Spec => []TypeOK
<1>1. ASSUME WorkerInv PROVE TypeOK
  <2>1. PICK w : Workers = {w}
    BY DEF OneWorker
  <2>2. Safe(image, made, stored, call[w]) /\ Positioned(pos, call[w])
    BY <1>1, <2>1 DEF WorkerInv
  <2>3. \A b \in TableArea : image[b].kind = "table" /\ image[b].direct \in [Slots -> Pointers]
    BY <2>2, BlockFacts DEF Safe, ImageType, Bufs
  <2>4. \A b \in DataBlocks : image[b].kind = "data" /\ image[b].of \subseteq Inodes
    <3>1. \A b \in DataBlocks : image[b] \in Bufs /\ image[b].kind = "data"
      BY <2>2, BlockFacts DEF Safe, ImageType
    <3> QED BY <3>1 DEF Bufs
  <2>5. \A t \in Workers : Busy(t) => call[t].at \in Points /\ call[t].f \in Inodes
    BY <1>1, IdleFacts DEF WorkerInv, Busy, Call
  <2>6. made \subseteq Files /\ stored \subseteq Files /\ pos \in InodeBitmap .. LastBlock + 1
    BY <2>2 DEF Safe, NamesInv, Positioned
  <2> QED BY <2>2, <2>3, <2>4, <2>5, <2>6
          DEF TypeOK, Safe, ImageType, IBits, BBits
<1> QED BY <1>1, WorkerInvariant, PTL

\* With one worker minifs_block_alloc hands out a block that no file points to.
THEOREM AllocatedBlockFree == ASSUME OneWorker PROVE Spec => []AllocatedIsFree
<1>1. ASSUME WorkerInv PROVE AllocatedIsFree
  <2>1. PICK w : Workers = {w}
    BY DEF OneWorker
  <2> DEFINE c == call[w]
  <2>2. SUFFICES ASSUME Busy(w), c.at \in {"mark", "zero"}
                 PROVE  \A i \in Inodes : Direct(image)[i] # c.direct
    BY <2>1 DEF AllocatedIsFree, Pointer, Direct
  <2>3. c \in Call /\ Safe(image, made, stored, c) /\ Knows(image, c)
    BY <1>1, <2>1, <2>2, IdleFacts DEF WorkerInv, Busy, Safe, CallInv
  <2>4. CASE c.at = "mark"
    BY <2>3, <2>4 DEF Safe, Knows, MarkedInv, Unmarked
  <2>5. CASE c.at = "zero"
    BY <2>3, <2>5 DEF Knows, Owns, Call
  <2> QED BY <2>2, <2>4, <2>5
<1> QED BY <1>1, WorkerInvariant, PTL

\* With one worker mfs_create gives a new file a number that no file has.
THEOREM NewNumberFree == ASSUME OneWorker PROVE Spec => []NewInodeIsFree
<1>1. WorkerInv => NewInodeIsFree
  BY IdleFacts DEF OneWorker, WorkerInv, NewInodeIsFree, Busy, Safe, NamesInv
<1> QED BY <1>1, WorkerInvariant, PTL

\* With one worker a write that has returned stays until its file is written,
\* truncated or removed, whatever else is created, read, written, truncated and
\* removed meanwhile.
THEOREM WrittenStays == ASSUME OneWorker PROVE Spec => []WritesStay
<1>1. WorkerInv => WritesStay
  BY DEF OneWorker, WorkerInv, WritesStay, Safe, StoredInv, NamesInv, Files, Pointer, Direct, BBits
<1> QED BY <1>1, WorkerInvariant, PTL
=============================================================================
