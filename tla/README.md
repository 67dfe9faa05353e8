# A verification project for MiniFS

TLA+ models of the file systems in this repository, the TLC runs that check
them on small instances, and proofs of their main invariants for every
instance.

## 1. The system

The repository holds two independent file systems, both a single image file
served by a FUSE process.

**MiniFS** (`src/src`, copied byte for byte in `src/PROJET/MiniFS/src`).

| part | state | operations |
|---|---|---|
| on-disk format (`minifs.h`) | superblock (block 0), inode bitmap (1), block bitmap (2), table of 128 inodes (3, 4), data blocks (5 ..) | none |
| core layer (`minifs_core.c`) | `g_ctx`: the descriptor and the superblock in memory | open, close, read and write a block; find, mark, free an inode; allocate, free a block; look up, add, remove a directory entry; resolve a path; write the superblock |
| FUSE callbacks (`minifs_fuse.c`) | nothing but `fi->fh`, an inode number | getattr, readdir, open, read, write, create, mkdir, unlink, rmdir, truncate, statfs |
| `mkfs_mini.c` | none | makes an image with a root directory |
| `test_core.c`, `verify_sb.py` | none | test the core layer; dump a superblock |

Everything but the superblock is read from the image and written back at once,
by each callback, one block at a time. The superblock lives in memory and is
written at the end of a callback that succeeds and at close. There are no
locks, no journal and no check at mount; `fuse_main` starts the multithreaded
loop unless `-s` is given.

**minifs-fuse** (`src/minifs/minifs-fuse`): the same idea with other structures:
bitmaps and superblock cached in memory and written at unmount, a mutex around
the allocators, one flat root directory, twelve direct blocks, and tools (mkfs,
fsck, debugfs). Its parts are filesystem.c (format, mount, sync), inode.c and
block.c (allocators), directory.c, file_ops.c and main.c (callbacks). Around it
are installers, a GTK front end and documents.

### How the parts interact

A callback resolves its path by one lookup per component, changes bitmaps,
inode table and directory blocks through the core layer, and writes the
superblock. The kernel and libfuse are the environment: they give paths whose
directory part they have looked up, hold back the unlink of an open file (they
rename it first, which this driver does not implement), and send a getattr after
each create. `minifs_path_to_ino` and `parent_dir` copy a path into 256 bytes and
cut the rest without an error, so a callback on a longer path works on what the
first 255 bytes name; libfuse, which knows files by their full names, then holds
back nothing for the file that is really meant. The kernel keeps what it looked
up for a while (a second by default), so it may send a path whose parent no
longer resolves. Two callbacks meet only through the image and `g_ctx`.

### What is hard here

* **Half-done callbacks.** A full inode bitmap, block bitmap or directory is
  found at different points of create, mkdir and write, some of them after
  state was changed; nothing is undone.
* **Death of the process.** What a dead process leaves is what the next mount
  serves: the order of the block writes is the only protection.
* **Two views of one fact.** Bits and types, pointers and bits, `blocks_used`
  and pointers, counters and bits, entries and inodes, and three different
  notions of a free slot (`name[0]`, `inode == 0`, `strcmp` with dots).
* **Reuse.** Numbers and blocks are reused first-fit and at once: a name, a
  handle or a pointer that outlives its owner aliases the next one.
* **Threads.** Read-modify-write of shared blocks and a shared file offset
  without a lock.
* **Boundaries.** Requests that cross blocks, end in holes, start past the last
  pointer; names longer than a slot, paths longer than their buffer; images
  smaller than their tables, or larger than their bitmap.
* **Half-made images.** The formatters write the superblock, by which an image
  counts as one, first.

`PROJECT.json` lists the hazards one by one with their lines.

### What makes each part correct

* allocators: a marked block or inode is never handed out, what is in use is
  marked, the counters count the clear bits;
* directories: a name is there once, an entry leads to a live inode, removal
  and insertion leave all other entries alone, every directory keeps its dots;
* callbacks: an error changes no directory, success loses no space, an entry
  and its inode come and go together, handles stay valid;
* file contents: a write reaches its own file and range, a read returns what is
  there, no byte of one file shows in another, every loop ends;
* formatters: the drivers find each structure where it was written, and their
  allocators offer data blocks only;
* mount and unmount: the tree and the counters survive; after a death the tree
  survives and only space is lost, save for an inode that was being deleted.

## 2. Modules

| module | models | state |
|---|---|---|
| `MiniFSDisk` | `minifs.h` and the pure part of `minifs_core.c`: first-fit searches, slot scans, name comparison and storing, path resolution and which paths are not cut, counter arithmetic | none |
| `MiniFS` | the callbacks of `minifs_fuse.c` one at a time, on paths that fit and (with `CutPaths`) on paths that are cut; mount, unmount, death | `inodeBitmap`, `blockBitmap`, `inodeTable`, `block`, `diskSb` (the image); `sb`, `mounted` (`g_ctx`); `opened` (`fi->fh`); `writing` (locals of a write loop); `rc` |
| `MiniFSCrash` | the same callbacks as the block writes they issue, in order, on paths that fit, with a death between any two | the image, `sb`, `mounted`, `pending` (writes still to come), `deleting`, `torn` (history: the inode of the deletion under way, of cut deletions), `deaths` |
| `MiniFSThreads` | worker threads that create, read, write, truncate and unlink files of one block, as the `lseek` and `read` or `write` calls they make | `image`, `pos` (the file offset of `g_ctx.fd`), `call` (per thread: callback, point, locals), `made` (files that have a name), `stored` (history: files whose write has returned) |
| `FileData` | `mfs_read`, `mfs_write`, `mfs_truncate` with sizes, offsets and bytes, block by block, a death inside a write | `bitmap`, `inode` (size and pointers), `block` (bytes), `writing` (locals of the write loop) |
| `ByteFile` | the promise of `FileData`: files of bytes that share nothing | `size`, `bytes`, `request` |
| `Format` | `mkfs_mini` and `minifs_format`, write by write, on the same file; what the two drivers find there | `image`, `length`, `todo` (writes to come), `goal` (the geometry written), `fresh` (history: started from zeroes) |
| `FuseFS` | minifs-fuse: format, mount, callbacks on several threads, sync, death, fsck | `saved`, `table`, `content` (the image), `ctx` (superblock and bitmaps in memory), `phase` (down, up, how far `minifs_sync` is), `call` (per thread), `lost` (history: a death has lost bits) |
| `Namespace` | the promise: a tree of names that grows and shrinks by one entry | `entries`, `dirs` |
| `MiniFSDiskProofs` | lemmas about the operators of `MiniFSDisk`, cited by the modules of proofs that follow | |
| `MiniFSProofs`, `MiniFSTreeProofs` | theorems about `MiniFS`: blocks, `blocks_used`, entries; paths and free counts | |
| `MiniFSCrashProofs`, `FileDataProofs`, `MiniFSThreadsProofs`, `FuseFSProofs`, `FormatProofs` | theorems about `MiniFSCrash`, `FileData`, `MiniFSThreads`, `FuseFS`, `Format` | |
| `MCMiniFS`, `MCMiniFSCrash`, `MCMiniFSThreads`, `MCFileData`, `MCFormat`, `MCFuseFS` | model values, symmetry, a view for TLC | |

`MiniFS` and `MiniFSCrash` EXTEND `MiniFSDisk`, so the two granularities use one
set of searches and structures; both are mapped onto `Namespace`, and `FuseFS` is
too, with the root as its only directory. `MiniFSThreads` looks at what the other
two leave out, several callbacks at once, on a smaller part of the image;
`FileData` at what all three leave out, the bytes of files, and is mapped onto
`ByteFile`. `Format` is about the image that the others start from.

### Correspondence and abstractions

* A bitmap is the set of its one bits, a block a function from slots to
  directory cells; the bytes of a file fill a block with `FileBytes`, so a file
  block mistaken for a directory block is seen.
* Of an inode: type, pointers, `blocks_used`. Sizes, times and permissions
  decide nothing in the control flow modelled.
* A name is an atom. `ShortNames` fit a slot, `LongNames` do not, `Cut` says
  what is stored of a long one. `Cut` is any function, so two long names may
  share their first 27 characters.
* A path is known by the directories on its way and by its bytes: `Length` gives
  those of a name, `PathMax` (255) is what the buffers keep. `DirsAt(..)[k]` are
  the directories that a path of exactly `k` bytes resolves to, `PathDirs` those
  of all paths that are not cut, and `Fits` says that a name in a directory has
  such a path. Each callback of `MiniFS` and `MiniFSCrash` needs `Fits`
  (`ReadyIn`).
* A callback whose path is cut is one of the actions `CutCreate`, `CutMkdir`,
  `CutUnlink`, `CutRmdir`, or an open or a truncation of what the cut path names
  (`OpenFound`, `TruncateFound`); they are steps where the constant `CutPaths` is
  true. `CutPlaces` gives what the cut path and its cut parent resolve to. If the
  path is found, its 255 bytes end in an entry's name, and the parent is that
  entry's directory, or they end in the slash after a directory, and the parent is
  that directory itself (`CutFound`). If not, the bytes kept of the last name are
  nobody's, or the path goes through a name the kernel still holds (`CutNotFound`);
  then a create or mkdir goes on, adds the full last name to wherever the cut
  parent leads, or finds no parent after it allocated and returns -ENOENT with the
  inode kept (`minifs_fuse.c:251, 296`; `CutAdd` of no parent). Which bytes a name has
  in common with another is not known to the model, so `CutNotFound` allows both
  outcomes: it has more steps than the code.
* A scan that stops at its first hit is a set of at most one element, the
  least; all scans of the code are deterministic and so are the models.
* In `MiniFS` a callback is one action with everything it changes, errors
  included (`Fail` leaves all but `rc`). Only `mfs_write` is several, because
  its loop keeps a private copy of the inode that a death drops. For a path
  that fits, the lookup of the parent directory after the inode was made cannot
  fail when callbacks run one at a time; for one that is cut it can, as above.
* In `MiniFSCrash` a callback that is refused writes nothing and is no step.
  `mfs_write` covers one block. The counters in memory change when the callback
  starts: nobody reads them before its last write.
* `Mount` reads the superblock, nothing else; there is no recovery to model.
* `MiniFSThreads` numbers the blocks as `minifs.h` does: 1 the inode bitmap, 2 the
  block bitmap, 3 .. the inode table, then the root directory's block and the other
  data blocks. `TableOf` and `Slot` place an inode in the table. Block 0 is left out
  with the transfers of the superblock, and so are the directories' blocks (creates
  are in different directories). A block that is read in place of another is taken
  for any bits or any inodes (`AsBits`, `AsTable`): more than the code can make of
  it. That happens with two workers only; where another bitmap is read, as in
  the counterexample of `threads_create`, it is taken for its own bits.
* `FileData` has files but no directories: a truncation frees blocks as an
  unlink does. A write puts one value into all of its range. Sizes and offsets
  are modulo `Word` where the code cuts them to 32 bits.
* `ByteFile` says how far the bytes of a failed or cut write may have come: any
  part of its own range, and no other byte. Its `bytes` go on past the size, for
  what a truncation leaves in the last block shows again when the file grows; a
  write past the last pointer writes nothing and may enlarge the file.
* In `Format` a block holds a part of one structure, tagged with the geometry it
  was written for, so that a structure read at a wrong place, or left by an
  earlier format, is told from the right one. One write of `minifs_format` is one
  structure, one of `mkfs_mini` one block.
* In `FuseFS` a step is one section under the mutex, with the writes to a block
  or inode that nobody else can reach yet; `minifs_sync` is its three writes. A
  directory block holds one entry because `rec_len` of each new entry reaches the
  end of its block (`directory.c:184, 218`). `minifs_truncate_file` is called by
  nothing. A mount after a death that lost bits is refused (`Mount`): a bound.
* Creates and unlinks in the one directory, and writes to one file, come one at a
  time (the kernel's locks), reads at any time. In `MiniFSThreads`, too.

## 3. Runs

| run | instance | shows |
|---|---|---|
| `driver` | 4 inodes, 3 data blocks, 2 pointers, 3 slots a block, 2 names, deaths between callbacks and between two blocks of a write, paths that fit | bits, types, `blocks_used`, dots and handles agree in every state; nothing in use is free or shared; entries resolve; a created name is found; an error changes no directory; space is lost by failures and deaths only, and the counters stay between what is free and what is free or leaked; the driver implements `Namespace` |
| `crash` | 4 inodes, 3 data blocks, 2 names, a death at any block write | every name, pointer and directory but those of one inode being deleted is sound on the image; no pointer is shared; the tree changes by one write per callback |
| `cut_paths` | 3 inodes, 3 data blocks, 2 names, of one byte and of two, paths cut after 4 bytes | with cut paths among the others, no block gets two owners, and an error changes no directory (that bits, types and pointers agree is proved) |
| `file_data` | 2 files, 2 pointers, blocks of 2 bytes, 2 data blocks, 2 values, deaths inside writes | no file holds a block past its end; a read returns all there is up to its end, the last pointer or a hole; every write loop ends; `FileData` implements `ByteFile` |
| `one_thread` | 1 thread, 3 files in 2 blocks of the inode table, 2 data blocks beside the root's | with `-s`, an allocated block or inode is nobody else's, a finished write stays |
| `format` | both formatters, blocks of 16 bits, 12 lengths, 4 numbers of inodes, 2 sizes of `mkfs_mini` and 2 it refuses, any number of formats of one file, a death at any write | the drivers find every structure where it was written; the allocators offer exactly the data blocks but the root's, and after a first format that was cut short nothing else |
| `fuse_threads` | 2 threads, 3 names, 3 files, 4 data blocks, 3 pointers, any number of mounts, unmounts, fscks and harmless deaths | what is in use is marked and owned once; counters follow bits; only failures, reads and deaths lose space; `FuseFS` implements `Namespace` |
| `threads_create` | 2 threads | violation: two creates are given one inode number |
| `fuse_stale_read` | 2 threads | violation: a read undoes a write |
| `fuse_fsck` | 1 thread, a death | violation: fsck leaves what is in use marked free |
| `long_path` | as `cut_paths` | violation: an rmdir deletes another directory than its path has |
| `long_name` | one long name | violation: a long name is created and not found |

**Bounds.** Three slots a block leave one beside the dots, so the second entry of
a directory already makes it grow; two pointers make it full after four
entries, which four inodes cannot reach, but the full block bitmap makes
`add_entry` fail earlier. Three data blocks are the root's, and two for a
subdirectory, a growth or a file: every combination of two claims and the full
disk. Four inodes give a directory in a directory with a file in it, or three
names in one directory. Two names give collisions; with `SYMMETRY` on the names
where nothing tells them apart. All runs that pass exhaust their state space; the
only cuts are in `crash`: one death, and no callback after a mount of an image
with a cut deletion (`BeforeReuse`), for from there on the damage spreads, by
design, to whatever reuses the blocks; and, for the same reason, in `FuseFS`: no
mount after a death that lost bits.

In `cut_paths` and `long_path` names have one byte and two and the buffers keep
four. So the bytes kept end behind a name, inside one or behind the slash after
it; two directories deep is the deepest path that fits, and three inodes make it. A
found and a missing path, a parent that is gone and one that is a file, a full disk
and a full inode table occur; deaths do not. The other runs of `MiniFS` and
`MiniFSCrash` set `CutPaths` to false, or have no such constant; there names
have one byte and the buffers keep six, enough for every inode.

Some properties say less in one instance than their wording suggests. In `driver`
and `crash` no name is too long for its slot: what becomes of such names is shown
by `long_name` only. In `crash` the inode whose deletion or truncation a death cut
short is exempt, so what is wrong with that inode itself is not seen, only that
nothing else is. `one_thread` says nothing of interleavings: those are the subject
of `threads_create`. In `fuse_threads` `InUseIsMarked` speaks of states in which no death has lost bits; the others are
shown by `fuse_fsck`. `ByteFile` allows that bytes which a write has reported as
written are lost when the process dies before the inode is stored.

In `one_thread` two data blocks and three files fill the image and the inode
table, whose four inodes lie in two blocks; `threads_create` stops at its
violation. In `file_data` two blocks are as many as one file can have, so two files compete for
them; the ranges are all of a file, the end of one block with the start of the
next, the last byte with the one past it, and one past the last pointer;
truncations are to nothing, within a block, between blocks and past the end.
`NoWrap` keeps requests below `Word`; beyond 4 GB the code writes and records at
the place modulo 2^32, which is listed as a hazard and promised nowhere.

`format` has 2 bytes a block, so that lengths and inode counts fall on both sides
of a whole byte and a whole block of bits, inodes lie across blocks, and images
are too small for their tables, just large enough (a format of a too small image
makes the file longer, and the next one finds it so) and larger than one block of
bits. Left out, in `StartFuse`: geometries with more metadata blocks than the
bitmap has bits (an empty file, or very many inodes in a small one), where
`minifs_format` writes behind its buffer.

In `fuse_threads` three pointers hold the dots and two entries, so that a third
file finds the directory full; with four data blocks two entries leave one block
for which writes of two files, a third entry and the second block of a file
compete. Writes of block 0, of blocks 0 and 1 (a growth, and a failure half way)
and past the last pointer are issued. `VIEW` leaves out inodes of deleted files
and blocks outside the directory, which are written before they are read.

**Deadlock** is not checked in the runs of `MiniFS` and `MiniFSCrash`: a refused
callback of `MiniFSCrash` is no step, and in `MiniFS` nothing waits for anything.
It is checked in the others.

**Fairness.** `file_data` checks that what was begun ends: `EveryWriteReturns`. It
assumes weak fairness of the steps of the write loop (`WF_vars`): the driver takes
no lock and waits for no other callback, so a step that can be taken is taken unless
the process dies, and system calls on a regular file return. Nothing is assumed of
the kernel: it need not send another callback. The other properties are safety
properties and assume no fairness. minifs-fuse takes its one mutex for sections that call nothing that waits, so
there is nothing to show there beyond the loops themselves.

**Mutants.** Each property of each passing run has a mutant: a definition beside
the real one (`Create_EntryFirst`, `GrowDir_NotZeroed`, ...) with a bug that
code could have, for which TLC refutes the property.

### Findings

* `long_name`: `minifs_core.c:273-275` stores 27 characters of a name and
  `minifs_core.c:227` compares 28 with the full name.
* `long_path`: an rmdir of `P/q`, where the path of `P` has 255 bytes, deletes `P`
  and leaves its entry. The path is cut at `minifs_core.c:241-243`, which
  `minifs_core.h:89-92` does not say.
* `threads_create`: the core layer is not safe under the multithreaded loop that
  `main` starts. Inode numbers are looked for and marked without a lock, and so are
  data blocks (`AllocatedIsFree` fails with two workers as well); and transfers share
  a file offset, so that one may reach the block that another thread sought, or the
  one behind it. Neither fault needs the other.
* `fuse_stale_read`: `minifs_read_file` writes the inode back as it found it.
* `fuse_fsck`: bitmaps reach the image at unmount only, and fsck trusts them.

`long_name`, `long_path` and `fuse_fsck` are differences between what headers, tests and
documents say and what the code does; the others are defects of the code. No run shows
that `mkfs_mini` makes images of up to 1024 MB with a bitmap for 128 MB
(`mkfs_mini.c:97, 184`), which is arithmetic: it is the hypothesis of a theorem of
`FormatProofs`. Counters after a death are no finding: they are
bounded (`FreeCountsBounded`), and exact only while nothing died. The comment
"256 bytes" on the inode of minifs-fuse (`include/minifs.h:68`) is wrong, its size
is 240; nothing depends on it.

## 4. Proofs

`MiniFSProofs` proves, for every geometry and every set of names that satisfies
`GeometryAssumption`, `NameAssumption` and `PathAssumption` of `MiniFSDisk` and
`KillAssumption` and `CutAssumption` of `MiniFS`, with and without paths that are
cut unless a theorem has the hypothesis `~CutPaths`:

* `TypeCorrect`: `Spec => []TypeOK`;
* `UsedBlocksMarked`: `Spec => []PointersAllocated`;
* `BlocksSinglyOwned`: `Spec => []NoSharedBlock`.

Neither of the last two is inductive alone. A block is taken from the clear
bits: that the new owner is the only one needs that every other pointer is
marked; a deletion clears the bits of one inode: that every other pointer stays
marked needs that no block is shared, and also that a write loop's copy is not
the deleted inode's. `OwnershipInv` is the conjunction of types, marking,
single ownership (also between the loop's copy and the table) and that one
write at most is under way. Each action keeps it; the lemmas
say what first-fit returns, what `WithBlock`, `Shortened` and the counters
preserve, and that inserting an entry moves no pointer but the parent's.

The module also proves `UsedCountExact` (`Spec => []BlocksUsedExact`): types, and
that each inode and the loop's copy count their own pointers, are inductive; the
lemmas are about the cardinality of the set of pointers when one is filled or some
are dropped.

About entries it proves, from the same assumptions:

* `BitsAndTypesAgree`: `Spec => []BitmapAgrees`;
* `EveryEntryResolves`: `~CutPaths /\ Spec => []EntriesResolve`;
* `EveryHandleValid`: `~CutPaths /\ Spec => []HandlesValid`;
* `EntriesGoWithInodes`: `~CutPaths /\ Spec => EntryAndInodeTogether`;
* `ErrorsChangeNothing`: `Spec => FailureLeavesTree`.

With cut paths the three that say so are false: the rmdir of the run `long_path`
frees an inode and leaves its entry. The first and the last need only that bits and
types agree and that blocks have one owner (`BitsInv`), which a cut path does not
disturb. The others need each other, and `OwnershipInv`. That an entry stays what it is
through a write or another directory's growth needs that directories share no
block with files; that an inode just allocated has no entry left needs that
entries point to marked inodes; that a deletion takes the last entry needs that
there is one per inode; that a write loop stores no stale type, that handles
are of files. `EntryInv` is the conjunction, with the root marked, and with
entries named by directory and position instead of by the set `Links`.
`EntryStep` adds what a step does: no entry goes while its inode stays, and an
error changes none; `NextEntries` proves it action by action, from one lemma for
each kind of change (`SameEntryInv`, `NewInodeEntries`, `DiscardEntryInv`).

`FileDataProofs` proves, for every set of files, block size, number of slots
and set of requests that satisfies `FileAssumption` and `NoWrap` of `FileData`
(no end of a request reaches `Word`, where the 32-bit sizes wrap):

* `TypeCorrect`: `Spec => []TypeOK`;
* `BlocksWithinSize`: `Spec => []NoBlockPastEnd`;
* `Refinement`: `Spec => ImplementsByteFile`, so every step of `FileData` is a
  step of `ByteFile` or a stutter;
* `ReadsReturnPrefix`: `DirectBlocks * BlockSize < Word /\ Spec => []ReadsPrefix`.
  The hypothesis says that the places of a file fit the 32 bits that `mfs_read`
  cuts offsets to; in the code they are 40960 and 2^32.

`Inv` joins types, `DiskOwned` (a block of a file is marked and is one slot's
only), `NoBlockPastEnd` and `WriteInv`, which is about the write in progress:
it has not gone past what was asked (`Asked`), the blocks of its copy are in no
other file (`CopyOwned`), and the bytes that differ from the file it started
from are those of its own range (`CopyWritten`). The last is what makes the
end of a write a step of `ByteFile`: between its beginning and its end the
blocks change under the inode that the table still shows, and the mapping must
hide it. Byte offsets are split in a block and a rest by lemmas on `\div` and
`%` that the SMT solver is given, as it does not find them.

`ReadsReturnPrefix` is about a recursive function, the loop of `mfs_read`. The
proof needs no induction theorem: `LastBytesExist` builds the function that solves
the recursion from the last byte back, `LoopPrefix` shows that no step is the
last one at which the claim fails, and both rest on `LeastNat` (a set of numbers
that is not empty has a least one), which follows from the library's theorem that
the order of the numbers is well-founded.

`MiniFSTreeProofs` proves, from the assumptions of `MiniFSProofs`, about paths:

* `EveryDirectoryInReach`: `LongNames = {} /\ ~CutPaths /\ Spec => []TreeConnected`;
* `CreatedNamesFound`: `LongNames = {} /\ ~CutPaths /\ Spec => CreatedIsFound`;
* `DriverIsNamespace`: `LongNames = {} /\ ~CutPaths /\ Spec => ImplementsNamespace`.

Without the hypotheses, that every name fits its slot and every path its buffer,
they are false: these are the findings of the runs `long_name` and `long_path`.
With them, `EveryDirectoryInReach` says also that every entry has a path that fits:
a callback adds one only under a path that does. `DirsAt` is a recursive function
of the bytes of a path; a directory is reached with `k` bytes if it is the root and
`k` is 0, or if a lookup of a name in a directory that is reached with the bytes
before that name finds it. What holds of a path is proved from its last name back,
with the least number of bytes at which it would fail. `TreeInv` joins `EntryInv` with
`TreeGood`: a name is at most once in a directory, the dots are in place, dot-dot
names the directory that holds the entry, and every directory that has an entry is
in `PathDirs`. It is stated on the view of the directories' cells, and each action
is one of three changes of that view: none (`TreeKept`), one new entry
(`TreeGrown`), one gone whose inode held none (`TreeShrunk`); these are the three
steps of `Namespace`.

It proves about space:

* `FreeCountsHold`: `~CutPaths /\ Spec => []FreeCountsBounded`;
* `NothingLeaksOnSuccess`: `~CutPaths /\ Spec => LeaksOnlyOnFailure`.

`SpaceInv` puts both pairs of counters (superblock on disk and in memory)
between the number of clear bits and the number of what neither the tree nor the
copy of the write loop uses: the copy counts, as it holds the only pointers to
blocks that are marked already, and it only adds to its inode's pointers
(`Extends`). A step that ends with what it allocated pointed to moves both bounds
and the counter together; a failure moves the lower bound only.

`MiniFSCrashProofs` proves, from `GeometryAssumption`, `NameAssumption`,
`PathAssumption` and `DeathAssumption`, for every number of deaths, of callbacks on
paths that are not cut (an `rmdir` of a path that is cut would do its damage without
any death; `MiniFSCrash` leaves it out):

* `TypeCorrect`: `SpecBeforeReuse => []TypeOK`;
* `NamesCorrect`: `SpecBeforeReuse => []NamesResolve`;
* `PointersCorrect`: `SpecBeforeReuse => []PointersMarked`;
* `BlocksCorrect`: `SpecBeforeReuse => []NoSharedBlock`;
* `DirsCorrect`: `SpecBeforeReuse => []DirsServable`;
* `CountersCorrect`: `SpecBeforeReuse => []CountersNeverShort`;
* `CallbacksCorrect`: `LongNames = {} /\ SpecBeforeReuse => CallbacksAtomic`.

`SpecBeforeReuse` are the executions up to the first mount of an image with a cut
deletion, which are what the run `crash` explores too. The state between two
writes of a callback is one of many, and an invariant that lists them would repeat
the callbacks. So `CrashInv` speaks of what is still to come: the pending writes
are `Safe`, which is that they lead from this image through good images only
(`Path`) to one that is good with nothing taken apart, and whose counters are
enough. `Good(g, V)` is what the tree needs of an image, spared the inode in `V`
that is being deleted or shortened. A step takes the first write off a safe sequence and
leaves a safe one (`SafePop`); a death keeps an image that is good; what remains
is that each callback starts with a safe sequence (`CreateSafe`, `MkdirSafe`,
`OverwriteSafe`, `AppendSafe`, `DeleteSafe`, `TruncateSafe`), which the lemmas prove
write by write, of images as values and without a prime.

`CallbacksCorrect` comes from the same sequences: `Path` also says that each write
`Moves` the tree by a step of `Namespace` or not at all. Bitmaps, the superblock,
records of inodes that have no entry yet and blocks that no entry is in leave it as
it is (`Alike`); the write of an entry, or of the pointer to the block that holds
it, adds the entry (`JoinedOK`); zeroing the inode takes it away (`Erased`), after
which the write that frees the slot shows nothing (`Removed`). That the name is new
in its directory is what the lookup at the start of the callback found, and it is
carried through the writes of the new inode (`Welcome`). With a long name the
hypothesis fails as it does in the run `long_name`.

`MiniFSThreadsProofs` proves, from `SizeAssumption` and the hypothesis
`OneWorker` (one worker thread, the driver started with `-s`), for any number of
table blocks, inodes in each and data blocks, those of `minifs.h` among them;
`SizeAssumption` asks only that each bitmap fits its block, beyond which see
`SmallImagesHaveTheirBits`:

* `TypeCorrect`: `Spec => []TypeOK`;
* `AllocatedBlockFree`: `Spec => []AllocatedIsFree`;
* `NewNumberFree`: `Spec => []NewInodeIsFree`;
* `WrittenStays`: `Spec => []WritesStay`.

With two workers the run `threads_create` refutes the third. `WorkerInv` joins `Safe`, what holds of the image and of the one
callback together, and `Positioned`, that the offset is where the next transfer
needs it. `TablePlaces` says that block and slot determine an inode, from a lemma on
`\div` and `%` (`Division`). `Safe` says, for each point at which a callback may be, what its locals
know of the image (`Knows`: the bitmap it has read is the bitmap, the block it
took is its own, the pointer it holds is that of its file), and which bits may be
clear while a pointer is still there.

`FuseFSProofs` proves, for any number of threads, names, files and blocks that
satisfies `FuseGeometryAssumption`:

* `TypeCorrect`: `Spec => []TypeOK`;
* `InUseMarked`: `Spec => []InUseIsMarked`;
* `BlocksNotShared`: `Spec => []NoSharedBlock`;
* `CountersTrack`: `Spec => []CountersTrackBits`;
* `DirectoryIsNamespace`: `Spec => ImplementsNamespace`;
* `SuccessKeepsSpace`: `Spec => SuccessLosesNothing`;
* `OneReaderKeepsFiles`: `OneWorker => (Spec => ReadsKeepFiles)`; with two workers
  the run `fuse_stale_read` refutes it.

`FuseInv` says that a death that lost bits leaves the process down, and that
otherwise: every pointer, on the image, in a callback's copy of an inode or about to
be linked into the directory, is to a marked block, and no two are to one block
unless they are one pointer (`ClaimsInv`); entries are of marked numbers, and no
two have a name or a number in common (`DirInv`); what each callback knows at its
point, and which two callbacks the kernel keeps apart (`CallsInv`); and which
counters are true, and how far an unmount has made image and memory alike
(`PhaseInv`).

`SuccessKeepsSpace` is about what is marked: each marked block is pointed to by the
root, by a file with a name that nobody works on, or by a callback's copy of an
inode (`Held`), and each marked inode has a name or a callback (`Used`). A step is
lossless when all that it lets go of without clearing its bit stays held by somebody
else (`NoneLost`), which the lemmas show action by action (`CreateLoses`,
`FreeFileLoses`, `WriteBlockLoses`, ...). One more invariant is needed, `RootEnds`:
the root's pointers behind its last block are not set, so the block that
`LinkDirBlock` appends replaces no other.

`FormatProofs` proves, for every size of block, inode, table and image that satisfies
`SizeAssumption` of `Format`:

* `FormatCorrect`: `Spec => []FormatReadsBack`;
* `AllocatorsCorrect`: `Spec => []AllocatorsAvoidRoot`;
* `SmallImagesHaveTheirBits`: `Spec => []EveryBlockHasItsBit`, if no size that
  `mkfs_mini` is called with has more data blocks than one block has bits. With the
  constants of `minifs.h` that is 128 MB, and `mkfs_mini` accepts 1024.

`FormatInv` says which writes the image shows: the first ones for the geometry under
way, as many as are no longer in `todo` (`UnderWay`); and on a file that was all
zeroes the first ones of one format, whether it goes on or died, and nothing else
(`OneFormat`). A write keeps those before it because no two cover one block
(`CoversApart`), which comes from the layout (`AreasApart`) and from the order of the
table's blocks; that the places the drivers compute are within what was written is
arithmetic of rounding up (`BlocksHold`, `BitsHold`, `InodesWhole`). The order of the
writes matters for `AllocatorsAvoidRoot` only: the root is served once the table is
written, and by then its bit is (`WritesAre`).

Model-checked only: liveness (`EveryWriteReturns`), which this prover cannot do.
Every other property of a run that passes is a theorem. Of the
properties that a run refutes, `CreatedIsFound`, `NewInodeIsFree` and
`ReadsKeepFiles` are theorems under the condition that excludes the counterexample:
names and paths that fit, one worker. The other two have none. `FsckRepairs`:
without lost bits there is nothing to repair, and that is `InUseMarked`.
`PathsResolve`: it is about cut paths only, and what the others do is the subject of
`EntriesGoWithInodes` and `DriverIsNamespace`.

## 5. Not modelled, and the plan

Left for the next steps, in this order:

1. `MiniFSThreads`: mkdir and rmdir, creates in one directory, and the
   directory blocks and superblock that two callbacks transfer at once.
2. `FuseFS`: what a mount makes of lost bits; write-back of the content of
   blocks; `minifs_truncate_file` if a callback comes to use it.
3. Cut paths together with deaths (`cut_paths` has none, and `MiniFSCrash` has paths
   that fit), and repeated or trailing slashes, which `minifs_path_to_ino` skips.

Not modelled, as nothing changes or depends on it in the properties: `getattr`,
`readdir` and `statfs` beyond the fields that other operations read, I/O errors
of the image file (every block access may fail and is answered by `-EIO`), requests
that pass 4 GB (`NoWrap`), the GTK front end, installers, generated
documents, prebuilt binaries. `src/PROJET/MiniFS/src` is a copy of `src/src`, file for
file; it is not modelled a second time.
