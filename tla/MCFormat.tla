------------------------------- MODULE MCFormat ------------------------------
(* Small instances of Format for TLC.                                      *)
EXTENDS Format

\* Block counts at both sides of a whole byte and a whole block of bits, with
\* images too small for their tables, just large enough, and roomy.
SmallLengths == {1, 7, 8, 9, 12, 13, 14, 16, 17, 32, 33, 40}

\* Inode bits in part of a byte, a block, and a block and one; with 3 bytes an
\* inode and 2 a block, the table ends within and at the end of a block.
SmallInodeCounts == {2, 3, 16, 17}
=============================================================================
