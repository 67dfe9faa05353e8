------------------------------ MODULE MCFuseFS ------------------------------
(* Small instances of FuseFS for TLC.                                      *)
EXTENDS FuseFS, TLC

CONSTANTS n1, n2, n3, t1, t2

Symmetry == Permutations(Names) \cup Permutations(Workers)

\* The first block, the first two, and one past the direct blocks.
Writes == {<<0, 0>>, <<0, 1>>, <<3, 3>>}

\* States are told apart by what a step can read: not by the inodes of deleted
\* files nor by what is in blocks outside the directory, both of which are
\* written before they are next read.
Readable ==
    <<saved, ctx, phase, call, lost,
      [i \in {Root} \cup Live |-> table[i]],
      [k \in DirIdx |-> DirCell(k)]>>
=============================================================================
