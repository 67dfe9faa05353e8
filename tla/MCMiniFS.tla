------------------------------ MODULE MCMiniFS ------------------------------
(* Small instances of MiniFS for TLC.                                      *)
EXTENDS MiniFS, TLC

CONSTANTS a, b, long

\* Both short names are treated alike; with a long name only Cut tells a and
\* b apart, so the symmetry is used without long names.
NameSymmetry == Permutations({a, b})

NoCut == <<>>
CutToA == [n \in {long} |-> a]

\* A path of a directory then has two bytes for each component.
OneByte == [n \in Names |-> 1]

\* Names of one and of two bytes: with paths of four bytes, /a/ and /b/a are
\* cut in the three ways that a cut path ends.
TwoLengths == [n \in Names |-> IF n = b THEN 2 ELSE 1]
=============================================================================
