--------------------------- MODULE MCMiniFSCrash ----------------------------
(* Small instances of MiniFSCrash for TLC.                                 *)
EXTENDS MiniFSCrash, TLC

CONSTANTS a, b

NameSymmetry == Permutations({a, b})

NoCut == <<>>

\* A path of a directory then has two bytes for each component.
OneByte == [n \in Names |-> 1]
=============================================================================
