-------------------------- MODULE MCMiniFSThreads ---------------------------
(* Small instances of MiniFSThreads for TLC.                               *)
EXTENDS MiniFSThreads

CONSTANTS t1, t2
=============================================================================
