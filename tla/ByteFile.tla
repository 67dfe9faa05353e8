------------------------------ MODULE ByteFile ------------------------------
(***************************************************************************)
(* What mfs_write and mfs_truncate promise of the bytes of files, wherever *)
(* the disk fills up or the process dies: a write changes bytes of its own *)
(* file, in its own range and to its own value; it may stop short, and     *)
(* unless the disk was full what it reports is there; a truncation clears  *)
(* bytes past the new end only.  Nothing else changes a byte or a size.    *)
(*                                                                         *)
(* A file has bytes past its end: those a later extension would show.  A   *)
(* shortening may leave them, as the code does within the last block.      *)
(***************************************************************************)
EXTENDS Integers

CONSTANTS Files, Places, Zero

VARIABLES
    size,       \* of each file
    bytes,      \* of each file, at each place it can have
    request     \* the write being served: a set of at most one

shown == <<size, bytes, request>>

Range(r) == {p \in Places : r.offset <= p /\ p < r.offset + r.size}

\* Bytes change from the present ones at places of S in file f only, to v.
ChangeOnly(f, S, v) ==
    \A g \in Files, p \in Places :
        bytes'[g][p] # bytes[g][p] => g = f /\ p \in S /\ bytes'[g][p] = v

Bytes_Init ==
    /\ size = [f \in Files |-> 0]
    /\ bytes = [f \in Files |-> [p \in Places |-> Zero]]
    /\ request = {}

Serve ==
    /\ request = {}
    /\ \E r \in request' : request' = {r}
    /\ UNCHANGED <<size, bytes>>

Put(r) ==
    /\ ChangeOnly(r.file, Range(r), r.value)
    /\ UNCHANGED <<size, request>>

\* n bytes are reported and are there; the file reaches to their end at least.
Return(r, n) ==
    /\ request' = {}
    /\ ChangeOnly(r.file, Range(r), r.value)
    /\ \A p \in Range([r EXCEPT !.size = n]) : bytes'[r.file][p] = r.value
    /\ size' = [size EXCEPT ![r.file] = IF r.offset + n > @ THEN r.offset + n ELSE @]

\* A write that finds the disk full, whatever it reports, or whose process dies.
Fail ==
    /\ request # {} /\ request' = {}
    /\ UNCHANGED <<size, bytes>>

Truncate(f) ==
    /\ size' = [size EXCEPT ![f] = size'[f]]
    /\ ChangeOnly(f, {p \in Places : p >= size'[f]}, Zero)
    /\ request = {} /\ UNCHANGED request

Bytes_Next ==
    \/ Serve
    \/ \E r \in request : Put(r) \/ \E n \in 0 .. r.size : Return(r, n)
    \/ Fail
    \/ \E f \in Files : Truncate(f)

Bytes_Spec == Bytes_Init /\ [][Bytes_Next]_shown
=============================================================================
