----------------------------- MODULE Namespace ------------------------------
(***************************************************************************)
(* What the driver promises of names, whatever happens on disk: a tree of  *)
(* files and directories that grows by one new entry, shrinks by one       *)
(* existing entry, and otherwise never changes: not by an operation that   *)
(* fails, by reading and writing files, by an unmount, nor by the death of *)
(* the process.  A directory is removed only when it is empty.             *)
(***************************************************************************)
CONSTANTS Ids, Top, Labels

VARIABLES
    entries,    \* the set of [dir, name, id]
    dirs        \* the ids that are directories

Names_Init == entries = {} /\ dirs = {Top}

Known == {Top} \cup {e.id : e \in entries}

\* A new entry: in a directory, under a name that was not there, for an id that
\* had no entry; the id is a file's or a new directory's.
Add(e) ==
    /\ e.dir \in dirs /\ e.name \in Labels /\ e.id \in Ids \ Known
    /\ \A f \in entries : ~(f.dir = e.dir /\ f.name = e.name)
    /\ entries' = entries \cup {e}
    /\ dirs' \in {dirs, dirs \cup {e.id}}

Remove(e) ==
    /\ \A f \in entries : f.dir # e.id
    /\ entries' = entries \ {e}
    /\ dirs' = dirs \ {e.id}

\* The step is looked for among the entries that came or went: there is no
\* other that it could be.
Names_Next ==
    LET old == entries
        new == entries'
    IN  \/ \E e \in new \ old : Add(e)
        \/ \E e \in old \ new : Remove(e)

Names_Spec == Names_Init /\ [][Names_Next]_<<entries, dirs>>
=============================================================================
