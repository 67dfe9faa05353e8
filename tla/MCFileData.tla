----------------------------- MODULE MCFileData ------------------------------
(* Small instances of FileData for TLC.                                    *)
EXTENDS FileData

Span(o, n) == [offset |-> o, size |-> n]

\* All of a file, the end of one block and the start of the next, the last byte
\* and one past it, and a range past the last block.
Ranges == {Span(0, 4), Span(1, 2), Span(3, 2), Span(4, 1)}

\* Nothing, an end within a block, one between blocks, one past the last block.
Ends == {0, 1, 2, 5}
=============================================================================
