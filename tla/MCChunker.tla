----------------------------- MODULE MCChunker -----------------------------
(***************************************************************************)
(* Every document of up to two short pages, with segments from one token   *)
(* to more than two chunks long.                                           *)
(***************************************************************************)
EXTENDS Chunker

Lengths == {1, 2, 3, 4, 5, 9}
UpTo(n) == UNION {[1 .. k -> Lengths] : k \in 0 .. n}

\* Inside short segments, and where windows of a long one end and begin.
MCBlanks == {{}, {2}, {2, 5, 6, 7, 8}}

MCDocuments == {<<p>> : p \in UpTo(4)} \cup UNION {[1 .. k -> UpTo(1)] : k \in 0 .. 2}

=============================================================================
