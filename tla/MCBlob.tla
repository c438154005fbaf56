------------------------------- MODULE MCBlob -------------------------------
(* Blob for TLC.  Byte values and rowids are only ever copied and         *)
(* compared, so runs that permute either are the same run.               *)
EXTENDS Blob, TLC, Functions

Symmetry == {p @@ q : p \in Permutations(Vals), q \in Permutations(Rows)}

\* States after a stray access are checked but not extended: stray guards
\* no action, so their successors repeat those of the same state before
\* it, and past it JavaSeesRead and ColumnBlobIsRow promise nothing.
BeforeStray == ~stray
=============================================================================
