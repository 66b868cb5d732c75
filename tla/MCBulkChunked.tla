--------------------------- MODULE MCBulkChunked ----------------------------
(* Instances of BulkChunked for TLC. *)
EXTENDS BulkChunked

\* Nothing, less than a chunk, a full one and one more, and two and a half.
SomeTotals == {0, 1, 3, 4}
=============================================================================
