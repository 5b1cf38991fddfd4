----------------------------- MODULE MCMemState -----------------------------
(***************************************************************************)
(* Four bytes of memory across the boundary of a chunk.                    *)
(***************************************************************************)
EXTENDS MemState

(* Chunks of 4, cells of 2: of the two-byte ranges, 1..2 crosses a cell,   *)
(* 2..3 fits and 3..4 crosses the chunk.                                   *)
PairAddr == 1 .. 4

(* Chunks of 6, cells of 3: of the three-byte ranges, 3..5 fits, so a list *)
(* may have a hole in the middle, and 4..6 crosses the chunk.              *)
TripleAddr == 3 .. 6
=============================================================================
