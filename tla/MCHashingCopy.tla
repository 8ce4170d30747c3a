--------------------------- MODULE MCHashingCopy ---------------------------
(***************************************************************************)
(* A counter of four bits, sources shorter and longer than it counts.      *)
(***************************************************************************)
EXTENDS HashingCopy

MCLengths == 0..9
=============================================================================
