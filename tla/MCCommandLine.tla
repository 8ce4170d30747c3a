--------------------------- MODULE MCCommandLine ---------------------------
(***************************************************************************)
(* Every three commands, with two digests and two ids.                     *)
(***************************************************************************)
EXTENDS CommandLine, TLC

Interchangeable == Permutations(Runs) \cup Permutations(Ids) \cup Permutations(Digests)
=============================================================================
