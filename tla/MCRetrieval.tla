---------------------------- MODULE MCRetrieval ----------------------------
(***************************************************************************)
(* Two gets racing for one destination, and a third that streams; all of   *)
(* one blob.                                                               *)
(***************************************************************************)
EXTENDS Retrieval, TLC

CONSTANTS fileA, fileB, stream, d1, out

MCBlob == [g \in Gets |-> d1]
MCDest == [g \in Gets |-> IF g = stream THEN None ELSE out]
=============================================================================
