--------------------------- MODULE MCArtifactPut ---------------------------
(***************************************************************************)
(* A put, two retries, and an unrelated put, over two digests.             *)
(***************************************************************************)
EXTENDS ArtifactPut, TLC

CONSTANTS first, second, third, other, d1, d2, e1, e2, e3, e4

MCPurpose == [p \in Puts |-> IF p = other THEN other ELSE first]

Interchangeable == Permutations(Puts \ {other}) \cup Permutations(Digests) \cup Permutations(Ids)
=============================================================================
