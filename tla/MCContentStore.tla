--------------------------- MODULE MCContentStore ---------------------------
(***************************************************************************)
(* Small instances of ContentStore.  The two digests share the directory   *)
(* aa and have leaves of their own, so that each put creates directories   *)
(* the other one depends on.                                               *)
(***************************************************************************)
EXTENDS ContentStore, TLC

CONSTANTS p1, p2, i1, i2, i3, i4, c1, c2, d1, d2, leaf1, leaf2, mid

MCDigestOf == [c \in Contents |-> IF c = c1 THEN d1 ELSE d2]
MCSizeOf == [c \in Contents |-> IF c = c1 THEN 1 ELSE 2]
\* Damage that a comparison of lengths cannot see.
MCSameSize == [c \in Contents |-> 1]
MCLeaf == [d \in Digests |-> IF d = d1 THEN leaf1 ELSE leaf2]
MCShardOf == [l \in LeafDirs |-> mid]

Interchangeable == Permutations(Procs) \cup Permutations(Inodes)
=============================================================================
