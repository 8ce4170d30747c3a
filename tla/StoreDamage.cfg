SPECIFICATION Spec
CONSTANTS
    p1 = p1  p2 = p2  i1 = i1  i2 = i2  i3 = i3  i4 = i4
    c1 = c1  c2 = c2  d1 = d1  d2 = d2
    leaf1 = leaf1  leaf2 = leaf2  mid = mid  None = None
    Procs = {p1, p2}
    Inodes = {i1, i2, i3}
    Contents = {c1, c2}
    Digests = {d1, d2}
    LeafDirs = {leaf1, leaf2}
    MidDirs = {mid}
    DigestOf <- MCDigestOf
    SizeOf <- MCSameSize
    Leaf <- MCLeaf
    ShardOf <- MCShardOf
    MaxOrphans = 0
    MaxTampered = 1
SYMMETRY Interchangeable
INVARIANTS VerifiedBeforeReuse
PROPERTY KeepsContract
