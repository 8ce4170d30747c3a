SPECIFICATION FairSpec
CONSTANTS
    p1 = p1  p2 = p2  i1 = i1  i2 = i2  i3 = i3  i4 = i4
    c1 = c1  c2 = c2  d1 = d1  d2 = d2
    leaf1 = leaf1  leaf2 = leaf2  mid = mid  None = None
    Procs = {p1}
    Inodes = {i1, i2, i3}
    Contents = {c1}
    Digests = {d1}
    LeafDirs = {leaf1}
    MidDirs = {mid}
    DigestOf <- MCDigestOf
    SizeOf <- MCSizeOf
    Leaf <- MCLeaf
    ShardOf <- MCShardOf
    MaxOrphans = 1
    MaxTampered = 1
PROPERTY RetrySucceeds
