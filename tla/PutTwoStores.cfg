SPECIFICATION Spec
CONSTANTS
    first = first  second = second  third = third  other = other
    d1 = d1  d2 = d2  e1 = e1  e2 = e2  e3 = e3  e4 = e4  None = None
    Puts = {first, second, third, other}
    Digests = {d1, d2}
    Ids = {e1, e2, e3, e4}
    Purpose <- MCPurpose
SYMMETRY Interchangeable
INVARIANTS EventsNameStoredBlobs ResultTruth ObservedOnce
