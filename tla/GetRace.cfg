SPECIFICATION Spec
CHECK_DEADLOCK FALSE
CONSTANTS
    fileA = fileA  fileB = fileB  stream = stream  d1 = d1  out = out  None = None
    Gets = {fileA, fileB, stream}
    Blob <- MCBlob
    Dest <- MCDest
INVARIANTS TypeOK PublishedVerified SuccessKept StagingRemoved
PROPERTY NeverClobbered
