CONSTANTS
    Procs = {p1, p2}
    Inodes = {i1, i2}
    NoInode = NoInode
SPECIFICATION FairSpec
INVARIANTS
    TypeOK
    MutualExclusion
    UnlinksOwnFile
PROPERTIES
    SomeCallerLocks
