SPECIFICATION Spec
CONSTANTS
    Conns = {a}
    Checksums = {1, 2}
    Histories <- MCNoHistory
    Setups <- MCNine
    MaxUpstream = 0
CHECK_DEADLOCK FALSE
INVARIANT NeverDecremented
