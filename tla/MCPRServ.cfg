CONSTANTS
    Conns = {a, b}
    Checksums = {1, 2, 3}
    Histories <- MCBoth
    Setups <- MCSetups
    MaxUpstream = 2
SPECIFICATION Spec
CHECK_DEADLOCK FALSE
SYMMETRY MCConns
INVARIANTS
    NeverDecremented
    OneOutputPerValue
    HistoryStable
PROPERTIES
    FreshIsNew
