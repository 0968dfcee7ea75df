CONSTANTS
    Conns = {a, b}
    Hashes = {h1, h2}
    Outhashes = {o1, o2}
    Marks = {m1}
    Upstreams = {TRUE, FALSE}
    None = None
    Budgets <- MCBudgets
SPECIFICATION Spec
CHECK_DEADLOCK FALSE
INVARIANTS
    ReportStands
    Converged
    WaitMeansLocal
PROPERTIES
    SweepKeeps
