CONSTANTS
    t1 = t1
    t2 = t2
    good = good
    bad = bad
    None = None
    Empty = Empty
    Tasks = {t1, t2}
    Contents = {good, bad}
    Recipes <- Same
    Mirrors <- FileMirror
    MaxCalls <- CallsOf
    MaxDeaths = 1
SPECIFICATION Spec
CHECK_DEADLOCK FALSE
INVARIANT AlwaysVerified
