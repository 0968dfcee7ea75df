CONSTANTS
    t1 = t1
    t2 = t2
    good = good
    bad = bad
    None = None
    Empty = Empty
    Tasks = {t1, t2}
    Contents = {good, bad}
    Recipes <- SameOrOwn
    Mirrors <- AnyMirrors
    MaxCalls <- CallsOf
    MaxDeaths = 1
SPECIFICATION FairSpec
CHECK_DEADLOCK FALSE
INVARIANTS
    SuccessIsGood
PROPERTIES
    UnpackStable
    CallsEnd
