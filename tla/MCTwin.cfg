CONSTANTS
    Tasks <- TwinTasks
    Depends <- TwinDepends
    Setscene <- TwinScene
    Targets <- TwinTargets
    HardDepsRev <- TwinHard
    NoExec = {}
    NoStamp = {}
    Recipe <- TwinRecipe
    NumberTasks = 2
    Class <- TwinClass
    StampBase <- TwinClass
    Hashes = {"u1", "u2"}
    InitUni <- TwinUni
    Stamped <- TwinStamped
    IgnoreTasks = {}
    CommandLines <- MCStops
SPECIFICATION Spec
INVARIANTS
    DepsFirst
    Drained
    SanityHolds
    Disjoint
PROPERTIES
    KeepsPromise
