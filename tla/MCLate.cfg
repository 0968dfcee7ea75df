CONSTANTS
    Tasks <- LateTasks
    Depends <- LateDepends
    Setscene <- LateScene
    Targets <- LateTargets
    HardDepsRev <- LateHard
    NoExec = {}
    NoStamp = {}
    Recipe <- LateRecipe
    NumberTasks = 2
    Class <- LateOwn
    StampBase <- LateOwn
    Hashes = {"u1", "u2"}
    InitUni <- LateUni
    Stamped <- LateStamped
    IgnoreTasks = {}
    CommandLines <- MCPlain
SPECIFICATION Spec
INVARIANTS
    ThreadLimit
    SceneExclusive
    InputsPresent
PROPERTIES
    CoveredStays
