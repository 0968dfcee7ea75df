CONSTANTS
    Tasks <- ChainTasks
    Depends <- ChainDepends
    Setscene <- ChainScene
    Targets <- ChainTargets
    HardDepsRev <- ChainHard
    NoExec = {"image"}
    NoStamp = {}
    Recipe <- ChainRecipe
    NumberTasks = 2
    Class <- ChainOwn
    StampBase <- ChainOwn
    Hashes = {"u1", "u2"}
    InitUni <- ChainUni
    Stamped <- ChainOld
    IgnoreTasks = {"image", "b_comp", "b_pack"}
    CommandLines <- MCChainLines
SPECIFICATION FairSpec
INVARIANTS
    NothingLeft
    ForcedRun
PROPERTIES
    Terminates
