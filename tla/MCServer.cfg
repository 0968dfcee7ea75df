CONSTANTS
    a = a
    b = b
    NoOne = NoOne
    Clients = {a, b}
    Servers = {1, 2}
    Tries = 2
    Settings <- MCSettings
    MaxFaults = 1
SPECIFICATION FairSpec
CHECK_DEADLOCK FALSE
INVARIANTS
    SocketStands
    FreshCooker
PROPERTIES
    OneAtATime
    ClientsEnd
    NoServerStays
