CONSTANTS
    NumTasks = 2
    Halt = TRUE
    MaxEvents = 1
    PipeSize = 1
    Faults = {"fork", "worker", "server"}
SPECIFICATION FairSpec
INVARIANTS
    EventsFirst
    ReportedOnce
    TrueSuccess
PROPERTIES
    CommandsWritten
    TasksStop
    EndsReported
