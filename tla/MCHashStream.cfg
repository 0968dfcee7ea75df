CONSTANTS
    NumQueries = 5
    PipeSize = 1
    QueueSize = 1
    Retries = 1
    Upstreams = {TRUE, FALSE}
SPECIFICATION FairSpec
CHECK_DEADLOCK FALSE
INVARIANTS
    Answered
PROPERTIES
    Completes
