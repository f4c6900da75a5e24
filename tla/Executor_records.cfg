SPECIFICATION FairSpec
CONSTANTS
    e1 = e1
    e2 = e2
    e3 = e3
    executor = executor
    caller = caller
    None = None
    Executor = executor
    Writes <- AllWrites
    Callers = {executor, caller}
    Records = {e1, e2}
    Orphans = {e2}
    WriteQueueMax = 1
    TelemetryQueueMax = 1
    DrainCap = 2
    MaxRetries = 1
    MaxFaults = 2
    MaxRestarts = 1
INVARIANTS
    TypeOK
    RecordAccounted
    NothingAfterClose
PROPERTIES
    DbSpec
    RecordSettles
CHECK_DEADLOCK FALSE
