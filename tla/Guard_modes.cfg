SPECIFICATION FairSpec
CONSTANTS
    Triggers = {t1, t2, t3, t4}
    Releases = {r1}
    Faulty = {t4}
    Cancellable = {t1, t2}
    Modes = {"single", "restart", "queued"}
    Cap = 2
    None = None
INVARIANTS
    TypeOK
    TrackedAlone
    QueueNeverStranded
PROPERTIES
    KeepsSerialPromise
    EveryCallEnds
CHECK_DEADLOCK FALSE
