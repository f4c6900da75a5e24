SPECIFICATION FairSpec
CONSTANTS
    Apps = {"lamp"}
    Requests = {"first"}
    None = None
    MaxEdits = 2
INVARIANTS
    TypeOK
    ConfigFollowed
    LiveIsKnown
    EveryAppStopped
PROPERTIES
    CallsEnd
CHECK_DEADLOCK FALSE
