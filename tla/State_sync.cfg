SPECIFICATION FairSpec
CONSTANTS
    x = x
    s1 = s1
    s2 = s2
    r1 = r1
    r2 = r2
    None = None
    Entities = {x}
    Syncs = {s1, s2}
    Retries = {r1, r2}
    Environments <- Everything
INVARIANTS
    TypeOK
    OneSynchronization
    FreshMatches
PROPERTIES
    CommitsOnlyConnected
    BecomesFresh
CHECK_DEADLOCK FALSE
