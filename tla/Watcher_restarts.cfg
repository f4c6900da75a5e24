SPECIFICATION FairSpec
CONSTANTS
    Restarters = {"first", "second", "cooldown", "replaced"}
    ReadyIn = "serve"
    MaxFailures = 5
    MixedFailures = 2
    StopFaults = 1
    Intensity = 1
    MaxCycles = 1
    Wave = "after"
    Early = TRUE
INVARIANTS
    TypeOK
    RestartsSound
    RestartsRationed
PROPERTIES
    FailureActedOn
    TeardownEnds
