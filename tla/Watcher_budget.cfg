SPECIFICATION Spec
CONSTANTS
    Restarters = {"first", "second", "cooldown", "replaced"}
    ReadyIn = "init"
    MaxFailures = 4
    MixedFailures = 2
    StopFaults = 0
    Intensity = 2
    MaxCycles = 1
    Wave = "after"
    Early = FALSE
INVARIANTS
    RestartsRationed
