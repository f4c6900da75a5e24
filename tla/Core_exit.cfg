SPECIFICATION FairSpec
CONSTANTS
    MaxBoots = 2
    MaxCrashes = 2
    Inline = TRUE
INVARIANTS
    TypeOK
    TeardownRecorded
    OneRunningSession
PROPERTIES
    FailureSticks
    EveryShutdownEnds
