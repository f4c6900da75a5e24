SPECIFICATION Spec
CONSTANTS
    MaxBoots = 1
    MaxCrashes = 0
    Inline = TRUE
INVARIANTS
    FatalRecorded
