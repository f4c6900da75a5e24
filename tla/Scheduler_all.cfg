SPECIFICATION FairSpec
CONSTANTS
    a = a
    b = b
    c = c
    d = d
    row1 = row1
    row2 = row2
    None = None
    WAITING = WAITING
    Jobs = {a, b, c, d}
    Rows = {row1, row2}
    RowOf <- ThreeShareARow
    Guarded = {c}
    Tasks = {1, 2, 3}
    MaxTime = 2
    MinDelay = 1
    MaxDelay = 2
    DefaultDelay = 2
    Scenarios <- Everything
INVARIANTS
    TypeOK
    HeapSound
    SleepNeverPastDue
    RegistrationsAgree
PROPERTIES
    DueFires
CHECK_DEADLOCK FALSE
