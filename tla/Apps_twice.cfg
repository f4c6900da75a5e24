SPECIFICATION Spec
CONSTANTS
    Apps = {"lamp"}
    Requests = {"first"}
    None = None
    MaxEdits = 0
INVARIANT NoneReplaced
CHECK_DEADLOCK FALSE
