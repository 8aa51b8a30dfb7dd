\* The same, without crashes.
SPECIFICATION Spec
CONSTANTS
    admin = admin
    other = other
    Procs = {admin, other}
    Commands <- Everything
    Latest = 3
    Old = 1
    NoProc = NoProc
    MaxWrites = 1
    MaxCrashes = 0
PROPERTIES
    RollsForward
CHECK_DEADLOCK FALSE
