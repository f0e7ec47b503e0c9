SPECIFICATION Spec
CONSTANTS
    Client = {a, b}
    Run = {p, q}
    Codes = {1}
    AutoRestart = TRUE
    Faults = {"start"}
    Windows = {}
    NoRun = NoRun
    Free = Free
INVARIANTS WaitLockFollows
