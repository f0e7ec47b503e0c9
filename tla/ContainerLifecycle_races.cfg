SPECIFICATION FairSpec
CONSTANTS
    Client = {a, b}
    Run = {p, q}
    Codes = {1}
    AutoRestart = TRUE
    Faults = {"start"}
    Windows = {"exit", "save", "wake", "remove", "relock", "launch", "register"}
    NoRun = NoRun
    Free = Free
INVARIANTS OneMonitor
PROPERTIES RequestsAnswered
