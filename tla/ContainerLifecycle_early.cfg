SPECIFICATION Spec
CONSTANTS
    Client = {a, b}
    Run = {p, q}
    Codes = {1}
    AutoRestart = FALSE
    Faults = {}
    Windows = {"relock"}
    NoRun = NoRun
    Free = Free
PROPERTIES WaitReturnsItsExitCode
