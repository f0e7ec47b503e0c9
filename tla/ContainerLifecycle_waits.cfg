SPECIFICATION FairSpec
CONSTANTS
    Client = {a, b}
    Run = {p, q}
    Codes = {1}
    AutoRestart = FALSE
    Faults = {"start", "info", "umount", "torn"}
    Windows = {"save", "remove", "launch"}
    NoRun = NoRun
    Free = Free
INVARIANTS WaitLockSound
PROPERTIES WaitReturnsItsExitCode WaitersWoken
