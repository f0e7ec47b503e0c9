CONSTANTS
    Size = 6
    OwnIP = 3
    Container = {c1, c2}
    AutoRestart = FALSE
    Fates = {"die"}
    Faults = {}
SPECIFICATION Spec
INVARIANTS UniqueIP
