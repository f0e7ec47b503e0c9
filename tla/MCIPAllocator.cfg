SPECIFICATION USpec
CONSTANTS
    c1 = c1
    c2 = c2
    c3 = c3
    Size = 6
    OwnIP = 1
    Container = {c1, c2, c3}
    AutoRestart = TRUE
    Fates = {"die"}
    Faults = {"ports"}
    Parts = {"reboot", "ghosts", "every"}
INVARIANTS UniqueIP ErrorMeansFull NothingLost
PROPERTIES LeaseSpec EveryAnswered
