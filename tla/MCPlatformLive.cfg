SPECIFICATION USpec
CONSTANTS
    m1 = m1
    None = None
    Unit = {1}
    MaxBoots = 2
    MaxBreaks = 2
    Faults = {}
    Calm = TRUE
    Parts = {"healers", "queue", "juju"}
PROPERTIES AllServed
CHECK_DEADLOCK FALSE
