SPECIFICATION USpec
CONSTANTS
    c1 = c1
    c2 = c2
    c3 = c3
    Container = {c1, c2, c3}
    Port = {1, 2, 3, 4}
    PortRangeStart = 2
    PortRangeEnd = 4
    Backend = {"http", "ssh"}
    PortSpecs <- Contended
    Foreign = {4}
    AutoRestart = TRUE
    Fates = {"die"}
    Faults = {"add"}
    MaxRules = 0
    Parts = {"reboot", "ghosts"}
INVARIANTS MappingsExact NoPortLost SavedIsHeld
PROPERTIES PortLease GhostsKept
