SPECIFICATION USpec
CONSTANTS
    u1 = u1
    u2 = u2
    a1 = a1
    a2 = a2
    i1 = i1
    i2 = i2
    x = x
    y = y
    m1 = m1
    m2 = m2
    n1 = n1
    n2 = n2
    q1 = q1
    q2 = q2
    None = None
    Msg = {m1, m2}
    Kind <- Kinds
    MaxEnqueues = 2
    MaxStops = 1
    MaxExpiries = 1
    MaxChanges = 1
    Instance = {i1, i2}
    App = {a1, a2}
    Unit = {x, y}
    Var = {"host", "user"}
    Vars <- VarsOf
    MaxOps = 8
    MaxUnits = 2
    Patient = TRUE
    Prompt = TRUE
    Blank = "blank"
    Req = {q1, q2}
    Person = {u1, u2, m1}
    Team = {i1, i2}
    Members <- MembersOf
    Owners <- OwnersOf
    Holder = {u1}
    Key = {m1, m2}
    Limit = 2
    TeamOps = 3
    AccountOps = 5
    AppName = {"a", "b"}
    AppUser = {u1, u2}
    Slot = {"x", "y", "z"}
    FewSlots = {"x", "y"}
    UserLimit <- Limits
    UnitLimit = 3
    AppOps = 4
    RaceOps = 2
    Parts = {"bind"}
INVARIANTS AllUnitsFollow
CHECK_DEADLOCK FALSE
