SPECIFICATION USpec
CONSTANTS
    hidden = hidden
    base = base
    left = left
    right = right
    mine = mine
    repo = repo
    latest = latest
    old = old
    p1 = p1
    p2 = p2
    addr1 = addr1
    addr2 = addr2
    conn1 = conn1
    conn2 = conn2
    conn3 = conn3
    hostdir = hostdir
    k1 = k1
    k2 = k2
    k3 = k3
    r1 = r1
    r2 = r2
    None = None
    Lost = Lost
    Cont = {p1, p2}
    Config <- VolumeConfigs
    Binds <- HostBinds
    Shipped = {"q", "r"}
    MaxVols = 2
    Addr = {addr1, addr2}
    Conn = {conn1, conn2, conn3}
    Socket = {conn1}
    MaxBytes = 2
    Attacher = {p1}
    MaxLines = 2
    MaxStarts = 2
    Logger = {p1, p2}
    Listener = {addr1}
    MaxEvents = 3
    Repo = {"r1", "r2"}
    Tag = {"t1", "t2"}
    Id = {"i1", "i2"}
    Client = {p1, p2}
    Parts = {"vols", "tags", "push", "images", "build", "udp", "tcp", "attach", "events", "login", "cli", "life", "layers", "changes", "registry", "ps", "names", "queue", "copy", "unix"}
INVARIANTS Typed  ImagesSafe  UDPSafe  ChannelsSafe ClientsSafe AliveIsKnown
PROPERTIES  TagsMapped DataStays
CHECK_DEADLOCK FALSE
