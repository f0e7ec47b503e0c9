SPECIFICATION USpec
CONSTANTS
    base = base
    left = left
    repo = repo
    latest = latest
    p1 = p1
    p2 = p2
    addr1 = addr1
    addr2 = addr2
    conn1 = conn1
    conn2 = conn2
    None = None
    Lost = Lost
    Image = {base, left}
    ParentOf <- Chain
    Push = {p1, p2}
    Tag = {latest}
    MaxPushes = 3
    Local <- Here
    Parts = {"push", "images", "udp", "tcp", "attach", "queue", "unix", "clouds"}
 
PROPERTIES IndexGrows JobsEnd ConnectionsEnd
CHECK_DEADLOCK FALSE
