SPECIFICATION Spec
CONSTANTS
    ra = ra
    rb = rb
    rx = rx
    TTL = 2
    Casts <- MCCasts
    Strategies = {s1, s2}
    MaxSessions = 2
    MaxSwitches = 1
    Releases = {r1, r2}
    Working = {r1}
    Installers = {cron, user}
    Overlaps = {FALSE}
    c1 = c1
    c2 = c2
    h1 = h1
    h2 = h2
    Clients = {c1, c2}
    From <- MCFrom
    Hosts = {h1, h2}
    Addresses = {ip1, ip2}
    Squatted = {ip2}
    Movers = {h1}
    Endpoints = {e1}
    MaxAttempts <- MCAttempts
INVARIANTS
    TypeOK
    StrategyAskedFor
    StoppedIsClean
    ReleaseCannotBrick
PROPERTIES
    OnlyAbsentDropped
    MeshSettles
    SessionEnds
    UpdateArrives
    DownloadsRecover
CHECK_DEADLOCK FALSE
