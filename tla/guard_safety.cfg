SPECIFICATION Spec
CONSTANTS
    Node = {1, 2, 3}
    Group = {"all"}
    Pool <- OneGroup
    MinMembers = 2
    MaxProbes = 2
    Active = 1
    TTL = 1
    Fleet = 2
    Cooldown = 1
    Windows = {"stable", "unstable"}
    Throttled = {1}
    Steady = {3}
    Volatile = {3}
    Env = {"apply", "reset", "upgrade", "reboot"}
    Faults = {"sweep", "reload", "cut"}
INVARIANTS
    TypeOK
    FloorKept
    RoutingFollowsState
    FleetSlotIsUsed
    QuarantineHasWitness
