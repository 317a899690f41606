SPECIFICATION LiveSpec
CONSTANTS
    Node = {1, 2}
    Group = {"all"}
    Pool <- OneGroup
    MinMembers = 1
    MaxProbes = 3
    Active = 1
    TTL = 1
    Fleet = 2
    Cooldown = 1
    Windows = {"stable"}
    Throttled = {1}
    Steady = {2}
    Volatile = {}
    Env = {}
    Faults = {}
PROPERTY ThrottledIsQuarantined
