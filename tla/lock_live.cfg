SPECIFICATION PollingSpec
CONSTANTS
    Callers = {c1, c2}
    NoOne = NoOne
    Wholesale = {"update"}
    Named = {"update-rule-provider"}
    Observers = {"proxy-guard"}
    BgCommand = "update"
    NoCommand = "none"
    CoalesceCap = 2
    MaxPolls = 1
    Faults = {"fn", "kill", "touch"}
PROPERTIES
    QueueIsLeft
    HolderLetsGo
