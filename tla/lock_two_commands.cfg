SPECIFICATION Spec
CONSTANTS
    Callers = {c1, c2}
    NoOne = NoOne
    Wholesale = {"update", "apply"}
    Named = {}
    Observers = {}
    BgCommand = "update"
    NoCommand = "none"
    CoalesceCap = 2
    MaxPolls = 2
    Faults = {}
INVARIANT OkMeansServed
