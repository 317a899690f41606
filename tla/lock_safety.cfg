SPECIFICATION Spec
CONSTANTS
    Callers = {c1, c2, c3}
    NoOne = NoOne
    Wholesale = {"update", "apply"}
    Named = {"update-rule-provider"}
    Observers = {"proxy-guard"}
    BgCommand = "update"
    NoCommand = "none"
    CoalesceCap = 2
    MaxPolls = 1
    Faults = {"fn", "kill"}
SYMMETRY AnyCaller
INVARIANTS
    TypeOK
    RequestIsRemembered
    OkMeansCovered
PROPERTY
    ImplementsService
