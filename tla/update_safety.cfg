SPECIFICATION Spec
CONSTANTS
    Proxy = {"pp"}
    Rule = {"rp"}
    Geo = {"geo"}
    AutoApply = TRUE
    Commands = {"boot", "forced", "rp"}
    MaxVersion = 2
    MaxEdits = 0
    MaxAttempts = 2
    Faults = {"net", "write", "apply", "kill", "mirror"}
INVARIANT TypeOK
INVARIANT ReportedIsLoaded
