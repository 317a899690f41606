SPECIFICATION LiveSpec
CONSTANTS
    Proxy = {"pp"}
    Rule = {"rp"}
    Geo = {"geo"}
    AutoApply = TRUE
    Commands = {"cron", "rp"}
    MaxVersion = 2
    MaxEdits = 1
    MaxAttempts = 1
    Faults = {"net", "apply", "kill"}
INVARIANT NotModifiedIsCurrent
PROPERTY RetryHeals
