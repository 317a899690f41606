SPECIFICATION LiveSpec
CONSTANTS
    Proxy = {}
    Rule = {"a", "b"}
    Geo = {}
    AutoApply = FALSE
    Commands = {"boot", "cron"}
    MaxVersion = 2
    MaxEdits = 0
    MaxAttempts = 2
    Faults = {"net"}
PROPERTY RetryHeals
