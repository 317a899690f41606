SPECIFICATION Spec
CONSTANTS
    Proxy = {}
    Rule = {"rp"}
    Geo = {}
    AutoApply = TRUE
    Commands = {"cron"}
    MaxVersion = 1
    MaxEdits = 1
    MaxAttempts = 1
    Faults = {}
PROPERTY EditsSurvive
