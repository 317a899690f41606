SPECIFICATION Spec
CONSTANTS
    MaxVersion = 2
    MaxRules = 2
    Scenarios <- MCScenarios
INVARIANTS
    TypeOK
    AppliedMeansLoaded
    ReloadMeansLoaded
    RollbackRestores
    RejectedNeverRuns
