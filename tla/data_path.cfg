SPECIFICATION Spec
CONSTANTS
    SafeNames = {"a"}
    OtherNames = {}
    Strategies = {"s1"}
    Misread <- MCMisread
    Macs = {"m1"}
    StartFiles <- MCStartFiles
    Overlap = FALSE
    MaxSaves = 2
    PanelUrls = {"p1", "p2"}
    PanelAnswers <- MCAnswers
    NativeLists = {"n1"}
    MaxEdits = 3
    Lists <- MCLists
    Names <- MCNames
    WordBits = 3
    V4Bits = 2
    BitmapWord = 4
    RuleLists <- MCRuleLists
    RuleSections <- MCRuleSections
    Content <- MCContent
    Settings <- MCSettings
    ChangesMeanwhile = {TRUE, FALSE}
    Routers <- MCRouters
    Mixins <- MCMixins
    GuardStates <- MCGuardStates
    NodesOf <- MCNodesOf
    Configs <- MCConfigs
    Packets <- MCPackets
    Commands = {c1, c2}
    Statuses = {ok, bad}
    MaxEvents = 2
SYMMETRY Symmetric
INVARIANTS
    TypeOK
    ListIsRead
    OutputIsCurrent
    Dispatched
    NoProxyLoop
    RoutesAreSound
    ReportIsRight
PROPERTIES
    RewriteIsFaithful
    OwnWritesLoad
    DecisionsSurvive
    RefreshSettles
CHECK_DEADLOCK FALSE
