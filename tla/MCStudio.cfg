SPECIFICATION MCSpec
CONSTANTS
    CBases <- MCBases
    CMaxChanges = 2
    Wrappers = {1, 2}
    XFrom = 0
    XUntil = 2
    XHorizon = 2
    XMaxActivations = 2
    XMaxFaults = 1
    Handlers = {1, 2}
    BKeys = {1, 2}
    Payloads = {1, 2}
    BMaxCalls = 3
    BMaxFaults = 1
    UParts = {1}
    UContents = {1, 2}
    UWriters = {1, 2}
    UCompleters = {1, 2}
    UExpected <- MCExpected
    AEdits = {"e"}
    AVisions = {"v"}
    ABase <- MCBase
    ARequests = {1, 2}
    AMaxCalls = 4
    AMaxFaults = 2
    TSignals = {1, 2, 3}
    TTopic <- MCTopic
    TTokens <- MCTokens
    TThreshold = 20
    TScoreOf <- MCScoreOf
    TBase <- MCScores
    TPerCluster = 1
    TTopN = 2
    TRefreshers = {1, 2}
    TMaxAsked = 1
    TMaxRefreshes = 2
    PfCallers = {1, 2}
    PfSlugs = {"job"}
    PfIdeas = {"idea"}
    PfOperations = {"op"}
    PfMaxCalls = 3
    EEnd = 12
    EAnalyses <- MCAnalyses
    EMinSilence = 2
    Editors = {1, 2}
    ETimes = {1}
    EMaxVersions = 3
    EMaxRequests = 2
    WCalls = {1, 2, 3}
    WKind <- MCKind
    WKey <- MCKey
    WPolicies <- MCPolicies
    WConcurrent = 2
    WDaily = 4
    WThreshold = 1
    WCooldown = 1
    WDay = 3
    WHorizon = 3
    WJobCalls = 2
CHECK_DEADLOCK FALSE
INVARIANTS
    TypesHold
    OneDraftPerRequest
    AutoEditIsAccounted
    QueueRunsAgree
    RowsAreSingle
    TimelinesKeepWhatPlays
    CallsAreToldTruly
    PlaneIsTold
    WiringIsGated
PROPERTY
    EndedStays
