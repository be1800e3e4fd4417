SPECIFICATION MCSpec
CONSTANTS
    CBases <- MCBases
    CMaxChanges = 0
    Wrappers = {1, 2}
    XFrom = 0
    XUntil = 2
    XHorizon = 2
    XMaxActivations = 2
    XMaxFaults = 1
    Handlers = {}
    BKeys = {1}
    Payloads = {1}
    BMaxCalls = 0
    BMaxFaults = 0
    UParts = {1}
    UContents = {1, 2}
    UWriters = {}
    UCompleters = {}
    UExpected <- MCExpected
    AEdits = {"e"}
    AVisions = {"v"}
    ABase <- MCBase
    ARequests = {}
    AMaxCalls = 0
    AMaxFaults = 0
    TSignals = {}
    TTopic <- MCTopic
    TTokens <- MCTokens
    TThreshold = 20
    TScoreOf <- MCScoreOf
    TBase <- MCScores
    TPerCluster = 1
    TTopN = 2
    TRefreshers = {}
    TMaxAsked = 0
    TMaxRefreshes = 0
    PfCallers = {}
    PfSlugs = {"job"}
    PfIdeas = {"idea"}
    PfOperations = {"op"}
    PfMaxCalls = 0
    EEnd = 12
    EAnalyses <- MCAnalyses
    EMinSilence = 2
    Editors = {}
    ETimes = {1}
    EMaxVersions = 3
    EMaxRequests = 0
    WCalls = {1, 2, 3}
    WKind <- MCKind
    WKey <- MCKey
    WPolicies <- MCPolicies
    WConcurrent = 2
    WDaily = 4
    WThreshold = 1
    WCooldown = 1
    WDay = 3
    WHorizon = 3
    WJobCalls = 2
CHECK_DEADLOCK FALSE
INVARIANT
    CutsSpareSpeech
