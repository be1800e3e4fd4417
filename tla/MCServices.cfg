SPECIFICATION MCSpec
CONSTANTS
    None = "None"
    Jobs = {"j1", "j2"}
    Keys = {"key"}
    Requests = {"q1", "q2"}
    JContents = {"x", "y"}
    JMaxFailures = 1
    PSizes = {1}
    PMaxVersion = 2
    PMaxRequests = 2
    PMaxFaults = 1
    PContents = {1, 2}
    Deliveries = {1, 2}
    DMaxAttempts = 2
    DMaxFaults = 1
    Syncs = {1, 2}
    SMaxAttempts = 2
    SMaxFaults = 1
    MPlans = {1, 2}
    MItems = {1, 2, 3}
    MPlanOf <- MCPlanOf
    MReusing = {1, 2}
    MCandidates = {1}
    MOwned = TRUE
    MMaxFaults = 1
    HResponses <- MCResponses
    HLength = 7
    HTolerance = 2
    GRequests <- MCRequests
    GSightings <- MCSightings
    GUsages <- MCUsages
    GWidth = 4000
    VCuts <- MCCuts
    VAssets <- MCAssets
    VOffers <- MCOffers
    VMixes <- MCMixes
    VSpeech = {70, 960, 1400}
    VMisfits <- MCMisfits
    VFaults <- MCFaults
    VRequests <- MCPosts
    UPriorities <- MCPriorities
    UScenes <- MCScenes
    UPrices <- MCPrices
    UCeilings = {0, 50, 100}
    UFinds <- MCFinds
    LMetricSets <- MCMetricSets
    LViews = {0, 400, 5000}
    LHours = {3, 24}
    LValues <- MCValues
    LFeatures <- MCFeatures
CHECK_DEADLOCK FALSE
INVARIANTS
    TypesHold
    NothingForgotten
    AttemptsAreCounted
    PreviewsAreCurrent
    MediaIsAccounted
    JobsAreSingle
    TranscriptsAreFaithful
    DeliverablesHold
    ChoicesHold
PROPERTIES
    SettledStays
    OutboxesImplemented
