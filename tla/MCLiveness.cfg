SPECIFICATION MCSpec
CONSTANTS
    Wrappers = {1, 2}
    XFrom = 0
    XUntil = 2
    XHorizon = 2
    XMaxActivations = 1
    XMaxFaults = 1
    None = "None"
    Renders = {"r1"}
    Jobs = {"j1"}
    Requests = {"q1"}
    PSizes = {1}
    PMaxVersion = 1
    PMaxRequests = 2
    PMaxFaults = 1
    PContents = {1}
    Deliveries = {1}
    DMaxAttempts = 2
    DMaxFaults = 2
    Syncs = {1}
    SMaxAttempts = 2
    SMaxFaults = 2
    MPlans = {1}
    MItems = {1, 2}
    MPlanOf <- MCPlanOf
    MReusing = {1}
    MCandidates = {1}
    MOwned = TRUE
    MMaxFaults = 1
CHECK_DEADLOCK FALSE
PROPERTIES
    PipelinesSettle
    QueuesSettle
    RoleCloses
