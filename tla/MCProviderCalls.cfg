SPECIFICATION CallsSpec
CONSTANTS
    z1 = z1
    z2 = z2
    c1 = c1
    c2 = c2
    c3 = c3
    Calls <- MCCalls
    NumOps = 3
    SingleDispatch = {3}
    Circuits = {z1, z2}
    CircuitOf <- MCCircuitOf
    Estimate <- MCEstimate
    Reported = {1}
    MaxAttempts = 2
    MaxConcurrent = 2
    FailureThreshold = 2
    OperationLimit = 4
    DailyLimit = 4
    WindowLimit = 4
    MaxDay = 2
    LeaseHolds = TRUE
    MaxFaults = 1
SYMMETRY MCSymmetry
CHECK_DEADLOCK FALSE
INVARIANTS
    SentAsReserved
    WithinDailyLimit
    ChargesMatchAttempts
    BooksAddUp
    ProbesAreOpen
PROPERTY
    OutcomesStay
