SPECIFICATION CallsSpec
CONSTANTS
    z1 = z1
    z2 = z2
    c1 = c1
    c2 = c2
    c3 = c3
    Calls <- MCCalls
    NumOps = 3
    SingleDispatch = {3}
    Circuits = {z1, z2}
    CircuitOf <- MCCircuitOf
    Estimate <- MCEstimate
    Reported = {1}
    MaxAttempts = 2
    MaxConcurrent = 2
    FailureThreshold = 2
    OperationLimit = 4
    DailyLimit = 5
    WindowLimit = 5
    MaxDay = 1
    LeaseHolds = TRUE
    MaxFaults = 1
CHECK_DEADLOCK FALSE
INVARIANT
    CeilingsHold
