SPECIFICATION JSpec
CONSTANTS
    None = None
    Jobs = {j1}
    Requests = {q1}
    Keys = {}
    JContents = {"x"}
    JMaxFailures = 1
CHECK_DEADLOCK FALSE
INVARIANT
    ClaimedJobsAreRequeued
