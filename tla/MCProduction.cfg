SPECIFICATION Spec
CONSTANTS
    r1 = r1
    r2 = r2
    r3 = r3
    a1 = a1
    a2 = a2
    None = None
    Renders <- MCRenders
    Approvals <- MCApprovals
    MaxVersion = 2
    MaxMixVersion = 2
SYMMETRY MCSymmetry
CHECK_DEADLOCK FALSE
INVARIANTS
    TypeOK
    LiveRendersAreCurrent
    ApprovalsHold
    FinalRendersAreApproved
PROPERTY
    DeadRendersStayDead
