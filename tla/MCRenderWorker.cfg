SPECIFICATION WSpec
CONSTANTS
    r1 = r1
    r2 = r2
    a1 = a1
    x = x
    y = y
    None = None
    Renders <- MCRenders
    Approvals <- MCApprovals
    Contents <- MCContents
    MaxVersion = 2
    MaxMixVersion = 1
    MaxCrashes = 1
SYMMETRY MCSymmetry
CHECK_DEADLOCK FALSE
INVARIANTS
    NoRenderForgotten
    CompletedOutputIsRegistered
PROPERTY
    Spec
