SPECIFICATION MCSpec
CONSTANTS
    r1 = r1
    r2 = r2
    a1 = a1
    k1 = k1
    p1 = p1
    None = None
    Renders <- MCRenders
    Approvals = {a1}
    Keys = {k1}
    Publishers = {p1}
    MaxVersion = 2
    MaxMixVersion = 2
    MaxPublishCalls = 2
SYMMETRY MCSymmetry
CHECK_DEADLOCK FALSE
INVARIANTS
    PublicationsAreSafe
    LiveRendersMatchPackage
