SPECIFICATION RSpec
CONSTANTS
    None = None
    Renders = {r1, r2}
    Approvals = {a1, a2}
    MaxVersion = 2
    MaxMixVersion = 2
CHECK_DEADLOCK FALSE
INVARIANT
    LiveRendersAreCurrent
