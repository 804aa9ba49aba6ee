CONSTANTS
    Terminal = {till, tablet, kiosk}
    Request = {r1, r2, r3}
    NoRequest = NoRequest
    MaxItems = 4
    MaxClock = 3
    MaxFaults = 2
SYMMETRY Alike
SPECIFICATION Spec
INVARIANTS TypeOK LateComersAreFlagged NothingInvented
CHECK_DEADLOCK FALSE
