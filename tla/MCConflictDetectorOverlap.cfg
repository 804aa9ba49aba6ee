CONSTANTS
    Terminal = {till, tablet, kiosk}
    Request = {r1, r2, r3}
    NoRequest = NoRequest
    MaxItems = 4
    MaxClock = 2
    MaxFaults = 0
SYMMETRY Alike
SPECIFICATION Spec
INVARIANTS DivergentMoneyIsARow
CHECK_DEADLOCK FALSE
