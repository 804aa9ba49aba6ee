CONSTANTS
    first = first
    second = second
    dialog = dialog
    again = again
    Items = Items
    Base = Base
    NoOne = NoOne
    Tap = {first, second}
    Dialog = {}
    MaxEpoch = 2
SPECIFICATION Spec
INVARIANT OneLiveSalePerAttempt
CHECK_DEADLOCK FALSE
