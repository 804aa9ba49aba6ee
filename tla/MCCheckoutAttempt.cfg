CONSTANTS
    first = first
    second = second
    dialog = dialog
    again = again
    Items = Items
    Base = Base
    NoOne = NoOne
    Tap = {first, second}
    Dialog = {dialog, again}
    MaxEpoch = 2
SPECIFICATION Spec
SYMMETRY Alike
INVARIANTS TypeOK OneLiveSalePerBasket CartSoldOnce
CHECK_DEADLOCK FALSE
