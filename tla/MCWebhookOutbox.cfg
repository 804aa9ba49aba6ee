CONSTANTS
    first = first
    again = again
    sale = sale
    refund = refund
    setting = setting
    books = books
    east = east
    west = west
    Request = {first, again}
    Item = {sale, refund, setting}
    Endpoint = {books}
    Server = {east, west}
    Batch <- MCBatch
    Wanted <- MCWanted
    MaxAttempts = 2
    BatchSize = 1
    MaxFaults = 1
SPECIFICATION FairSpec
INVARIANTS TypeOK FanoutIsExact DeadLetterWasTried
PROPERTIES SettledStays EventuallySettled
CHECK_DEADLOCK FALSE
