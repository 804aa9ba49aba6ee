CONSTANTS
    once = once
    twice = twice
    MaxTap = 2
    MaxSeq = 1
    Delivery = {once, twice}
    MaxFaults = 1
SPECIFICATION FairSpec
INVARIANTS TypeOK ShownIsJournaled CompletedWasPaid NoPaymentDropped
PROPERTIES HonoursContract PaidIsSettled
CHECK_DEADLOCK FALSE
