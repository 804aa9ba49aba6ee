CONSTANTS
    sale = sale
    refund = refund
    adjust = adjust
    daemon = daemon
    retry = retry
    syncNow = syncNow
    globalDb = globalDb
    storeDb = storeDb
    Mutation = {sale, adjust}
    Lanes <- MCLanes
    TxDb = storeDb
    EventDb = globalDb
    Pusher = {daemon, retry, syncNow}
    Reads <- MCReads
    Keeps <- OnlyDaemon
    Daemon <- OnlyDaemon
    MaxFaults = 2
    MaxDeletes = 1
SPECIFICATION FairSpec
INVARIANTS TypeOK SyncedIsHeld NotStranded
PROPERTIES HonoursContract QueuedReachesServer
CHECK_DEADLOCK FALSE
