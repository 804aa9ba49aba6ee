SPECIFICATION FairSpec
CONSTANTS
    sale = sale
    refund = refund
    adjust = adjust
    void = void
    value1 = value1
    value2 = value2
    NoKey = NoKey
    Item = {1, 2, 3, 5}
    Mutation = {sale, refund, adjust, void}
    Created <- MCCreated
    Describes <- MCDescribes
    EffectKey <- MCEffectKey
    Mine <- MCMine
    Stamped <- MCStamped
    Probed <- MCProbed
    FilterOwn = FALSE
    PageSize = 2
    MaxAttempts = 2
    InOrderPush = TRUE
    MaxRequeue = 1
    MaxFaults = 1
INVARIANTS TypeOK AtMostOnce NoSkip LedgerSkipsOnlyPerformed
PROPERTIES DeliversEffectsOnce EventuallySettled
