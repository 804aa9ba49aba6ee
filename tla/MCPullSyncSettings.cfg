SPECIFICATION Spec
CONSTANTS
    sale = sale
    refund = refund
    adjust = adjust
    void = void
    value1 = value1
    value2 = value2
    NoKey = NoKey
    Item = {6, 7}
    Mutation = {value1, value2}
    Created <- MCCreated
    Describes <- MCDescribes
    EffectKey <- MCEffectKey
    Mine <- MCMine
    Stamped <- MCStamped
    Probed <- MCProbed
    FilterOwn = FALSE
    PageSize = 1
    MaxAttempts = 2
    InOrderPush = TRUE
    MaxRequeue = 1
    MaxFaults = 1
INVARIANT LedgerSkipsOnlyPerformed
