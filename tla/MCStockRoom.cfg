CONSTANTS
    Main = main
    Location = {main, back}
    Bound = {main}
    Legacy = 1
    Transfer = {t}
    Count = {c}
    Order = {o}
    MaxUnits = 2
    MaxTrade = 2
SPECIFICATION Spec
INVARIANTS TypeOK GoodsAccounted CacheIsLedger
PROPERTIES LedgerStaysComplete
