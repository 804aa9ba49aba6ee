CONSTANTS
    a = a
    b = b
    tea = tea
    coffee = coffee
    beans = beans
    front = front
    back = back
    Sale = {a, b}
    Product = {tea, coffee, beans}
    Location = {front, back}
    Route <- FrontFirst
    Tracked = {tea, beans}
    Recipe <- Beans
    Opening <- ShopOpening
    Negative = {back}
    Cart <- BulkCart
    Total <- MCTotal
    Award <- MCAward
    Charged <- MCCharged
    Kitchen = {a}
SPECIFICATION FairSpec
INVARIANT TypeOK BooksMatchShelf LeavesNoTrace NoOverselling RefundsWithinSale AwardedOnce
PROPERTIES HonoursContract PendingIsSettled
CHECK_DEADLOCK FALSE
