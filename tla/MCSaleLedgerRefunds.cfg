CONSTANTS
    a = a
    b = b
    tea = tea
    coffee = coffee
    beans = beans
    front = front
    back = back
    Sale = {a, b}
    Product = {tea}
    Location = {front, back}
    Route <- FrontFirst
    Tracked = {tea}
    Recipe <- NoRecipe
    Opening <- ShopOpening
    Negative = {}
    Cart <- ShopCart
    Total <- MCTotal
    Award <- MCAward
    Charged <- MCCharged
    Kitchen = {a}
SPECIFICATION Spec
INVARIANT CreditedWhereTaken
CHECK_DEADLOCK FALSE
