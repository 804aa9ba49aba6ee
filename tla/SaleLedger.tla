------------------------------ MODULE SaleLedger ------------------------------
(***************************************************************************)
(* The life of a sale in one till's database: checkout takes stock along   *)
(* the route and leaves the sale pending, capture of the payment finalizes *)
(* it, a void or the reaper gives the stock back, refunds give back some   *)
(* of it.  Each operation is one IMMEDIATE transaction, so it is one step; *)
(* what interleaves are the cashier's screens, the remote finalize, the    *)
(* reaper - which lists the stale sales first and voids them one by one -  *)
(* and the kitchen board.                                                  *)
(*                                                                         *)
(* A line is identified by its position in the cart.  Payments and their   *)
(* splits, promotions, receipt numbers, audit rows and popularity ride in  *)
(* the same transactions and do not feed back.  Legacy sales without       *)
(* deduction_locations are not modelled.                                   *)
(***************************************************************************)
EXTENDS Integers, Sequences, FiniteSets, Sums

CONSTANTS
    Sale,
    Product,
    Location,
    Route,     \* stock locations in the order checkout tries them
    Tracked,   \* products that keep stock
    Recipe,    \* Recipe[p][g] units of g go into one p
    Opening,   \* stock before the first sale
    Negative,  \* locations whose binding allows negative stock
    Cart,      \* the lines of each sale: product, quantity, booked value
    Total,     \* its total, after discounts
    Award,     \* the points it earns by its total in the shop's currency
    Charged,   \* and by its total as charged; both 0 without a customer
    Kitchen    \* the sales with a line for the kitchen

ASSUME AmountsAssumption ==
    /\ IsFiniteSet(Sale)
    /\ Total \in [Sale -> Nat]
    /\ Award \in [Sale -> Nat]
    /\ Charged \in [Sale -> Nat]
    /\ Cart \in [Sale -> Seq([sku : Product, qty : Nat \ {0}, value : Nat])]

ASSUME StockAssumption ==
    /\ IsFiniteSet(Location)
    /\ Tracked \subseteq Product
    /\ Opening \in [Product -> [Location -> Nat]]
    /\ Recipe \in [Product -> [Product -> Nat]]
    /\ Route \in Seq(Location) /\ Route # << >>
    /\ \A j, k \in DOMAIN Route : Route[j] = Route[k] => j = k

VARIABLES
    status,     \* sales.status
    deductions, \* sales.deduction_locations: the entries of each line
    stock,      \* stock_summary
    overdue,    \* sales whose pending_expires_at has passed
    stale,      \* the reaper's list
    unitsBack,  \* units of each line refunded so far
    moneyBack,  \* money refunded so far
    earned,     \* points of the sale's 'earn' row
    reversed,   \* points of its 'refund_reversal' rows
    ticket,     \* its ticket on the kitchen board
    outbox      \* rows queued for the other tills

vars == <<status, deductions, stock, overdue, stale, unitsBack, moneyBack,
          earned, reversed, ticket, outbox>>

Line(s)    == DOMAIN Cart[s]
Least(a, b) == IF a <= b THEN a ELSE b
Most(a, b)  == IF a <= b THEN b ELSE a

-----------------------------------------------------------------------------
(* Stock: units are taken in route order, from what each location has.     *)

Available(p, l) == Most(stock[p][l], 0)

AlongRoute(p) == [j \in DOMAIN Route |-> Available(p, Route[j])]

\* What remains of q units for a place before which there are `before` units,
\* if the place has `here`
Share(q, here, before) == Least(here, Most(q - before, 0))

\* An entry for each location of the route; the code leaves out those that
\* give nothing, which no sum tells apart
Allocation(p, need) ==
    [k \in DOMAIN Route |->
        [location |-> Route[k],
         qty |-> Share(need, AlongRoute(p)[k], Part(AlongRoute(p), 1 .. (k - 1)))]]

Qty(entries) == [k \in DOMAIN entries |-> entries[k].qty]

Units(entries) == Sum(Qty(entries))

EntriesAt(entries, l) == {k \in DOMAIN entries : entries[k].location = l}

UnitsAt(entries, l) == Part(Qty(entries), EntriesAt(entries, l))

\* Units of p that line i consumes: itself if it is tracked, and what its
\* recipe says of each tracked ingredient
Need(s, i, p) ==
    LET line == Cart[s][i]
    IN  IF p \notin Tracked THEN 0
        ELSE line.qty * (IF p = line.sku THEN 1 ELSE Recipe[line.sku][p])

\* Mutant of InStock: only an empty location refuses
SomeStock(units) ==
    \A p \in Product, l \in Location :
        units[p][l] = 0 \/ l \in Negative \/ stock[p][l] > 0

\* adjust_stock_batch, which refuses to go below zero
InStock(units) ==
    \A p \in Product, l \in Location :
        units[p][l] = 0 \/ l \in Negative \/ units[p][l] <= stock[p][l]

TakeStock(units) ==
    /\ InStock(units)
    /\ stock' = [p \in Product |-> [l \in Location |-> stock[p][l] - units[p][l]]]

\* units[i][p][l] by line: what the lines come to, by product and location
OverLines(units) ==
    [p \in Product |-> [l \in Location |->
        Sum([i \in DOMAIN units |-> units[i][p][l]])]]

\* Voids and refunds credit line by line and name no terminal, so no binding
\* is found that allows the location to stay below zero after a credit
MayCredit(units) ==
    \A i \in DOMAIN units, p \in Product, l \in Location :
        units[i][p][l] > 0 =>
            stock[p][l] + Sum([j \in 1 .. i |-> units[j][p][l]]) >= 0

CreditStock(units) ==
    LET all == OverLines(units)
    IN  /\ MayCredit(units)
        /\ stock' = [p \in Product |-> [l \in Location |-> stock[p][l] + all[p][l]]]

-----------------------------------------------------------------------------
Init ==
    /\ status = [s \in Sale |-> "absent"]
    /\ deductions = [s \in Sale |-> << >>]
    /\ stock = Opening
    /\ overdue = {} /\ stale = {} /\ outbox = {}
    /\ unitsBack = [s \in Sale |-> [i \in Line(s) |-> 0]]
    /\ moneyBack = [s \in Sale |-> 0]
    /\ earned = [s \in Sale |-> 0]
    /\ reversed = [s \in Sale |-> 0]
    /\ ticket = [s \in Sale |-> "none"]

\* Every need of every line is found along the route - each line on its own
Covered(s) ==
    \A i \in Line(s), p \in Product : Need(s, i, p) <= Sum(AlongRoute(p))

Taken(s) ==
    OverLines([i \in Line(s) |-> [p \in Product |-> [l \in Location |->
                  UnitsAt(Allocation(p, Need(s, i, p)), l)]]])

\* Checkout finds every unit along the route or changes nothing.  A line that
\* keeps no stock is recorded as if taken from the first location; what its
\* recipe consumed is not recorded.
Checkout(s) ==
    /\ status[s] = "absent"
    /\ Covered(s)
    /\ TakeStock(Taken(s))
    /\ status' = [status EXCEPT ![s] = "pending"]
    /\ deductions' = [deductions EXCEPT ![s] = [i \in Line(s) |->
           LET line == Cart[s][i]
           IN  IF line.sku \in Tracked THEN Allocation(line.sku, line.qty)
               ELSE <<[location |-> Route[1], qty |-> line.qty]>>]]
    /\ outbox' = outbox \cup {<<"complete_sale", s>>}
    /\ UNCHANGED <<overdue, stale, unitsBack, moneyBack, earned, reversed, ticket>>

\* The cashier's entries for each short product add up to its lines
AddsUp(s, chosen) ==
    \A i \in Line(s) : Cart[s][i].sku \in DOMAIN chosen
                         => Units(chosen[Cart[s][i].sku]) = Cart[s][i].qty

\* Mutant of AwardPoints: the earlier award is not looked up
AwardAgain(s, points) == earned' = [earned EXCEPT ![s] = @ + points]

\* A sale that has its 'earn' row gets no second one, whoever asks
AwardPoints(s, points) ==
    earned' = [earned EXCEPT ![s] = IF @ = 0 THEN points ELSE @]

\* An award that fails is logged and the sale completes without points
AwardOnCompletion(s) == AwardPoints(s, Award[s]) \/ UNCHANGED earned

\* The second attempt after a shortfall: `chosen` holds the cashier's entries
\* for the short products, the other lines come from the first location.  The
\* sale is completed at once.  A resolved line's recipe is not consumed.
CheckoutResolved(s, chosen) ==
    LET sku(i) == Cart[s][i].sku
        taken(i, p, l) ==
            IF sku(i) \in DOMAIN chosen
            THEN IF p = sku(i) THEN UnitsAt(chosen[p], l) ELSE 0
            ELSE IF l = Route[1] THEN Need(s, i, p) ELSE 0
        units == [i \in Line(s) |-> [p \in Product |-> [l \in Location |->
                     taken(i, p, l)]]]
    IN  /\ status[s] = "absent"
        /\ AddsUp(s, chosen)
        /\ TakeStock(OverLines(units))
        /\ status' = [status EXCEPT ![s] = "completed"]
        /\ AwardOnCompletion(s)
        /\ deductions' = [deductions EXCEPT ![s] = [i \in Line(s) |->
               IF sku(i) \in DOMAIN chosen THEN chosen[sku(i)]
               ELSE <<[location |-> Route[1], qty |-> Cart[s][i].qty]>>]]
        /\ outbox' = outbox \cup {<<"complete_sale", s>>}
        /\ UNCHANGED <<overdue, stale, unitsBack, moneyBack, reversed, ticket>>

\* Mutant of FinalizeSale: a late capture also completes a voided sale
FinalizeVoided(s) ==
    /\ status[s] \in {"pending", "voided"}
    /\ status' = [status EXCEPT ![s] = "completed"]
    /\ AwardOnCompletion(s)
    /\ UNCHANGED <<deductions, stock, overdue, stale, unitsBack, moneyBack,
                   reversed, ticket, outbox>>

\* The payment is captured: by the cashier's screen, or by the finalize_sale
\* row of the payment webhook
FinalizeSale(s) ==
    /\ status[s] = "pending"
    /\ status' = [status EXCEPT ![s] = "completed"]
    /\ AwardOnCompletion(s)
    /\ UNCHANGED <<deductions, stock, overdue, stale, unitsBack, moneyBack,
                   reversed, ticket, outbox>>

\* The bus says `sale.completed` when the checkout returns, before the payment
\* is captured, and its listener awards the points; the command a cashier may
\* repeat a lost award with does the same.  Neither looks at the status.
EarnPoints(s) ==
    /\ status[s] # "absent"
    /\ AwardPoints(s, Charged[s])
    /\ UNCHANGED <<status, deductions, stock, overdue, stale, unitsBack,
                   moneyBack, reversed, ticket, outbox>>

CancelTicket(s) ==
    ticket' = [ticket EXCEPT ![s] = IF @ = "open" THEN "cancelled" ELSE @]

\* Mutant of VoidPending: the units go back to the first location
VoidToFirst(s) ==
    /\ status[s] = "pending"
    /\ CreditStock([i \in Line(s) |-> [p \in Product |-> [l \in Location |->
           IF p = Cart[s][i].sku /\ l = Route[1] THEN Units(deductions[s][i]) ELSE 0]]])
    /\ status' = [status EXCEPT ![s] = "voided"]
    /\ CancelTicket(s)

\* The entries of the sale, by line
Recorded(s) ==
    [i \in Line(s) |-> [p \in Product |-> [l \in Location |->
        IF p = Cart[s][i].sku THEN UnitsAt(deductions[s][i], l) ELSE 0]]]

\* Every recorded entry is credited, then the status moves; no row is queued
VoidPending(s) ==
    /\ status[s] = "pending"
    /\ CreditStock(Recorded(s))
    /\ status' = [status EXCEPT ![s] = "voided"]
    /\ CancelTicket(s)

VoidPendingSale(s) ==
    /\ VoidPending(s)
    /\ UNCHANGED <<deductions, overdue, stale, unitsBack, moneyBack, earned,
                   reversed, outbox>>

-----------------------------------------------------------------------------
\* The half hour a sale may stay pending is over
Expire(s) ==
    /\ status[s] = "pending"
    /\ s \notin overdue
    /\ overdue' = overdue \cup {s}
    /\ UNCHANGED <<status, deductions, stock, stale, unitsBack, moneyBack,
                   earned, reversed, ticket, outbox>>

\* Mutant of ReapScan: every pending sale is listed
ReapPending ==
    /\ stale = {}
    /\ stale' = {s \in Sale : status[s] = "pending"}
    /\ stale' # {}
    /\ UNCHANGED <<status, deductions, stock, overdue, unitsBack, moneyBack,
                   earned, reversed, ticket, outbox>>

\* Every minute the reaper lists the stale sales ...
ReapScan ==
    /\ stale = {}
    /\ stale' = {s \in overdue : status[s] = "pending"}
    /\ stale' # {}
    /\ UNCHANGED <<status, deductions, stock, overdue, unitsBack, moneyBack,
                   earned, reversed, ticket, outbox>>

\* Mutant of ReapOne: a sale the kitchen works on is skipped
ReapIdle(s) ==
    /\ s \in stale
    /\ stale' = stale \ {s}
    /\ \/ ticket[s] # "open" /\ VoidPending(s)
       \/ ticket[s] = "open" /\ UNCHANGED <<status, stock, ticket>>
    /\ UNCHANGED <<deductions, overdue, unitsBack, moneyBack, earned, reversed,
                   outbox>>

\* ... and voids them one after the other; one that is settled meanwhile, or
\* whose stock cannot be credited, is logged and skipped
ReapOne(s) ==
    /\ s \in stale
    /\ stale' = stale \ {s}
    /\ \/ VoidPending(s)
       \/ status[s] # "pending" /\ UNCHANGED <<status, stock, ticket>>
       \/ /\ ~MayCredit(Recorded(s))
          /\ UNCHANGED <<status, stock, ticket>>
    /\ UNCHANGED <<deductions, overdue, unitsBack, moneyBack, earned, reversed,
                   outbox>>

\* The cashier's screen creates the kitchen ticket in a call of its own, which
\* looks for an earlier ticket but not at the sale's status
CreateTicket(s) ==
    /\ status[s] # "absent"
    /\ s \in Kitchen
    /\ ticket[s] = "none"
    /\ ticket' = [ticket EXCEPT ![s] = "open"]
    /\ UNCHANGED <<status, deductions, stock, overdue, stale, unitsBack,
                   moneyBack, earned, reversed, outbox>>

ServeTicket(s) ==
    /\ ticket[s] = "open"
    /\ ticket' = [ticket EXCEPT ![s] = "served"]
    /\ UNCHANGED <<status, deductions, stock, overdue, stale, unitsBack,
                   moneyBack, earned, reversed, outbox>>

-----------------------------------------------------------------------------
\* Mutant of CreditAt: any refund gives the whole line back
CreditLine(entries, q, l) == UnitsAt(entries, l)

\* q units, from the last entry backwards
FromTheBack(entries, q) ==
    [k \in DOMAIN entries |->
        Share(q, entries[k].qty, Part(Qty(entries), {j \in DOMAIN entries : j > k}))]

\* What a refund of q units of a line gives back at l: all its entries if q
\* is everything the line took, otherwise from the last entry backwards
CreditAt(entries, q, l) ==
    IF q >= Units(entries) THEN UnitsAt(entries, l)
    ELSE Part(FromTheBack(entries, q), EntriesAt(entries, l))

\* The most that q units of a line may be refunded for: their share of its
\* booked value, and one unit of money for the screen's rounding
Ceiling(line, q) == (line.value * q) \div line.qty + 1

\* Mutant of Reversal: no regard to what was taken back before
UncappedReversal(s, money) ==
    IF Total[s] = 0 \/ money = 0 THEN 0
    ELSE (2 * earned[s] * money + Total[s]) \div (2 * Total[s])

\* The award is taken back in proportion, rounded half up and never beyond
\* what is left of it
Reversal(s, money) ==
    IF Total[s] = 0 \/ money = 0 THEN 0
    ELSE Most(0, Least((2 * earned[s] * money + Total[s]) \div (2 * Total[s]),
                       earned[s] - reversed[s]))

\* Mutant of WithinTotal: earlier refunds are forgotten
EachWithinTotal(s, money) == money <= Total[s]

\* All refunds of a sale stay within its total
WithinTotal(s, money) == moneyBack[s] + money <= Total[s]

\* A refund of qty[i] units of line i for value[i], `money` in all
Refund(s, qty, value, money) ==
    LET lines == {i \in Line(s) : qty[i] > 0}
    IN  /\ status[s] = "completed"
        /\ lines # {}
        /\ \A i \in Line(s) \ lines : value[i] = 0
        /\ money = Part(value, lines)
        /\ WithinTotal(s, money)
        /\ \A i \in lines :
               /\ unitsBack[s][i] + qty[i] <= Cart[s][i].qty
               /\ value[i] <= Ceiling(Cart[s][i], qty[i])
               /\ unitsBack[s][i] + qty[i] <= Units(deductions[s][i])
        /\ CreditStock([i \in Line(s) |-> [p \in Product |-> [l \in Location |->
               IF i \in lines /\ p = Cart[s][i].sku
               THEN CreditAt(deductions[s][i], qty[i], l) ELSE 0]]])
        /\ unitsBack' = [unitsBack EXCEPT ![s] = [i \in Line(s) |-> @[i] + qty[i]]]
        /\ moneyBack' = [moneyBack EXCEPT ![s] = @ + money]
        /\ \/ reversed' = [reversed EXCEPT ![s] = @ + Reversal(s, money)]
           \/ UNCHANGED reversed  \* a reversal that fails is logged
        /\ IF moneyBack[s] + money >= Total[s] THEN CancelTicket(s)
           ELSE UNCHANGED ticket
        /\ outbox' = outbox \cup {<<"refund_sale", s>>}
        /\ UNCHANGED <<status, deductions, overdue, stale, earned>>

-----------------------------------------------------------------------------
\* The entries a cashier may choose for q units of a short product
EntriesFor(q) ==
    {e \in UNION {[1 .. n -> [location : Location, qty : 1 .. q]] : n \in 1 .. q} :
        /\ Units(e) = q
        /\ \A j, k \in DOMAIN e : e[j].location = e[k].location => j = k}

\* Resolutions are keyed by product; the dialog offers the short ones
Resolutions(s) ==
    LET skus == {Cart[s][i].sku : i \in Line(s)} \cap Tracked
        wanted(p) == {Cart[s][i].qty : i \in {j \in Line(s) : Cart[s][j].sku = p}}
    IN  UNION {{c \in [P -> UNION {EntriesFor(q) : q \in UNION {wanted(p) : p \in P}}] :
                    \A p \in P : Units(c[p]) \in wanted(p)} :
               P \in SUBSET skus \ {{}}}

Refunds(s) == {qty \in [Line(s) -> UNION {0 .. Cart[s][i].qty : i \in Line(s)}] :
                   \A i \in Line(s) : qty[i] <= Cart[s][i].qty}

Next ==
    \/ ReapScan
    \/ \E s \in Sale :
        \/ Checkout(s)
        \/ \E chosen \in Resolutions(s) : CheckoutResolved(s, chosen)
        \/ FinalizeSale(s)
        \/ EarnPoints(s)
        \/ VoidPendingSale(s)
        \/ Expire(s)
        \/ ReapOne(s)
        \/ CreateTicket(s)
        \/ ServeTicket(s)
        \/ \E qty \in Refunds(s), money \in 0 .. Total[s] :
             \E value \in [Line(s) -> 0 .. Total[s]] : Refund(s, qty, value, money)

Spec == Init /\ [][Next]_vars

\* The clock and the reaper go on; nothing obliges a cashier to do anything
FairSpec == /\ Spec
            /\ WF_vars(ReapScan)
            /\ \A s \in Sale : WF_vars(Expire(s)) /\ WF_vars(ReapOne(s))

-----------------------------------------------------------------------------
Status == {"absent", "pending", "completed", "voided"}
Entry  == [location : Location, qty : Nat]

\* The shape of the tables.
TypeOK ==
    /\ status \in [Sale -> Status]
    /\ deductions \in [Sale -> Seq(Seq(Entry))]
    /\ stock \in [Product -> [Location -> Int]]
    /\ overdue \subseteq Sale /\ stale \subseteq overdue
    /\ \A s \in Sale : unitsBack[s] \in [Line(s) -> Nat]
    /\ moneyBack \in [Sale -> Nat]
    /\ earned \in [Sale -> Nat] /\ reversed \in [Sale -> Nat]
    /\ ticket \in [Sale -> {"none", "open", "served", "cancelled"}]
    /\ outbox \subseteq {"complete_sale", "refund_sale", "void_sale"} \X Sale

Live(s) == status[s] \in {"pending", "completed"}

\* Units of p that sale s took and no refund brought back
Kept(s, p) ==
    Part([i \in Line(s) |-> Cart[s][i].qty - unitsBack[s][i]],
         {i \in Line(s) : Cart[s][i].sku = p})

\* Units of p that sale s sells, and that refunds of it brought back
Bought(s, p) == Sum([i \in Line(s) |-> IF Cart[s][i].sku = p THEN Cart[s][i].qty ELSE 0])
Returned(s, p) == Sum([i \in Line(s) |-> IF Cart[s][i].sku = p THEN unitsBack[s][i] ELSE 0])

\* Units of p that the recipes of sale s call for
Called(s, p) ==
    Sum([i \in Line(s) |-> IF Cart[s][i].sku = p THEN 0
                           ELSE Cart[s][i].qty * Recipe[Cart[s][i].sku][p]])

Ingredient == {g \in Product : \E p \in Product : Recipe[p][g] > 0}

\* The books match the shelf: what a product lost since opening is what its
\* live sales took and refunds did not bring back, however checkouts, voids,
\* the reaper and partial refunds interleave.  What a recipe used up is in no
\* sale's record and comes back with no void: an ingredient may have lost as
\* much more as the recipes of all sales, voided ones included, called for.
BooksMatchShelf ==
    \A p \in Tracked :
        LET gone == Sum([l \in Location |-> Opening[p][l] - stock[p][l]])
            sold == Part([s \in Sale |-> Kept(s, p)], {s \in Sale : Live(s)})
            used == Part([s \in Sale |-> Called(s, p)],
                         {s \in Sale : status[s] # "absent"})
        IN  sold <= gone /\ gone <= sold + used

\* Voiding a sale restores its stock to the original locations: once every
\* sale is voided each location has exactly what it opened with, ingredients
\* apart.
LeavesNoTrace ==
    (\A s \in Sale : ~Live(s)) =>
        \A p \in Tracked \ Ingredient : stock[p] = Opening[p]

\* "Stock is credited back to the original deduction source locations": no
\* location ends with more of a product than it opened with.
CreditedWhereTaken ==
    \A p \in Tracked, l \in Location : stock[p][l] <= Opening[p][l]

\* All units of a line are at one location.
OnePlace(entries) ==
    \A j, k \in DOMAIN entries :
        entries[j].qty > 0 /\ entries[k].qty > 0 => entries[j].location = entries[k].location

\* The circumstances in which they are: a line that was taken from several
\* locations is refunded in one go, in part or whole.
RefundsInOneGo ==
    [][\A s \in Sale : \A i \in Line(s) :
          unitsBack'[s][i] # unitsBack[s][i]
              => unitsBack[s][i] = 0 \/ OnePlace(deductions[s][i])]_vars

\* Stock goes below zero only where the binding allows it, also when two
\* lines of a cart were each found the same units.
NoOverselling ==
    \A p \in Product, l \in Location \ Negative : stock[p][l] >= 0

\* Only completed sales have refunds, and all of them together never exceed
\* the sale's total or, line by line, the units sold.
RefundsWithinSale ==
    \A s \in Sale :
        /\ moneyBack[s] <= Total[s]
        /\ \A i \in Line(s) : unitsBack[s][i] <= Cart[s][i].qty
        /\ moneyBack[s] > 0 \/ (\E i \in Line(s) : unitsBack[s][i] > 0)
               => status[s] = "completed"

\* A sale is awarded its points once, though the completion, the listener of the
\* checkout and a repeated command all award and each may fail or come first;
\* the refunds of the completed sale take back at most that award, also when an
\* earlier reversal failed or the award came after the first refund.
AwardedOnce ==
    \A s \in Sale :
        /\ earned[s] \in {0, Award[s], Charged[s]}
        /\ status[s] = "absent" => earned[s] = 0
        /\ reversed[s] <= earned[s]
        /\ reversed[s] > 0 => status[s] = "completed" /\ moneyBack[s] > 0

\* A completed or voided sale never changes status again: a late finalize does
\* not revive a sale the reaper voided, nor a late void undo a paid one.
SettledIsFinal ==
    [][\A s \in Sale : status[s] \in {"completed", "voided"}
                           => status'[s] = status[s]]_vars

\* Through lines, locations, chosen entries, the reaper and partial refunds a
\* sale is what the contract says: it leaves the shelf once, is captured or
\* voided once - a late finalize does not revive a sale the reaper voided - and
\* brings back no more than it had; its points are awarded once, in time or not.
Contract == INSTANCE SaleContract
              WITH Stocked <- Tracked,
                   Sells <- [s \in Sale |-> [p \in Tracked |-> Bought(s, p)]],
                   Calls <- [s \in Sale |-> [p \in Tracked |-> Called(s, p)]],
                   Full <- [p \in Tracked |-> Sum(Opening[p])],
                   Worth <- [s \in Sale |-> {Award[s], Charged[s]}],
                   phase <- status,
                   shelf <- [p \in Tracked |-> Sum(stock[p])],
                   back <- [s \in Sale |-> [p \in Tracked |-> Returned(s, p)]],
                   refunded <- moneyBack,
                   awarded <- earned,
                   points <- [s \in Sale |-> earned[s] - reversed[s]]

HonoursContract == Contract!Spec

\* "Auto-void all stale pending sales whose pending_expires_at has passed": no
\* sale stays pending while its units can be credited.  A location that may
\* sell below zero can refuse the credit that does not lift it to zero, and
\* the sale then waits for a delivery.
PendingIsSettled ==
    \A s \in Sale :
        status[s] = "pending"
        ~> \/ status[s] \in {"completed", "voided"}
           \/ status[s] = "pending" /\ ~MayCredit(Recorded(s))

=============================================================================
