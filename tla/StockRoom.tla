------------------------------- MODULE StockRoom -------------------------------
(***************************************************************************)
(* The stock of one product in one database, kept three times over: the    *)
(* movement ledger (stock_movements), the per-location cache               *)
(* (stock_summary) and the aggregate of the time before locations          *)
(* (inventory).  Sales, transfers, counts, purchase orders and remote      *)
(* mutations all write them; the prune task folds old movements away and   *)
(* the sync daemon rebuilds cache and aggregate from the ledger.  A remote *)
(* movement is written to the ledger only, and the rest follows when the   *)
(* page it came with ends in a rebuild, if that rebuild succeeds.          *)
(*                                                                         *)
(* Every operation is one transaction under the connection's lock.  A row  *)
(* of zero units is not told apart from no row: whenever rows exist and    *)
(* all of them are zero the aggregate is zero too, so both read the same.  *)
(* Locations that may go below zero are SaleLedger's business.             *)
(***************************************************************************)
EXTENDS Integers, FiniteSets, Sums

CONSTANTS
    Location,
    Main,       \* CANONICAL_DEFAULT_LOCATION_UUID
    Bound,      \* locations some workspace is bound to
    Legacy,     \* units in `inventory` that no movement stands behind
    Transfer, Count, Order,
    MaxUnits,   \* bound on the units in play and on each ledger entry
    MaxTrade    \* bound on the units that enter or leave one by one

ASSUME RoomAssumption ==
    /\ Main \in Location /\ Bound \subseteq Location
    /\ IsFiniteSet(Location) /\ IsFiniteSet(Transfer)
    /\ MaxUnits \in Nat /\ MaxTrade \in Nat /\ Legacy \in 0 .. MaxUnits

VARIABLES
    shelf,      \* stock_summary: units at each location
    inventory,  \* inventory.qty
    recent,     \* sum of the movements younger than the archive's cutoff
    aged,       \* ... of those it may fold
    kept,       \* ... of those it never folds: no reason, or a rollup
    backfill,   \* delta of the legacy-backfill row, which stands at Main
    transfer, count, order,
    goods,      \* observer: units the business owns
    trade,      \* observer: how often they entered or left
    stamped,    \* observer: an aggregate was stamped on Main over other stock
    moved,      \* observer: cache and ledger disagree about places
    late,       \* observer: units of remote movements no rebuild has met yet
    undone      \* observer: a rebuild met such units and healed them away

books     == <<shelf, inventory>>
ledger    == <<recent, aged, kept, backfill>>
documents == <<transfer, count, order>>
observers == <<goods, trade, stamped, moved, late, undone>>
vars      == <<books, ledger, documents, observers>>

-----------------------------------------------------------------------------
Units == -MaxUnits .. MaxUnits

Holds(s) == \E l \in Location : s[l] # 0

\* What the product grid and the stock count read
Total == IF Holds(shelf) THEN Sum(shelf) ELSE inventory

\* Mutant of Current: the location's own row, whatever the aggregate says
OwnRow(s, l) == s[l]

\* legacy_aware_location_qty
Current(s, l) == IF Holds(s) THEN s[l] ELSE inventory

\* bridge_legacy_inventory_into_stock_summary_in_tx
Bridged == IF Holds(shelf) THEN shelf ELSE [shelf EXCEPT ![Main] = inventory]

\* Units at l by the ledger, the backfill row being b
Moved(l, b) == recent[l] + aged[l] + kept[l] + IF l = Main THEN b ELSE 0

LedgerSum(b) == Sum(recent) + Sum(aged) + Sum(kept) + b

\* The ledger explains the stock, and what remote movements will make of it
Complete == LedgerSum(backfill) = Total + late

LateAt(l) == IF l = Main THEN late ELSE 0

\* Units of transfer t that left and did not arrive
OnRoad(t) == IF transfer[t].status \in {"in_transit", "received_partial"}
             THEN transfer[t].qty - transfer[t].got ELSE 0

InTransit == Sum([t \in Transfer |-> OnRoad(t)])

Draft == [status |-> "draft", from |-> Main, to |-> Main, qty |-> 0, got |-> 0]

TypeOK ==
    /\ shelf \in [Location -> Units]
    /\ inventory \in 0 .. MaxUnits
    /\ recent \in [Location -> Units]
    /\ aged \in [Location -> Units]
    /\ kept \in [Location -> Units]
    /\ backfill \in Nat
    /\ transfer \in [Transfer ->
          [status : {"draft", "in_transit", "received_partial", "received",
                     "cancelled"},
           from : Location, to : Location,
           qty : 0 .. MaxUnits, got : 0 .. MaxUnits]]
    /\ count \in [Count -> [status : {"none", "open", "closed"},
                            expected : 0 .. MaxUnits]]
    /\ order \in [Order -> {"open", "approved", "received"}]
    /\ goods \in 0 .. MaxUnits /\ trade \in 0 .. MaxTrade
    /\ stamped \in BOOLEAN /\ moved \in BOOLEAN
    /\ late \in Int /\ undone \in BOOLEAN

Init ==
    /\ shelf = [l \in Location |-> 0]
    /\ inventory = Legacy
    /\ recent = [l \in Location |-> 0]
    /\ aged = recent /\ kept = recent
    /\ backfill = 0
    /\ transfer = [t \in Transfer |-> Draft]
    /\ count = [c \in Count |-> [status |-> "none", expected |-> 0]]
    /\ order = [o \in Order |-> "open"]
    /\ goods = Legacy
    /\ trade = 0
    /\ stamped = FALSE
    /\ moved = (Legacy # 0)
    /\ late = 0 /\ undone = FALSE

-----------------------------------------------------------------------------
(* The writers                                                             *)

\* Mutant of Canon: the quantity may go below zero
CanonUnguarded(s, l, d) ==
    LET s1 == [s EXCEPT ![l] = Current(s, l) + d]
    IN  /\ Current(s, l) + d \in Units
        /\ Sum(s1) \in Units
        /\ shelf' = s1
        /\ inventory' = Sum(s1)

\* adjust_stock_at_location_with_reason on the cache s: a movement of d at l,
\* the row, and the aggregate as the sum of the rows
Canon(s, l, d) ==
    LET s1 == [s EXCEPT ![l] = Current(s, l) + d]
    IN  /\ Current(s, l) + d \in 0 .. MaxUnits
        /\ Sum(s1) \in 0 .. MaxUnits
        /\ shelf' = s1
        /\ inventory' = Sum(s1)

\* Mutant of Reasoned: the column's default location
ReasonedAtMain(l, d) ==
    /\ recent[Main] + d \in Units
    /\ recent' = [recent EXCEPT ![Main] = @ + d]
    /\ UNCHANGED <<aged, kept, backfill>>

\* A movement that carries a reason
Reasoned(l, d) ==
    /\ recent[l] + d \in Units
    /\ recent' = [recent EXCEPT ![l] = @ + d]
    /\ UNCHANGED <<aged, kept, backfill>>

\* A movement whose reason is NULL
Unreasoned(l, d) ==
    /\ kept[l] + d \in Units
    /\ kept' = [kept EXCEPT ![l] = @ + d]
    /\ UNCHANGED <<recent, aged, backfill>>

\* Units enter (d > 0) or leave the business
Own(d) ==
    /\ goods + d \in 0 .. MaxUnits
    /\ goods' = goods + d
    /\ trade < MaxTrade
    /\ trade' = trade + 1

\* A sale, refund, inventory transaction or remote refund at a location
Adjust(l, d) ==
    /\ Canon(shelf, l, d)
    /\ Reasoned(l, d)
    /\ Own(d)
    /\ UNCHANGED <<documents, stamped, moved, late, undone>>

\* adjust_stock_in_tx, which reads the aggregate and writes it on Main
Stamp(d) ==
    /\ inventory + d \in 0 .. MaxUnits
    /\ inventory' = inventory + d
    /\ shelf' = [shelf EXCEPT ![Main] = inventory + d]
    /\ Reasoned(Main, d)
    /\ Own(d)
    /\ LET over == \E l \in Location \ {Main} : shelf[l] # 0
       IN  /\ stamped' = (stamped \/ over)
           /\ moved' = (moved \/ over)
    /\ UNCHANGED <<documents, late, undone>>

\* complete_sale from another terminal; also the tablet's adjust_stock
RemoteSale(d) == Stamp(d)

\* stock.adjusted from another terminal, with its location
RemoteAdjust(l, d) ==
    /\ Canon(shelf, l, d)
    /\ Unreasoned(l, d)
    /\ Own(d)
    /\ UNCHANGED <<documents, stamped, moved, late, undone>>

\* ... and from a sender that names none
RemoteAdjustAnywhere(d) ==
    \/ Holds(shelf) /\ RemoteAdjust(Main, d)
    \/ ~Holds(shelf) /\ Stamp(d)

\* stock.movement from another terminal: a row of the ledger, at the column's
\* default location, of any age and with or without a reason
RemoteMovement(d) ==
    /\ \/ Reasoned(Main, d)
       \/ Unreasoned(Main, d)
       \/ /\ aged[Main] + d \in Units
          /\ aged' = [aged EXCEPT ![Main] = @ + d]
          /\ UNCHANGED <<recent, kept, backfill>>
    /\ Own(d)
    /\ late' = late + d
    /\ UNCHANGED <<books, documents, stamped, moved, undone>>

-----------------------------------------------------------------------------
(* Stock transfers.  A draft moves nothing and is edited freely, so its    *)
(* line is chosen when it is sent.                                         *)

SendTransfer(t, from, to, q) ==
    /\ transfer[t].status = "draft"
    /\ Canon(Bridged, from, -q)
    /\ Reasoned(from, -q)
    /\ transfer' = [transfer EXCEPT ![t] =
           [status |-> "in_transit", from |-> from, to |-> to, qty |-> q, got |-> 0]]
    /\ UNCHANGED <<count, order, observers>>

\* got is cumulative and never shrinks
ReceiveTransfer(t, got) ==
    /\ transfer[t].status \in {"in_transit", "received_partial"}
    /\ got \in transfer[t].got .. transfer[t].qty
    /\ LET new == got - transfer[t].got
       IN  IF new > 0
           THEN Canon(Bridged, transfer[t].to, new) /\ Reasoned(transfer[t].to, new)
           ELSE UNCHANGED <<books, ledger>>
    /\ transfer' = [transfer EXCEPT
           ![t].got = got,
           ![t].status = IF got = transfer[t].qty THEN "received"
                         ELSE IF got > 0 THEN "received_partial"
                         ELSE "in_transit"]
    /\ UNCHANGED <<count, order, observers>>

CancelTransfer(t) ==
    /\ transfer[t].status \in {"draft", "in_transit"}
    /\ IF transfer[t].status = "in_transit"
       THEN /\ Canon(Bridged, transfer[t].from, transfer[t].qty)
            /\ Reasoned(transfer[t].from, transfer[t].qty)
       ELSE UNCHANGED <<books, ledger>>
    /\ transfer' = [transfer EXCEPT ![t].status = "cancelled"]
    /\ UNCHANGED <<count, order, observers>>

-----------------------------------------------------------------------------
(* Stock counts                                                            *)

\* The line records what the screen showed
OpenCount(c) ==
    /\ count[c].status = "none"
    /\ Total \in 0 .. MaxUnits
    /\ count' = [count EXCEPT ![c] = [status |-> "open", expected |-> Total]]
    /\ UNCHANGED <<books, ledger, transfer, order, observers>>

\* update_stock_count to cancelled, or straight to completed
CloseCount(c) ==
    /\ count[c].status = "open"
    /\ count' = [count EXCEPT ![c].status = "closed"]
    /\ UNCHANGED <<books, ledger, transfer, order, observers>>

\* A shrink empties the fullest locations first
Waterfall(from, to) ==
    /\ \A l \in Location : to[l] <= from[l] /\ (to[l] < from[l] => to[l] >= 0)
    /\ \A k, l \in Location :
          from[k] > from[l] /\ to[l] < from[l] => to[k] = 0
    /\ \A k, l \in Location :
          k # l /\ to[k] \in 1 .. (from[k] - 1) => to[l] \notin 1 .. (from[l] - 1)

\* A surplus lands on a fullest location: on any, when all are empty
Topped(from, to) ==
    \E l \in Location :
        /\ \A k \in Location : from[k] <= from[l]
        /\ to = [from EXCEPT ![l] = to[l]]
        /\ to[l] > from[l] /\ to[l] >= 0

\* complete_stock_count: the difference to what is on the shelf now
CompleteCount(c, counted) ==
    /\ count[c].status = "open"
    /\ Total >= 0
    /\ count' = [count EXCEPT ![c].status = "closed"]
    /\ \/ /\ counted = count[c].expected
          /\ UNCHANGED <<books, ledger, observers>>
       \/ /\ counted # count[c].expected
          /\ shelf' \in [Location -> Units]
          /\ Sum(shelf') = counted
          /\ Waterfall(Bridged, shelf') \/ Topped(Bridged, shelf')
          /\ inventory' = IF counted = Total THEN inventory ELSE counted
          /\ recent' = [l \in Location |-> recent[l] + shelf'[l] - Bridged[l]]
          /\ recent' \in [Location -> Units]
          /\ UNCHANGED <<aged, kept, backfill>>
          /\ Own(counted - Total)
          /\ UNCHANGED <<stamped, moved, late, undone>>
    /\ UNCHANGED <<transfer, order>>

-----------------------------------------------------------------------------
(* Purchase orders.  update_po_status allows every change of status.       *)

UpdateOrder(o, s) ==
    /\ order' = [order EXCEPT ![o] = s]
    /\ UNCHANGED <<books, ledger, transfer, count, observers>>

ReceiveOrder(o, q) ==
    /\ order[o] = "approved"
    /\ order' = [order EXCEPT ![o] = "received"]
    /\ IF q > 0
       THEN Canon(shelf, Main, q) /\ Reasoned(Main, q) /\ Own(q)
       ELSE UNCHANGED <<books, ledger, goods, trade>>
    /\ UNCHANGED <<transfer, count, stamped, moved, late, undone>>

-----------------------------------------------------------------------------
(* Retention and rebuild                                                   *)

\* Ninety days pass
Age ==
    /\ \A l \in Location : aged[l] + recent[l] \in Units
    /\ aged' = [l \in Location |-> aged[l] + recent[l]]
    /\ recent' = [l \in Location |-> 0]
    /\ UNCHANGED <<books, kept, backfill, documents, observers>>

\* Mutant of Archive: the rollup counts the default location's rows only
ArchiveMainOnly(b) ==
    /\ b \in {0, backfill}
    /\ LET rollup == aged[Main] + b
       IN  /\ kept[Main] + rollup \in Units
           /\ kept' = [kept EXCEPT ![Main] = @ + rollup]
    /\ aged' = [l \in Location |-> 0]
    /\ backfill' = backfill - b
    /\ moved' = (moved \/ \E l \in Location \ {Main} : aged[l] # 0)
    /\ UNCHANGED <<books, recent, documents, goods, trade, stamped, late, undone>>

\* archive_stock_movements: the old rows of every location, and the backfill
\* row when it is old, become one rollup at Main
Archive(b) ==
    /\ b \in {0, backfill}
    /\ LET rollup == Sum(aged) + b
       IN  /\ kept[Main] + rollup \in Units
           /\ kept' = [kept EXCEPT ![Main] = @ + rollup]
    /\ aged' = [l \in Location |-> 0]
    /\ backfill' = backfill - b
    /\ moved' = (moved \/ \E l \in Location \ {Main} : aged[l] # 0)
    /\ UNCHANGED <<books, recent, documents, goods, trade, stamped, late, undone>>

\* The heal of rebuild_stock_summary_for: the backfill row after it
Healed ==
    IF inventory > LedgerSum(backfill) /\ (~Holds(shelf) \/ Sum(shelf) = inventory)
    THEN inventory - LedgerSum(backfill)
    ELSE backfill

\* rebuild_stock_summary.  A negative row at a bound location trips the
\* trigger, a negative aggregate the CHECK, and the rebuild rolls back.
Rebuild ==
    /\ \A l \in Bound : Moved(l, Healed) >= 0
    /\ LedgerSum(Healed) \in 0 .. MaxUnits
    /\ \A l \in Location : Moved(l, Healed) \in Units
    /\ backfill' = Healed
    /\ shelf' = [l \in Location |-> Moved(l, Healed)]
    /\ inventory' = LedgerSum(Healed)
    /\ moved' = FALSE
    /\ late' = 0
    /\ undone' = (undone \/ late < 0 \/ (late # 0 /\ ~Complete))
    /\ UNCHANGED <<recent, aged, kept, documents, goods, trade, stamped>>

-----------------------------------------------------------------------------
Delta == {-1, 1}

Next ==
    \/ \E l \in Location, d \in Delta : Adjust(l, d) \/ RemoteAdjust(l, d)
    \/ \E d \in Delta : RemoteSale(d) \/ RemoteAdjustAnywhere(d) \/ RemoteMovement(d)
    \/ \E t \in Transfer :
          \/ \E from, to \in Location, q \in 1 .. MaxUnits :
                SendTransfer(t, from, to, q)
          \/ \E got \in 0 .. MaxUnits : ReceiveTransfer(t, got)
          \/ CancelTransfer(t)
    \/ \E c \in Count :
          \/ OpenCount(c) \/ CloseCount(c)
          \/ \E counted \in 0 .. MaxUnits : CompleteCount(c, counted)
    \/ \E o \in Order :
          \/ \E s \in {"open", "approved", "received"} : UpdateOrder(o, s)
          \/ \E q \in 0 .. MaxUnits : ReceiveOrder(o, q)
    \/ Age
    \/ \E b \in 0 .. MaxUnits : Archive(b)
    \/ Rebuild

Spec == Init /\ [][Next]_vars

-----------------------------------------------------------------------------
(* Properties                                                              *)

\* What the grid shows, what is on the road and what remote movements have yet
\* to add is what the business owns, through every route a unit can take, the
\* first write over a legacy aggregate, the archive and the rebuild included,
\* and the aggregate that stamps, heals and legacy readers trust is the sum of
\* the rows.  Two circumstances are excepted: a remote sale stamped the
\* aggregate over another location's stock, or a rebuild met remote movements
\* that came to fewer units, or any while units from before the ledger were
\* still due, and its heal took them for part of the gap.
GoodsAccounted ==
    ~stamped /\ ~undone => /\ Total + InTransit + late = goods
                           /\ Holds(shelf) => inventory = Sum(shelf)

\* Row by row the cache trails the ledger by nothing but the remote movements
\* since the last rebuild, except after a step that is known to part them: an
\* unhealed legacy aggregate, a stamp, or a rollup of another location's
\* movements.
CacheIsLedger ==
    ~moved => \A l \in Location : shelf[l] + LateAt(l) = Moved(l, backfill)

\* "so every FUTURE rebuild stays a pure function of the CRDT state": once
\* the ledger explains the stock, but for the remote movements no rebuild has
\* met, no writer, archive or rebuild opens a gap.
LedgerStaysComplete == [][Complete /\ ~stamped' => Complete']_vars

\* A rebuild of a complete ledger that has nothing new leaves every unit where
\* it is: grouping by both columns is there so that "multi-location data" does
\* not collapse "to one row at the canonical default".
RebuildKeepsPlaces ==
    [][Complete /\ late = 0 /\ ~stamped /\ Rebuild => shelf' = shelf]_vars

\* The circumstances in which it does: retention folds no movement of another
\* location than the default one.
FoldsMainOnly ==
    [][(\E b \in 0 .. MaxUnits : Archive(b))
           => \A l \in Location \ {Main} : aged[l] = 0]_vars
================================================================================
