---------------------------- MODULE CheckoutAttempt ----------------------------
(***************************************************************************)
(* One checkout attempt: everything the till's payment screen submits      *)
(* under one attempt id.  A tap on the screen builds a cart of its own and *)
(* sends it through the main door, complete_sale_scoped; a submission of   *)
(* the shortfall dialog carries its lines in the request and goes through  *)
(* complete_sale_with_resolved_shortfalls_scoped.  Each door looks the     *)
(* attempt up under one lock (replay_verdict), works with no lock held and *)
(* settles under another lock, so submissions interleave; a submission may *)
(* be sent again with the same cart after its answer was lost.             *)
(*                                                                         *)
(* Every sale is stamped with one key, unique in `payments`, and is named  *)
(* by it here: the attempt's own key, or the re-key of a basket and an     *)
(* epoch.  Only the first split's key is consulted, so one key per sale is *)
(* enough.  What the sale contains is SaleLedger's business.               *)
(***************************************************************************)
EXTENDS Naturals, FiniteSets

CONSTANTS
    Tap,      \* submissions through the main door, each with its own cart
    Dialog,   \* submissions of the shortfall dialog, all of one basket
    Items,    \* the identity of that basket: a hash of its contents
    Base,     \* names the attempt's own key
    NoOne,
    MaxEpoch  \* bound on the void epochs of a basket

Request == Tap \cup Dialog

ASSUME NamesAssumption ==
    /\ Tap \cap Dialog = {}
    /\ Items \notin Request /\ Base \notin Request /\ Base # Items
    /\ NoOne \notin Request
    /\ MaxEpoch \in Nat

\* basket_key: the cart's id, or the hash of the dialog's lines
Basket(r) == IF r \in Tap THEN r ELSE Items

Baskets == Tap \cup {Items}
BaseKey == <<Base, 0>>
Rekeys  == Baskets \X (0 .. MaxEpoch)
Key     == {BaseKey} \cup Rekeys

VARIABLES
    cart,   \* active_carts: absent, open, or consumed by the main door
    phase,  \* where each submission is
    stem,   \* the key its verdict chose
    sale,   \* status of the sale stamped with each key
    maker   \* the submission that made it

vars == <<cart, phase, stem, sale, maker>>

-----------------------------------------------------------------------------
(* replay_verdict                                                          *)

Live(k) == sale[k] \in {"pending", "completed"}

\* count_rekey_settlements, which is also the next free epoch
Settled(b) == Cardinality({n \in 0 .. MaxEpoch : sale[<<b, n>>] # "none"})

\* The latest settlement of the basket answers ...
OwnReceipt(r) ==
    LET n == Settled(Basket(r))
    IN  n > 0 /\ Live(<<Basket(r), n - 1>>)

\* Mutant of AttemptReceipt: only a sale still pending answers
PendingReceipt(r) == Settled(Basket(r)) = 0 /\ sale[BaseKey] = "pending"

\* ... or else the attempt's own sale, provided no cart is left to sell
AttemptReceipt(r) ==
    /\ Settled(Basket(r)) = 0
    /\ Live(BaseKey)
    /\ ~(r \in Tap /\ cart[r] = "open")

Replayed(r) == OwnReceipt(r) \/ AttemptReceipt(r)

\* The key to stamp when nothing is replayed
NextKey(r) ==
    IF Settled(Basket(r)) = 0 /\ sale[BaseKey] = "none" THEN BaseKey
    ELSE <<Basket(r), Settled(Basket(r))>>

-----------------------------------------------------------------------------
Init ==
    /\ cart = [r \in Tap |-> "absent"]
    /\ phase = [r \in Request |-> "idle"]
    /\ stem = [r \in Request |-> BaseKey]
    /\ sale = [k \in Key |-> "none"]
    /\ maker = [k \in Key |-> NoOne]

\* startSale and addLine: the screen builds a cart for each tap
BuildCart(r) ==
    /\ r \in Tap
    /\ cart[r] = "absent"
    /\ cart' = [cart EXCEPT ![r] = "open"]
    /\ UNCHANGED <<phase, stem, sale, maker>>

\* The first lock: the original receipt, or the key to settle under
Decide(r) ==
    /\ phase[r] = "idle"
    /\ r \in Tap => cart[r] # "absent"
    /\ \/ /\ Replayed(r)
          /\ UNCHANGED <<phase, stem>>
       \/ /\ ~Replayed(r)
          /\ Settled(Basket(r)) <= MaxEpoch
          /\ stem' = [stem EXCEPT ![r] = NextKey(r)]
          /\ phase' = [phase EXCEPT ![r] = "decided"]
    /\ UNCHANGED <<cart, sale, maker>>

\* Mutant of TakeCart: the cart is left for the settlement to remove
PeekCart(r) ==
    /\ r \in Tap
    /\ phase[r] = "decided"
    /\ phase' = [phase EXCEPT ![r] = IF cart[r] = "open" THEN "taken" ELSE "idle"]
    /\ UNCHANGED <<cart, stem, sale, maker>>

\* Lock 1 of the main door: load and delete the cart, or "cart not found"
TakeCart(r) ==
    /\ r \in Tap
    /\ phase[r] = "decided"
    /\ phase' = [phase EXCEPT ![r] = IF cart[r] = "open" THEN "taken" ELSE "idle"]
    /\ cart' = [cart EXCEPT ![r] = "taken"]
    /\ UNCHANGED <<stem, sale, maker>>

\* The main door settles what it took from the cart, the dialog's what it sent
MaySettle(r) == phase[r] = IF r \in Tap THEN "taken" ELSE "decided"

\* A plugin hook, the tax or promotion check or the stock refuses the sale;
\* the cart is not put back
Refuse(r) ==
    /\ MaySettle(r)
    /\ phase' = [phase EXCEPT ![r] = "idle"]
    /\ UNCHANGED <<cart, stem, sale, maker>>

\* The settlement lock: sale and payment rows in one transaction, which the
\* unique index on payments.idempotency_key rolls back if the key is taken.
\* The main door leaves the sale pending, the dialog's completes it.
Settle(r) ==
    /\ MaySettle(r)
    /\ IF sale[stem[r]] = "none"
         THEN /\ sale' = [sale EXCEPT ![stem[r]] =
                             IF r \in Tap THEN "pending" ELSE "completed"]
              /\ maker' = [maker EXCEPT ![stem[r]] = r]
         ELSE UNCHANGED <<sale, maker>>
    /\ phase' = [phase EXCEPT ![r] = "idle"]
    /\ UNCHANGED <<cart, stem>>

\* Mutant of Finalize: no look at what is there
FinalizeAny(k) ==
    /\ sale[k] # "completed"
    /\ sale' = [sale EXCEPT ![k] = "completed"]
    /\ UNCHANGED <<cart, phase, stem, maker>>

\* finalizeSale from the screen or the queue
Finalize(k) ==
    /\ sale[k] = "pending"
    /\ sale' = [sale EXCEPT ![k] = "completed"]
    /\ UNCHANGED <<cart, phase, stem, maker>>

\* void_pending_sale by the screen or the reaper, void_sale by a manager
Void(k) ==
    /\ Live(k)
    /\ sale' = [sale EXCEPT ![k] = "voided"]
    /\ UNCHANGED <<cart, phase, stem, maker>>

Next ==
    \/ \E r \in Request : \/ BuildCart(r) \/ Decide(r) \/ TakeCart(r)
                          \/ Refuse(r) \/ Settle(r)
    \/ \E k \in Key : Finalize(k) \/ Void(k)

Spec == Init /\ [][Next]_vars

-----------------------------------------------------------------------------
\* The type invariant.
TypeOK ==
    /\ cart \in [Tap -> {"absent", "open", "taken"}]
    /\ phase \in [Request -> {"idle", "decided", "taken"}]
    /\ stem \in [Request -> Key]
    /\ sale \in [Key -> {"none", "pending", "completed", "voided"}]
    /\ maker \in [Key -> Request \cup {NoOne}]
    /\ \A k \in Key : sale[k] = "none" <=> maker[k] = NoOne

SalesOf(b) == {k \in Key : maker[k] # NoOne /\ Basket(maker[k]) = b}

\* "The UNIQUE index closes the race": however submissions of one cart, or of the
\* dialog's lines, are repeated, raced, refused and voided, at most one of their
\* sales is live.  A basket is what the code takes it for, a cart's id or a hash
\* of lines: a tap that rings the same goods up in a new cart is another basket,
\* and of that OneLiveSalePerAttempt speaks.
OneLiveSalePerBasket ==
    \A b \in Baskets : \A j, k \in SalesOf(b) : Live(j) /\ Live(k) => j = k

\* "Any re-tap after a lost response" is answered with "the receipt that already
\* exists instead of ringing up a second sale", as is every firing of a QR's
\* confirmation: at most one sale of an attempt is live.
OneLiveSalePerAttempt ==
    \A j, k \in Key : Live(j) /\ Live(k) => j = k

\* A cart is sold once and for all: not even a void makes it sellable again.
CartSoldOnce == \A r \in Tap : \A j, k \in SalesOf(r) : j = k

\* "The count doubles as the next free void epoch": the settlements of a
\* basket fill the epochs from 0 without a gap, and all but the last of them
\* are voided - otherwise Step 1 would answer with the wrong receipt.
EpochsAreDense ==
    \A b \in Baskets : \A n \in 1 .. MaxEpoch :
        sale[<<b, n>>] # "none" => sale[<<b, n - 1>>] = "voided"

\* A key is never re-pointed: the receipt found under it stays the same sale.
ReceiptsStay == [][\A k \in Key : maker[k] # NoOne => maker'[k] = maker[k]]_vars

=============================================================================
