---------------------------- MODULE PaymentContract ----------------------------
(***************************************************************************)
(* What a dynamic QRIS payment promises, without screens, gateway states,  *)
(* notifications, handlers or faults: an order belongs to one sale before  *)
(* anybody can pay it, money leaves a row that finalizes the sale before   *)
(* the order counts as settled, and a sale completes once, on such a row.  *)
(***************************************************************************)
CONSTANTS
    Sale,
    Order,
    NoSale

VARIABLES
    sale,    \* where each sale stands
    owner,   \* the sale an order was issued for
    paid,    \* orders the customer paid
    rows,    \* sales with a row that finalizes them
    settled  \* orders the cloud reports as settled

vars == <<sale, owner, paid, rows, settled>>

Init ==
    /\ sale = [s \in Sale |-> "none"]
    /\ owner = [o \in Order |-> NoSale]
    /\ paid = {} /\ rows = {} /\ settled = {}

Turn(s, from, to) ==
    /\ sale[s] = from
    /\ sale' = [sale EXCEPT ![s] = to]

Attribute(o, s) ==
    /\ owner[o] = NoSale
    /\ owner' = [owner EXCEPT ![o] = s]

Open(s) ==
    /\ Turn(s, "none", "pending")
    /\ UNCHANGED <<owner, paid, rows, settled>>

Issue(o, s) ==
    /\ sale[s] # "none"
    /\ Attribute(o, s)
    /\ UNCHANGED <<sale, paid, rows, settled>>

\* A void may leave an order behind that nobody has seen yet
Void(s) ==
    /\ Turn(s, "pending", "voided")
    /\ UNCHANGED owner \/ \E o \in Order : Attribute(o, s)
    /\ UNCHANGED <<paid, rows, settled>>

Pay(o) ==
    /\ owner[o] # NoSale
    /\ o \notin paid
    /\ paid' = paid \cup {o}
    /\ UNCHANGED <<sale, owner, rows, settled>>

Queue(o) ==
    /\ o \in paid
    /\ rows' = rows \cup {owner[o]}
    /\ UNCHANGED <<sale, owner, paid, settled>>

Settle(o) ==
    /\ o \in paid
    /\ owner[o] \in rows
    /\ settled' = settled \cup {o}
    /\ UNCHANGED <<sale, owner, paid, rows>>

Complete(s) ==
    /\ s \in rows
    /\ Turn(s, "pending", "completed")
    /\ UNCHANGED <<owner, paid, rows, settled>>

Next ==
    \/ \E s \in Sale : Open(s) \/ Void(s) \/ Complete(s)
    \/ \E o \in Order : \/ Pay(o) \/ Queue(o) \/ Settle(o)
                        \/ \E s \in Sale : Issue(o, s)

Spec == Init /\ [][Next]_vars

=============================================================================
