----------------------------- MODULE SaleContract -----------------------------
(***************************************************************************)
(* What a till promises of a sale, without lines, locations, entries,      *)
(* tickets, deadlines or the reaper: a sale takes its units off the shelf  *)
(* once, is captured or voided once, and refunds of a captured sale bring  *)
(* back no more units, money or points than it had.  Its points are        *)
(* awarded once, at any time, or not at all.                               *)
(***************************************************************************)
EXTENDS Integers

CONSTANTS
    Sale,
    Stocked, \* products that keep stock
    Sells,   \* units of each that a sale sells
    Calls,   \* units of each that its recipes call for
    Full,    \* the shelf at opening
    Total,   \* the money a sale comes to
    Worth    \* what it may be awarded in points

VARIABLES
    phase,    \* where the sale stands
    shelf,    \* units of each product in the shop, wherever they are
    back,     \* units of the sale that refunds brought back
    refunded, \* money of it they paid back
    awarded,  \* the points it was awarded
    points    \* those of them no refund took back

vars == <<phase, shelf, back, refunded, awarded, points>>

Init ==
    /\ phase = [s \in Sale |-> "absent"]
    /\ shelf = Full
    /\ back = [s \in Sale |-> [p \in Stocked |-> 0]]
    /\ refunded = [s \in Sale |-> 0]
    /\ awarded = [s \in Sale |-> 0]
    /\ points = [s \in Sale |-> 0]

\* The sale's own units leave the shelf, and some of what its recipes call for
Take(s) ==
    /\ shelf' \in [Stocked -> Int]
    /\ \A p \in Stocked : shelf[p] - shelf'[p] - Sells[s][p] \in 0 .. Calls[s][p]

\* The one award, all of which the customer has
Awarded(s) ==
    /\ awarded[s] = 0
    /\ \E n \in Worth[s] : /\ awarded' = [awarded EXCEPT ![s] = n]
                           /\ points' = [points EXCEPT ![s] = n]

MayEarn(s) == Awarded(s) \/ UNCHANGED <<awarded, points>>

Earn(s) ==
    /\ phase[s] # "absent"
    /\ Awarded(s)
    /\ UNCHANGED <<phase, shelf, back, refunded>>

Sell(s) ==
    /\ phase[s] = "absent"
    /\ phase' = [phase EXCEPT ![s] = "pending"]
    /\ Take(s)
    /\ UNCHANGED <<back, refunded, awarded, points>>

SellAtOnce(s) ==
    /\ phase[s] = "absent"
    /\ phase' = [phase EXCEPT ![s] = "completed"]
    /\ Take(s)
    /\ MayEarn(s)
    /\ UNCHANGED <<back, refunded>>

Capture(s) ==
    /\ phase[s] = "pending"
    /\ phase' = [phase EXCEPT ![s] = "completed"]
    /\ MayEarn(s)
    /\ UNCHANGED <<shelf, back, refunded>>

\* What its recipes used does not come back
Void(s) ==
    /\ phase[s] = "pending"
    /\ phase' = [phase EXCEPT ![s] = "voided"]
    /\ shelf' = [p \in Stocked |-> shelf[p] + Sells[s][p]]
    /\ UNCHANGED <<back, refunded, awarded, points>>

\* However much comes back, the sale had it and it was not back yet
GiveBack(s) ==
    /\ phase[s] = "completed"
    /\ UNCHANGED <<phase, awarded>>
    /\ back' = [back EXCEPT ![s] = back'[s]]
    /\ refunded' = [refunded EXCEPT ![s] = refunded'[s]]
    /\ points' = [points EXCEPT ![s] = points'[s]]
    /\ \A p \in Stocked : back[s][p] <= back'[s][p] /\ back'[s][p] <= Sells[s][p]
    /\ refunded'[s] \in refunded[s] .. Total[s]
    /\ points'[s] \in 0 .. points[s]
    /\ shelf' = [p \in Stocked |-> shelf[p] + back'[s][p] - back[s][p]]

Next ==
    \E s \in Sale :
        Sell(s) \/ SellAtOnce(s) \/ Capture(s) \/ Earn(s) \/ Void(s) \/ GiveBack(s)

Spec == Init /\ [][Next]_vars

=============================================================================
