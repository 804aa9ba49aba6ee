----------------------------- MODULE MCSaleLedger -----------------------------
(***************************************************************************)
(* Tills for SaleLedger: a shop with a front shelf and a back room that    *)
(* sells tea, and a cafe whose coffee keeps no stock but uses up beans.    *)
(***************************************************************************)
EXTENDS SaleLedger, TLC

CONSTANTS a, b,        \* sales
          tea, coffee, beans,
          front, back  \* stock locations

FrontFirst == <<front, back>>

NoRecipe == [p \in Product |-> [g \in Product |-> 0]]
Beans    == [p \in Product |-> [g \in Product |->
                IF p = coffee /\ g = beans THEN 2 ELSE 0]]

ShopOpening == [p \in Product |-> [l \in Location |->
                   IF p = coffee THEN 0 ELSE IF l = front THEN 1 ELSE 3]]

OneLine(p, q, v) == <<[sku |-> p, qty |-> q, value |-> v]>>

\* One sale of two units, one of two lines of the same product
ShopCart == (a :> OneLine(tea, 2, 2)) @@ (b :> OneLine(tea, 1, 1) \o OneLine(tea, 1, 1))
\* A line that spans both locations beside one with a recipe; two lines that are
\* each found the same front unit
BulkCart == (a :> OneLine(tea, 2, 1) \o OneLine(coffee, 1, 0)) @@ (b :> OneLine(tea, 1, 1) \o OneLine(tea, 1, 0))

MCTotal == (a :> 2) @@ (b :> 1)
\* a is charged in the shop's currency, so both awards of it agree; b has no
\* customer
MCAward == (a :> 1) @@ (b :> 0)
MCCharged == (a :> 1) @@ (b :> 0)

=============================================================================
