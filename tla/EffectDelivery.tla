----------------------------- MODULE EffectDelivery ---------------------------
(***************************************************************************)
(* What the pull side of sync promises one terminal, without pages,        *)
(* receipts, anchors or faults: a mutation is performed once, either       *)
(* because it was made here or after some terminal published it.           *)
(***************************************************************************)
EXTENDS Naturals

CONSTANTS
    Mutation, \* business mutations
    Local     \* those this terminal makes itself

VARIABLES
    published, \* mutations the server was handed
    performed  \* how often each was made in this terminal's database

vars == <<published, performed>>

Init ==
    /\ published = {}
    /\ performed = [m \in Mutation |-> 0]

Perform(m) ==
    /\ performed[m] = 0
    /\ performed' = [performed EXCEPT ![m] = 1]
    /\ UNCHANGED published

Make(m) == m \in Local /\ Perform(m)

Deliver(m) == m \in published /\ Perform(m)

Publish(m) ==
    /\ published' = published \cup {m}
    /\ UNCHANGED performed

Next == \E m \in Mutation : Make(m) \/ Deliver(m) \/ Publish(m)

Spec == Init /\ [][Next]_vars

=============================================================================
