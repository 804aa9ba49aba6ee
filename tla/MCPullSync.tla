------------------------------ MODULE MCPullSync ------------------------------
(***************************************************************************)
(* Instances of PullSync.  Items 1 and 2 deliver one mutation of another   *)
(* terminal under two ids (its outbox row and its event row); 3 is a       *)
(* mutation of this till enqueued before pairing (no origin); 4 is a later *)
(* stock.adjusted of another terminal (no effect key); 5 is a mutation of  *)
(* this till that carries its origin; 6 and 7 are two successive values of *)
(* one setting saved on another terminal.  2 and 3 share a created_at.     *)
(***************************************************************************)
EXTENDS PullSync

CONSTANTS sale, refund, adjust, void, value1, value2

MCCreated ==
    [i \in Item |-> CASE i = 3 -> 2 [] i \in {4, 5} -> 3 [] OTHER -> i]

MCDescribes ==
    [i \in Item |-> CASE i \in {1, 2} -> sale
                      [] i = 3 -> refund
                      [] i = 4 -> adjust
                      [] i = 5 -> void
                      [] i = 6 -> value1
                      [] OTHER -> value2]

\* remote_effect_key: `setting:<key>` for both values of the setting,
\* nothing for stock.adjusted, the mutation's own id otherwise
MCEffectKey ==
    [i \in Item |-> CASE i = 4 -> NoKey
                      [] i \in {6, 7} -> value1
                      [] OTHER -> MCDescribes[i]]

MCMine    == Item \cap {3, 5}
MCStamped == Item \cap {5}
MCProbed  == Item \cap {1, 2, 3, 5}

=============================================================================
