---------------------------- MODULE OutboxContract -----------------------------
(***************************************************************************)
(* What the outbox promises about a row, without lanes, databases,         *)
(* snapshots, pushers, answers or faults: it is queued once, the server    *)
(* gets only rows that were queued, a row is acknowledged only if the      *)
(* server has it, and a dead letter or a deleted row stays what it is.     *)
(***************************************************************************)
CONSTANT Row

VARIABLES
    status, \* what the till says of each row
    server  \* rows the server has

vars == <<status, server>>

Init ==
    /\ status = [r \in Row |-> "none"]
    /\ server = {}

Queue(r) ==
    /\ status[r] = "none"
    /\ status' = [status EXCEPT ![r] = "pending"]
    /\ UNCHANGED server

Receive(rows) ==
    /\ \A r \in rows : status[r] # "none"
    /\ server' = server \cup rows
    /\ UNCHANGED status

\* Any rows at once; what was acknowledged may still be given up, by a pusher
\* that learned less
Mark(good, bad) ==
    /\ \A r \in good : status[r] = "pending" /\ r \in server
    /\ \A r \in bad : status[r] \in {"pending", "synced"}
    /\ status' = [r \in Row |-> CASE r \in good -> "synced"
                                  [] r \in bad  -> "failed"
                                  [] OTHER      -> status[r]]
    /\ UNCHANGED server

Delete(r) ==
    /\ status[r] \notin {"none", "deleted"}
    /\ status' = [status EXCEPT ![r] = "deleted"]
    /\ UNCHANGED server

Next ==
    \/ \E r \in Row : Queue(r) \/ Delete(r)
    \/ \E rows \in SUBSET Row : Receive(rows)
    \/ \E good \in SUBSET Row, bad \in SUBSET Row : good \cap bad = {} /\ Mark(good, bad)

Spec == Init /\ [][Next]_vars

=============================================================================
