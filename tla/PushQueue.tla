------------------------------- MODULE PushQueue ------------------------------
(***************************************************************************)
(* The push half of sync: the outbox (offline_queue) of one till.  A       *)
(* mutation queues a row inside its own transaction, or an event handler   *)
(* queues one afterwards; the two may write different database files (the  *)
(* desktop settles in store-<id>.sqlite, its handlers and daemons work on  *)
(* the global one).  Pushers - daemons, and commands of an operator - each *)
(* snapshot the pending rows, send them with no lock held, and mark them   *)
(* from the answer; requests and answers get lost and the process may stop *)
(* at any point.                                                           *)
(*                                                                         *)
(* A 401 that is refreshed and resent within one request changes nothing   *)
(* on either side and is part of that request.  The bundled server never   *)
(* answers Conflict.  Push order is abstracted: where a loop stops early,  *)
(* any part of the batch may have been processed.                          *)
(***************************************************************************)
EXTENDS Naturals, FiniteSets

CONSTANTS
    Mutation,  \* sales, refunds, adjustments, settings made at this till
    Lanes,     \* which of "tx" and "event" queue a row for each mutation
    TxDb,      \* database file of the rows queued in the transaction
    EventDb,   \* database file of the rows queued by event handlers
    Pusher,    \* daemons and operator commands that drain an outbox
    Reads,     \* the database file each one drains
    Keeps,     \* those that leave rows pending when a request fails
    Daemon,    \* those that run by themselves
    MaxFaults, \* bound on lost requests, answers and events, and on crashes
    MaxDeletes \* bound on deleted rows

ASSUME ConstantsAssumption ==
    /\ Lanes \in [Mutation -> SUBSET {"tx", "event"}]
    /\ Keeps \subseteq Pusher
    /\ Daemon \subseteq Pusher
    /\ MaxFaults \in Nat
    /\ MaxDeletes \in Nat

Row == {r \in Mutation \X {"tx", "event"} : r[2] \in Lanes[r[1]]}

Status  == {"none", "pending", "synced", "failed", "deleted"}
Outcome == {"none", "accepted", "duplicate", "rejected", "error"}
Phase   == {"idle", "sending", "answered"}

VARIABLES
    status,    \* offline_queue.status of each row
    committed, \* mutations committed at this till
    events,    \* of those, the ones whose event is not handled yet
    server,    \* rows the server ever inserted
    refused,   \* rows the server ever rejected
    pc,        \* where each pusher is
    batch,     \* its snapshot of the pending rows
    outcome,   \* its answer, row by row
    faults,
    deletes

till    == <<status, committed, events>>
remote  == <<server, refused>>
pushers == <<pc, batch, outcome>>
vars    == <<till, remote, pushers, faults, deletes>>

NoAnswer == [r \in Row |-> "none"]

DbOf(r) == IF r[2] = "tx" THEN TxDb ELSE EventDb

OutboxOf(p) == {r \in Row : DbOf(r) = Reads[p]}

\* list_pending_offline on the database of p
AnyOutbox(p) == {r \in Row : status[r] = "pending"} \* mutant

Pending(p) == {r \in OutboxOf(p) : status[r] = "pending"}

Fault ==
    /\ faults < MaxFaults
    /\ faults' = faults + 1

-----------------------------------------------------------------------------
(* Marks                                                                   *)

\* mark_offline_synced: a compare-and-set on `pending`
BlindSync(r) == IF status[r] = "deleted" THEN "deleted" ELSE "synced" \* mutant

MarkSynced(r) == IF status[r] = "pending" THEN "synced" ELSE status[r]

\* mark_offline_failed: no guard but the row's existence
MarkFailed(r) == IF status[r] = "deleted" THEN "deleted" ELSE "failed"

\* Outcomes that prove the server holds the row (is_duplicate_id_rejection)
AcceptedOnly(o) == o = "accepted" \* mutant

Positive(o) == o \in {"accepted", "duplicate"}

\* What a failed request does to a row: nothing, or mark_all_failed.
MarkError(p, r) == IF p \in Keeps THEN status[r] ELSE MarkFailed(r)

Mark(p, r) ==
    IF Positive(outcome[p][r]) THEN MarkSynced(r)
    ELSE IF outcome[p][r] = "error" THEN MarkError(p, r)
    ELSE MarkFailed(r)

Marked(p, done) ==
    [r \in Row |-> IF r \in done THEN Mark(p, r) ELSE status[r]]

\* Rows a marking loop may have processed when it ends: a positive mark of a
\* missing row is NotFound, logged by those that keep, fatal to the others.
Processed(p) ==
    LET missing == {r \in batch[p] : /\ status[r] = "deleted"
                                     /\ Positive(outcome[p][r])}
    IN  IF p \in Keeps \/ missing = {}
          THEN {batch[p]}
          ELSE SUBSET (batch[p] \ missing)

-----------------------------------------------------------------------------

Init ==
    /\ status = [r \in Row |-> "none"]
    /\ committed = {} /\ events = {}
    /\ server = {} /\ refused = {}
    /\ pc = [p \in Pusher |-> "idle"]
    /\ batch = [p \in Pusher |-> {}]
    /\ outcome = [p \in Pusher |-> NoAnswer]
    /\ faults = 0 /\ deletes = 0

(* The till *)

\* The business transaction commits, with its outbox row if it writes one,
\* and publishes its event if a handler queues it.
Commit(m) ==
    /\ m \notin committed
    /\ committed' = committed \cup {m}
    /\ events' = IF "event" \in Lanes[m] THEN events \cup {m} ELSE events
    /\ status' = [r \in Row |-> IF r = <<m, "tx">> THEN "pending"
                                ELSE status[r]]
    /\ UNCHANGED <<remote, pushers, faults, deletes>>

\* SaleSyncEnqueuer::handle: queue a row unless this database already has a
\* pending one for the mutation (has_pending_outbox_row_for_sale).
HandleEvent(m) ==
    /\ m \in events
    /\ events' = events \ {m}
    /\ status' =
         [status EXCEPT ![<<m, "event">>] =
             IF \E r \in Row : /\ r[1] = m
                               /\ DbOf(r) = EventDb
                               /\ status[r] = "pending"
               THEN @ ELSE "pending"]
    /\ UNCHANGED <<committed, remote, pushers, faults, deletes>>

\* The bus logs a handler's error or panic and goes on.
LoseEvent(m) ==
    /\ m \in events
    /\ Fault
    /\ events' = events \ {m}
    /\ UNCHANGED <<status, committed, remote, pushers, deletes>>

\* delete_offline_item by an operator, or a newer save of the same setting
Delete(r) ==
    /\ deletes < MaxDeletes
    /\ status[r] \notin {"none", "deleted"}
    /\ status' = [status EXCEPT ![r] = "deleted"]
    /\ deletes' = deletes + 1
    /\ UNCHANGED <<committed, events, remote, pushers, faults>>

(* One push *)

Idle(p) ==
    /\ pc' = [pc EXCEPT ![p] = "idle"]
    /\ batch' = [batch EXCEPT ![p] = {}]
    /\ outcome' = [outcome EXCEPT ![p] = NoAnswer]

\* Snapshot the pending rows under the lock and release it; none, no push.
Read(p) ==
    /\ pc[p] = "idle"
    /\ Pending(p) # {}
    /\ pc' = [pc EXCEPT ![p] = "sending"]
    /\ batch' = [batch EXCEPT ![p] = Pending(p)]
    /\ UNCHANGED <<till, remote, outcome, faults, deletes>>

\* push_batch: one transaction; ids already held are reported as duplicates,
\* rows the database or the id check refuses are rejected one by one.
Serve(p) ==
    /\ pc[p] = "sending"
    /\ \E bad \in SUBSET (batch[p] \ server) :
         /\ server' = server \cup (batch[p] \ bad)
         /\ refused' = refused \cup bad
         /\ outcome' = [outcome EXCEPT ![p] =
              [r \in Row |-> IF r \notin batch[p] THEN "none"
                             ELSE IF r \in bad THEN "rejected"
                             ELSE IF r \in server THEN "duplicate"
                             ELSE "accepted"]]
    /\ pc' = [pc EXCEPT ![p] = "answered"]
    /\ UNCHANGED <<till, batch, faults, deletes>>

Unanswered(p, o) ==
    /\ pc' = [pc EXCEPT ![p] = "answered"]
    /\ outcome' = [outcome EXCEPT ![p] =
         [r \in Row |-> IF r \in batch[p] THEN o ELSE "none"]]

StubAccepts(p) == \* mutant
    /\ pc[p] = "sending"
    /\ Fault
    /\ UNCHANGED remote
    /\ Unanswered(p, "accepted")
    /\ UNCHANGED <<till, batch, deletes>>

\* The request does not get through, or its answer is lost on the way back.
RequestFails(p) ==
    /\ pc[p] = "sending"
    /\ Fault
    /\ \/ UNCHANGED remote
       \/ \E bad \in SUBSET (batch[p] \ server) :
            /\ server' = server \cup (batch[p] \ bad)
            /\ refused' = refused \cup bad
    /\ Unanswered(p, "error")
    /\ UNCHANGED <<till, batch, deletes>>

\* 403 plan_required: every pusher leaves its rows pending.
PlanGate(p) ==
    /\ pc[p] = "sending"
    /\ Fault
    /\ Idle(p)
    /\ UNCHANGED <<till, remote, deletes>>

StuckAfterError(p) == \* mutant
    /\ pc[p] = "answered"
    /\ \E done \in Processed(p) : status' = Marked(p, done)
    /\ IF \E r \in batch[p] : outcome[p][r] = "error"
         THEN UNCHANGED pushers
         ELSE Idle(p)
    /\ UNCHANGED <<committed, events, remote, faults, deletes>>

\* apply_push_results / apply_sync_outcomes / mark_all_failed
Apply(p) ==
    /\ pc[p] = "answered"
    /\ \E done \in Processed(p) : status' = Marked(p, done)
    /\ Idle(p)
    /\ UNCHANGED <<committed, events, remote, faults, deletes>>

\* The process stops, maybe in the middle of one pusher's marks.
Crash ==
    /\ Fault
    /\ \/ UNCHANGED status
       \/ \E p \in Pusher : /\ pc[p] = "answered"
                            /\ \E all \in Processed(p) :
                                 \E done \in SUBSET all :
                                   status' = Marked(p, done)
    /\ events' = {}
    /\ pc' = [p \in Pusher |-> "idle"]
    /\ batch' = [p \in Pusher |-> {}]
    /\ outcome' = [p \in Pusher |-> NoAnswer]
    /\ UNCHANGED <<committed, remote, deletes>>

Next ==
    \/ \E m \in Mutation : Commit(m) \/ HandleEvent(m) \/ LoseEvent(m)
    \/ \E r \in Row : Delete(r)
    \/ \E p \in Pusher : \/ Read(p) \/ Serve(p) \/ RequestFails(p)
                         \/ PlanGate(p) \/ Apply(p)
    \/ Crash

Spec == Init /\ [][Next]_vars

\* A daemon ticks for ever and its requests end; operators owe nothing.
Fairness ==
    \A p \in Daemon : /\ WF_vars(Read(p))
                      /\ WF_vars(Serve(p))
                      /\ WF_vars(Apply(p))

FairSpec == Spec /\ Fairness

-----------------------------------------------------------------------------

\* The type invariant: a pusher only ever holds rows of the database it reads
\* and writes back to (C59), and an answer only for its batch.
TypeOK ==
    /\ status \in [Row -> Status]
    /\ committed \subseteq Mutation /\ events \subseteq committed
    /\ server \subseteq Row /\ refused \subseteq Row
    /\ pc \in [Pusher -> Phase]
    /\ batch \in [Pusher -> SUBSET Row]
    /\ outcome \in [Pusher -> [Row -> Outcome]]
    /\ \A p \in Pusher : batch[p] \subseteq OutboxOf(p)
    /\ faults \in 0..MaxFaults /\ deletes \in 0..MaxDeletes

\* No false acknowledgement: a row shown as synced reached the server,
\* whichever pusher marked it and whatever was lost in between.
SyncedIsHeld == \A r \in Row : status[r] = "synced" => r \in server

\* Rows that a pusher has to itself
Own(p) == {r \in Row : \A q \in Pusher : Reads[q] = DbOf(r) <=> q = p}

\* "Marking a successful replay `failed` would strand it permanently": a row
\* the server holds is never left in the state that has no way out, if the one
\* pusher of its outbox keeps rows pending when a request fails.
NotStranded ==
    \A p \in Keeps : \A r \in Own(p) : r \in server => status[r] # "failed"

\* mark_offline_synced: a stale or double caller cannot overwrite a
\* dead-lettered row's terminal state with synced.
DeadLetterIsFinal ==
    [][\A r \in Row : status[r] = "failed"
                      => status'[r] \in {"failed", "deleted"}]_vars

\* What the shop is promised of a row, whoever pushes, overlaps and marks: it is
\* queued once for its mutation, acknowledged only while the server has it, and
\* never comes back from the dead letters or from deletion.
Contract == INSTANCE OutboxContract

HonoursContract == Contract!Spec

\* A queued row of an outbox that a keeping daemon has to itself is pushed once
\* requests get through again: it reaches the server, unless the server rejects
\* it or somebody deletes it.
QueuedReachesServer ==
    \A p \in Daemon \cap Keeps : \A r \in Own(p) :
        status[r] = "pending"
        ~> (r \in server \/ r \in refused \/ status[r] = "deleted")

=============================================================================
