------------------------------- MODULE PullSync -------------------------------
(***************************************************************************)
(* The pull half of the sync daemon of one terminal: platform/sync's       *)
(* daemon tick fetches a page of the cloud server's offline_queue, applies *)
(* it item by item through the receipt ledger (sync_applied_items), counts *)
(* failures in sync_remote_failures, and advances the durable anchor       *)
(* (sync_pull_state).  Operators requeue dead letters, the server prunes   *)
(* old rows, other terminals push, and the process may crash anywhere.     *)
(*                                                                         *)
(* What an arm of apply_remote_in_tx does to the business tables is        *)
(* abstracted to "the mutation is performed once more here" (performed);   *)
(* whether an arm returns Err depends on that data, so either may happen.  *)
(***************************************************************************)
EXTENDS Integers, FiniteSets, FiniteSetsExt

CONSTANTS
    Item,         \* ids of the rows terminals push (UUID v7, so ordered)
    Created,      \* client-minted created_at of each item
    Mutation,     \* the business mutations items describe
    Describes,    \* the mutation each item describes
    EffectKey,    \* remote_effect_key of each item
    NoKey,        \* the None of remote_effect_key
    Mine,         \* items this terminal enqueued
    Stamped,      \* those of Mine whose origin_terminal_id names it
    Probed,       \* items whose arm looks for the row of its mutation first
    FilterOwn,    \* the pull token carries the terminal identity
    PageSize,     \* rows per page (500)
    MaxAttempts,  \* apply attempts before an item is dead-lettered (3)
    InOrderPush,  \* no row reaches the server after a later-created one
    MaxRequeue,   \* bound on operator requeues
    MaxFaults     \* bound on crashes, failed requests and failed writes

NoItem == 0

ASSUME ConstantsAssumption ==
    /\ Item \subseteq Nat \ {NoItem}
    /\ IsFiniteSet(Item)
    /\ Created \in [Item -> Nat \ {0}]
    /\ Describes \in [Item -> Mutation]
    /\ EffectKey \in [Item -> Mutation \cup {NoKey}]
    /\ NoKey \notin Mutation
    /\ Stamped \subseteq Mine
    /\ Mine \subseteq Item
    /\ Probed \subseteq Item
    /\ FilterOwn \in BOOLEAN
    /\ PageSize \in Nat \ {0}
    /\ MaxAttempts \in Nat \ {0}
    /\ InOrderPush \in BOOLEAN
    /\ MaxRequeue \in Nat
    /\ MaxFaults \in Nat

\* The identity in an item is minted by the terminal that made the mutation.
ASSUME OneOriginAssumption ==
    \A i \in Mine, j \in Item : Describes[i] = Describes[j] => j \in Mine

VARIABLES
    server,     \* rows of the server's offline_queue
    pushed,     \* every row that was ever inserted there
    since,      \* sync_pull_state.since, 0 for NULL
    cursor,     \* sync_pull_state.cursor, NoItem for NULL
    receipts,   \* rows of sync_applied_items
    attempts,   \* sync_remote_failures.attempts, 0 for no row
    performed,  \* how often each mutation was made on this terminal
    localRows,  \* mutations this terminal made itself (their own rows exist)
    pc,         \* where the daemon's tick is
    prevSince, prevCursor, \* anchor captured when the tick read it
    page,       \* the page in flight
    nextCursor, \* its next_cursor
    todo,       \* items of the page not processed yet
    retryable,  \* retryable_failure of apply_pulled_page
    requeues,   \* operator requeues so far
    faults      \* faults so far

durable == <<since, cursor, receipts, attempts, performed, localRows>>
tick    == <<pc, prevSince, prevCursor, page, nextCursor, todo, retryable>>
bounds  == <<requeues, faults>>
vars    == <<server, pushed, durable, tick, bounds>>

Phases == {"idle", "pulling", "fetched", "applying", "recovering"}

-----------------------------------------------------------------------------
(* Order, keys and the ledger                                              *)

\* ORDER BY created_at ASC, id ASC
Before(i, j) ==
    \/ Created[i] < Created[j]
    \/ Created[i] = Created[j] /\ i < j

\* is_remote_failure_dead_lettered
DeadLettered(i) == attempts[i] = MaxAttempts

\* A receipt carrying the item's effect key exists.
DeliveryOnly(i) == FALSE \* mutant

KeyRecorded(i) ==
    /\ EffectKey[i] # NoKey
    /\ \E j \in receipts : EffectKey[j] = EffectKey[i]

\* The "already" probe of apply_remote_atomic_full
Already(i) == i \in receipts \/ KeyRecorded(i)

\* INSERT OR IGNORE against item_id and the unique effect_key index
WithReceipt(i) == IF KeyRecorded(i) THEN receipts ELSE receipts \cup {i}

\* clear_remote_failure_in_tx
WithoutFailure(i) == [attempts EXCEPT ![i] = 0]

\* The three query shapes of the pull and its origin filter
Visible(s, c) ==
    {i \in server :
        /\ FilterOwn => i \notin Stamped
        /\ Created[i] >= s
        /\ c # NoItem => Before(c, i)}

\* The first PageSize rows in order
FirstPage(rows) ==
    {i \in rows : Cardinality({j \in rows : Before(j, i)}) < PageSize}

LastOf(rows) == CHOOSE i \in rows : \A j \in rows : j = i \/ Before(j, i)

OldestCreated == Min({Created[i] : i \in server})

AnchorExpired ==
    /\ prevCursor = NoItem
    /\ prevSince # 0
    /\ server # {}
    /\ prevSince < OldestCreated

-----------------------------------------------------------------------------

Init ==
    /\ server = {} /\ pushed = {}
    /\ since = 0 /\ cursor = NoItem
    /\ receipts = {} /\ localRows = {}
    /\ attempts = [i \in Item |-> 0]
    /\ performed = [m \in Mutation |-> 0]
    /\ pc = "idle" /\ prevSince = 0 /\ prevCursor = NoItem
    /\ page = {} /\ nextCursor = NoItem /\ todo = {} /\ retryable = FALSE
    /\ requeues = 0 /\ faults = 0

\* apply_pulled_page runs under the database lock.
LockFree == pc # "applying"

(* The world around the daemon *)

\* A mutation made at this till: its rows and its outbox row, one commit.
LocalCommit(m) ==
    /\ LockFree
    /\ m \notin localRows
    /\ \E i \in Mine : Describes[i] = m
    /\ localRows' = localRows \cup {m}
    /\ performed' = [performed EXCEPT ![m] = @ + 1]
    /\ UNCHANGED <<server, pushed, since, cursor, receipts, attempts,
                   tick, bounds>>

\* A row reaches the server: push_batch, ON CONFLICT (id) DO NOTHING.  A row
\* is not pushed again after retention pruned it.
Push(i) ==
    /\ i \notin pushed
    /\ i \in Mine => Describes[i] \in localRows
    /\ InOrderPush => \A j \in pushed : Before(j, i)
    /\ server' = server \cup {i}
    /\ pushed' = pushed \cup {i}
    /\ UNCHANGED <<durable, tick, bounds>>

\* run_prune_cycle deletes the rows created before its cutoff.
Prune(cutoff) ==
    /\ \E i \in server : Created[i] < cutoff
    /\ server' = {i \in server : Created[i] >= cutoff}
    /\ UNCHANGED <<pushed, durable, tick, bounds>>

\* requeue_remote_failure: drop the quarantine row, rewind the anchor.
Requeue(i) ==
    /\ LockFree
    /\ requeues < MaxRequeue
    /\ DeadLettered(i)
    /\ attempts' = WithoutFailure(i)
    /\ since' = 0
    /\ cursor' = NoItem
    /\ requeues' = requeues + 1
    /\ UNCHANGED <<server, pushed, receipts, performed, localRows, tick,
                   faults>>

(* One tick of the daemon *)

Fault ==
    /\ faults < MaxFaults
    /\ faults' = faults + 1

EndTick ==
    /\ pc' = "idle"
    /\ prevSince' = 0 /\ prevCursor' = NoItem
    /\ page' = {} /\ nextCursor' = NoItem /\ todo' = {} /\ retryable' = FALSE

ReadAnchor ==
    /\ pc = "idle"
    /\ pc' = "pulling"
    /\ prevSince' = since
    /\ prevCursor' = cursor
    /\ UNCHANGED <<server, pushed, durable, page, nextCursor, todo,
                   retryable, bounds>>

PageWithoutCursor == \* mutant
    LET rows == Visible(prevSince, prevCursor)
    IN  /\ pc = "pulling"
        /\ ~AnchorExpired
        /\ IF rows = {}
             THEN EndTick
             ELSE /\ pc' = "fetched"
                  /\ page' = FirstPage(rows)
                  /\ todo' = FirstPage(rows)
                  /\ nextCursor' = NoItem
                  /\ UNCHANGED <<prevSince, prevCursor, retryable>>
        /\ UNCHANGED <<server, pushed, durable, bounds>>

\* 200: a page; an empty one ends the tick without touching the anchor.
PullPage ==
    LET rows == Visible(prevSince, prevCursor)
        first == FirstPage(rows)
    IN  /\ pc = "pulling"
        /\ ~AnchorExpired
        /\ IF rows = {}
             THEN EndTick
             ELSE /\ pc' = "fetched"
                  /\ page' = first
                  /\ todo' = first
                  /\ nextCursor' = IF first = rows THEN NoItem ELSE LastOf(first)
                  /\ UNCHANGED <<prevSince, prevCursor, retryable>>
        /\ UNCHANGED <<server, pushed, durable, bounds>>

\* 410 anchor_expired: remember oldest_available and fetch a snapshot.
PullExpired ==
    /\ pc = "pulling"
    /\ AnchorExpired
    /\ pc' = "recovering"
    /\ prevSince' = OldestCreated
    /\ UNCHANGED <<server, pushed, durable, prevCursor, page,
                   nextCursor, todo, retryable, bounds>>

\* recover_expired_anchor: import the snapshot, restart at oldest_available.
Recover ==
    /\ pc = "recovering"
    /\ since' = prevSince
    /\ cursor' = NoItem
    /\ EndTick
    /\ UNCHANGED <<server, pushed, receipts, attempts, performed, localRows,
                   bounds>>

\* Any request of the tick fails, or the snapshot cannot be imported.
RequestFails ==
    /\ pc \in {"pulling", "recovering"}
    /\ Fault
    /\ EndTick
    /\ UNCHANGED <<server, pushed, durable, requeues>>

\* The blocking task takes the database lock.
BeginApply ==
    /\ pc = "fetched"
    /\ pc' = "applying"
    /\ UNCHANGED <<server, pushed, durable, prevSince, prevCursor,
                   page, nextCursor, todo, retryable, bounds>>

(* apply_remote_atomic_full, one case per way out *)

\* A quarantined item is not retried.
SkipQuarantined(i) ==
    /\ DeadLettered(i)
    /\ UNCHANGED <<receipts, attempts, performed, retryable>>

\* The origin gate: applied here before it was pushed, record it as such.
SkipOwn(i) ==
    /\ ~DeadLettered(i)
    /\ i \in Stamped
    /\ receipts' = WithReceipt(i)
    /\ attempts' = WithoutFailure(i)
    /\ UNCHANGED <<performed, retryable>>

\* The item or its effect is already in the ledger.
SkipRecorded(i) ==
    /\ ~DeadLettered(i)
    /\ i \notin Stamped
    /\ Already(i)
    /\ UNCHANGED <<receipts, attempts, performed, retryable>>

ReceiptLost(i) == \* mutant
    /\ ~DeadLettered(i)
    /\ i \notin Stamped
    /\ ~Already(i)
    /\ performed' = IF i \in Probed /\ Describes[i] \in localRows
                      THEN performed
                      ELSE [performed EXCEPT ![Describes[i]] = @ + 1]
    /\ attempts' = WithoutFailure(i)
    /\ UNCHANGED <<receipts, retryable>>

\* Mutation and receipt commit together.  An arm that looks for the row the
\* mutation wrote in this database (refunds.id, payments.id, the sale and its
\* terminal_id) and finds it changes nothing.
ArmSucceeds(i) ==
    /\ ~DeadLettered(i)
    /\ i \notin Stamped
    /\ ~Already(i)
    /\ performed' = IF i \in Probed /\ Describes[i] \in localRows
                      THEN performed
                      ELSE [performed EXCEPT ![Describes[i]] = @ + 1]
    /\ receipts' = WithReceipt(i)
    /\ attempts' = WithoutFailure(i)
    /\ UNCHANGED retryable

\* The arm fails: roll back, record_remote_failure counts the attempt.
ReceiptDespiteFailure(i) == \* mutant
    /\ ~DeadLettered(i)
    /\ i \notin Stamped
    /\ ~Already(i)
    /\ receipts' = WithReceipt(i)
    /\ attempts' = [attempts EXCEPT ![i] = @ + 1]
    /\ retryable' = (retryable \/ attempts'[i] < MaxAttempts)
    /\ UNCHANGED performed

RetryForever(i) == \* mutant
    /\ i \notin Stamped
    /\ ~Already(i)
    /\ attempts' = [attempts EXCEPT ![i] = @ + 1]
    /\ retryable' = (retryable \/ attempts'[i] < MaxAttempts)
    /\ UNCHANGED <<receipts, performed>>

ArmFails(i) ==
    /\ ~DeadLettered(i)
    /\ i \notin Stamped
    /\ ~Already(i)
    /\ attempts' = [attempts EXCEPT ![i] = @ + 1]
    /\ retryable' = (retryable \/ attempts'[i] < MaxAttempts)
    /\ UNCHANGED <<receipts, performed>>

\* One iteration of the loop of apply_pulled_page
ApplyNext(i) ==
    /\ pc = "applying"
    /\ i \in todo
    /\ \A j \in todo \ {i} : Before(i, j)
    /\ todo' = todo \ {i}
    /\ \/ SkipQuarantined(i)
       \/ SkipOwn(i)
       \/ SkipRecorded(i)
       \/ ArmSucceeds(i)
       \/ ArmFails(i)
    /\ UNCHANGED <<server, pushed, since, cursor, localRows, pc,
                   prevSince, prevCursor, page, nextCursor, bounds>>

AdvanceBlindly == \* mutant
    /\ pc = "applying"
    /\ todo = {}
    /\ IF ~retryable
         THEN /\ since' = Max({Created[i] : i \in page})
              /\ cursor' = nextCursor
         ELSE UNCHANGED <<since, cursor>>
    /\ EndTick
    /\ UNCHANGED <<server, pushed, receipts, attempts, performed, localRows,
                   bounds>>

\* The end of apply_pulled_page: advance unless an item must be retried or
\* the durable anchor is no longer the one this tick read (SYNC-09).
FinishPage ==
    /\ pc = "applying"
    /\ todo = {}
    /\ IF ~retryable /\ since = prevSince /\ cursor = prevCursor
         THEN /\ since' = Max({Created[i] : i \in page})
              /\ cursor' = nextCursor
         ELSE UNCHANGED <<since, cursor>>
    /\ EndTick
    /\ UNCHANGED <<server, pushed, receipts, attempts, performed, localRows,
                   bounds>>

\* The stock summary rebuild or the anchor write fails: anchor retained.
RetainAnchor ==
    /\ pc = "applying"
    /\ todo = {}
    /\ Fault
    /\ EndTick
    /\ UNCHANGED <<server, pushed, durable, requeues>>

\* The process stops and restarts with its database only.
Crash ==
    /\ pc # "idle"
    /\ Fault
    /\ EndTick
    /\ UNCHANGED <<server, pushed, durable, requeues>>

Apply == \E i \in Item : ApplyNext(i)

Next ==
    \/ \E m \in Mutation : LocalCommit(m)
    \/ \E i \in Item : Push(i)
    \/ \E i \in Item : Prune(Created[i])
    \/ \E i \in Item : Requeue(i)
    \/ ReadAnchor
    \/ PullPage
    \/ PullExpired
    \/ Recover
    \/ RequestFails
    \/ BeginApply
    \/ Apply
    \/ FinishPage
    \/ RetainAnchor
    \/ Crash

Spec == Init /\ [][Next]_vars

\* tokio runs the tick's steps; the world owes nothing.
Fairness ==
    /\ WF_vars(ReadAnchor)
    /\ WF_vars(PullPage)
    /\ WF_vars(PullExpired)
    /\ WF_vars(Recover)
    /\ WF_vars(BeginApply)
    /\ WF_vars(Apply)
    /\ WF_vars(FinishPage)

FairSpec == Spec /\ Fairness

-----------------------------------------------------------------------------

\* The type invariant: rows of every table are rows the code can write.
TypeOK ==
    /\ server \subseteq pushed /\ pushed \subseteq Item
    /\ since \in Nat /\ cursor \in Item \cup {NoItem}
    /\ receipts \subseteq Item
    /\ attempts \in [Item -> 0..MaxAttempts]
    /\ performed \in [Mutation -> Nat]
    /\ localRows \subseteq Mutation
    /\ pc \in Phases
    /\ prevSince \in Nat /\ prevCursor \in Item \cup {NoItem}
    /\ page \subseteq Item /\ todo \subseteq page
    /\ nextCursor \in Item \cup {NoItem}
    /\ retryable \in BOOLEAN
    /\ requeues \in 0..MaxRequeue /\ faults \in 0..MaxFaults

\* The item needs no further pull: its effect is recorded, it is quarantined
\* for an operator, or the server would never hand it to its originator.
Settled(i) ==
    \/ Already(i)
    \/ DeadLettered(i)
    \/ FilterOwn /\ i \in Stamped

\* C3, "the receipt is keyed on the EFFECT": no mutation is made twice in
\* this database, whatever ids it is delivered under, however often a page is
\* replayed after a crash, a requeue or an expired anchor.
AtMostOnce == \A m \in Mutation : performed[m] <= 1

\* SYNC-01/SYNC-09: the durable anchor never leaves behind a row of the
\* server that is neither applied nor quarantined, though pages are applied
\* long after they were requested and operators rewind meanwhile.
NoSkip ==
    \A i \in server : i \in Visible(since, cursor) \/ Settled(i)

\* "The effect key is the identity of the mutation itself": an item of the
\* server that the ledger skips as already applied describes a mutation that
\* was made here, so a receipt never stands in for a mutation that is lost.
LedgerSkipsOnlyPerformed ==
    \A i \in pushed : Already(i) => performed[Describes[i]] >= 1

\* What the ledger is for: through pages, faults and replays the terminal
\* still performs each mutation once, made here or published before.
Delivery == INSTANCE EffectDelivery
              WITH published <- {Describes[i] : i \in pushed},
                   Local <- {Describes[i] : i \in Mine}

DeliversEffectsOnce == Delivery!Spec

\* Eventual consistency: what the server holds reaches this terminal or its
\* quarantine, again after every requeue, unless it is pruned first.
EventuallySettled ==
    \A i \in Item : i \in server ~> (Settled(i) \/ i \notin server)

\* The hypothesis on the keys that keeps a mutation from being made twice: the
\* items of one mutation share its key, and a keyless mutation has one item.
MutationsKeepKeys ==
    \A i, j \in Item :
        Describes[i] = Describes[j]
        => i = j \/ (EffectKey[i] # NoKey /\ EffectKey[i] = EffectKey[j])

\* The hypothesis on the keys that keeps one from being lost: a key names one
\* mutation.  The key of a settings item names the setting, not the value saved.
KeysNameMutations ==
    \A i, j \in Item :
        EffectKey[i] # NoKey /\ EffectKey[i] = EffectKey[j]
        => Describes[i] = Describes[j]

\* The hypothesis on origins: what this terminal pushed without its identity
\* is recognised by the arm.
OwnItemsRecognised == Mine \subseteq Stamped \cup Probed

=============================================================================
