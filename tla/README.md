# A verification project for OZ-POS

OZ-POS is an offline-first point of sale: tills (a desktop shell and a tablet
shell over one Rust core, SQLite on each) that sell, refund and count stock
without a network, and a cloud server through which the tills of one shop learn
of each other's mutations. This directory holds TLA+ modules for the parts of it
whose correctness depends on the order in which things happen, TLC
configurations that check them on small instances, and proofs checked by TLAPS
for every value of the constants. Paths below are relative to `src/`.

Contents: 1 inventory, 2 modules and how they correspond to the code, 3 runs,
bounds and fairness, 4 what is proved and how, 5 where the code disagrees with
its own words, 6 what is only model-checked or not modelled, 7 plan.

## 1. Inventory

| Component | State | Operations | What is hard | What makes it correct |
|---|---|---|---|---|
| **Pull half of the sync daemon** `platform/sync/src/daemon_tick.rs`, `queue.rs` | anchor `sync_pull_state(since, cursor)`, receipts `sync_applied_items`, quarantine `sync_remote_failures` | tick: read anchor, request a page, apply it item by item, advance; recover from an expired anchor; operator requeue | the anchor is read long before it is written; pages are replayed after crashes, requeues and snapshots; one mutation arrives under several ids | no effect twice, none passed over, all eventually applied or quarantined |
| **Outbox and its pushers** `kasirmu-core/src/db/offline.rs`, `sync_client.rs`, `platform/sync/src/daemon.rs`, `kasirmu-bridge/src/offline.rs`, `mobile-tauri/src/lib.rs` | `offline_queue.status` | queue (in the transaction or by an event handler), delete, snapshot-send-mark by daemon, tablet daemon and operator commands | the database lock is not held while a request is in flight; several pushers; lost answers; two database files on the desktop | synced means the server has it; nothing it has is `failed`; every row gets there |
| **Cloud sync endpoints** `apps/cloud-server/src/sync_api.rs`, `sync_store/*` | server `offline_queue`, conflict table | push (insert or ignore), pull (page after anchor, 410 when expired), snapshot | retention overtakes an offline till | the page order agrees with the anchor order |
| **Retention** `apps/cloud-server/src/prune.rs` | the same table | delete rows older than a cutoff | runs at any time | an overtaken till learns that it was |
| **Sales** `kasirmu-core/src/db/sales_checkout.rs`, `sales_lifecycle.rs`, `sale_deduction.rs` | `sales.status`, `deduction_locations`, `stock_summary` | checkout, resolved shortfall, finalize, void of a pending sale, reaper | screens, webhook rows and the reaper settle one sale; the reaper lists first and voids later | books match the shelf, a settled sale stays settled, a pending one is settled |
| **Refunds** `db/refunds.rs` | `refunds`, `refund_lines` | create_refund | several partial refunds of lines taken from several places | within the sale; stock goes back where it came from |
| **Loyalty** `db/loyalty.rs` | `loyalty_transactions` | award on completion, proportional reversal on refund; redemption, tiers | rounding of partial reversals | an award once, never taken back twice |
| **Kitchen board** `db/kds_orders.rs`, `kds_lines.rs`, `kasirmu-lan` | tickets, line states | create, serve, cancel; LAN replication | the ticket is created by a call of its own | no ticket for a voided sale |
| **Stock** `db/products_stock_adjust/*`, `inventory.rs`, `stock_counts.rs`, `stock_transfers.rs` | `stock_summary`, movements | adjust, batch, count, transfer, rebuild | counts against moving stock | summary equals movements; no overselling |
| **Remote apply arms, conflict resolution** `platform/sync/src/queue.rs`, `conflict.rs` | business tables | one arm per kind of mutation; LWW, version, sale and stock merge | both tills changed one row | convergence |
| **Version vectors** `platform/sync/src/crdt/*`, `apps/cloud-server/src/conflict_resolution.rs` | stamps and merged vectors | stamp a push, compare, merge | a till's stamp against a vector merged from several tills | real conflicts and only those |
| **PostgreSQL daemon** `platform/sync/src/pg_daemon.rs` | shares outbox and anchor with the HTTP daemon | push and pull against another remote | two remotes, one status column | as for push and pull |
| **Checkout commands** `kasirmu-bridge/src/pos.rs`, `ui/.../PaymentModal.tsx`, `StockShortfallDialog.tsx` | attempt ids, split keys | settle, retry with the same attempt id, resolve a shortfall | lost answers, stale dialogs | one charge, one deduction |
| **QRIS and the payment ledger** `ui/src/features/sales/payment/useAutoQr.ts`, `apps/cloud-server/src/payment_api.rs`, `midtrans_ledger.rs`, `webhooks/midtrans.rs` | `midtrans` orders, dialog phase | charge, poll, webhook, reissue, cancel, finalize | the customer pays an order the till has given up | paid sales are completed and not voided |
| **Event bus, kernel** `platform/kernel/src/*` | handlers, module states | publish, start, stop | a handler fails; a stop before delivery | handlers see committed state |
| **Cloud outbox, outbound webhooks** `apps/cloud-server/src/outbox.rs`, `outbound_webhooks.rs` | outbox rows, attempts | enqueue, deliver, retry | restart between delivery and mark | each event queued once per endpoint, delivered or given up after the last attempt |
| Purchase orders, shifts, gift cards, tax, promotions | own tables | sequential commands | amounts | sums |
| Settings, RBAC, licences, rate limits, plugins, UI, hardware, reports | own tables | see `PROJECT.json` | | |

How they interact. A checkout commits, in one transaction, the sale, its stock
movements and an outbox row; handlers on the event bus react to `sale.completed`
and may queue rows of their own. Pushers send the outbox to the server; other
tills' daemons pull the rows and apply them through the receipt ledger. On the
**desktop** there are two database files: checkout and refunds write
`store-<id>.sqlite`, while the daemons, the event handlers and the reaper work on
the global database (`apps/desktop-tauri/src/lib.rs:316-354`); only the operator
commands `retry_offline_sync_scoped` and `sync_run_scoped` drain a store's file. On
the **tablet** all of it shares `state.db`
(`apps/mobile-tauri/src/lib.rs:400-510`).

The hazards found while reading, each at its line, are in `PROJECT.json` under
`hazards`, with the properties that cover them or the reason none does yet.

## 2. Modules

### `PullSync` (with the abstract `EffectDelivery`)

One terminal's pull phase, the server's queue, retention and the other tills.
Every step of the tick at which something else can happen is an action:

| Code | Action |
|---|---|
| `run_tick` reads the anchor, releases the lock | `ReadAnchor` |
| `pull_handler`: page after `(created_at, id)`, `next_cursor`; 410 | `PullPage`, `PullExpired` |
| the page waits for the lock, then `apply_pulled_page` under it | `BeginApply`, `ApplyNext(i)`, `FinishPage`, `RetainAnchor` |
| the ways out of `apply_remote_atomic_full` | `SkipQuarantined`, `SkipOwn`, `SkipRecorded`, `ArmSucceeds`, `ArmFails` |
| `recover_expired_anchor` | `Recover` |
| `requeue_remote_failure` | `Requeue(i)` |
| a mutation at this till, a push by any till, `run_prune_cycle` | `LocalCommit`, `Push`, `Prune` |
| process stop, failed request | `Crash`, `RequestFails` |

`since`, `cursor`, `receipts` and `attempts` are the columns of the three tables;
`prevSince`, `prevCursor`, `page`, `todo` are the tick's local variables, lost in
a crash. What an arm does to the business tables is abstracted to `performed[m] + 1`;
an arm that first looks for the row of its mutation (`Probed`) does nothing when
the till made the mutation itself. `ArmSucceeds` and `ArmFails` are both possible
because an arm's result depends on data outside the model. An identity of a
mutation is minted by one terminal (`OneOriginAssumption`).

`EffectDelivery` is the abstract promise: a mutation is performed once, after it was
made here or published. `PullSync` implements it (`DeliversEffectsOnce`, with
`published` and `Local` as the obvious images).

### `PushQueue` (with the abstract `OutboxContract`)

The outbox of one till, over one or two database files. `Commit` queues the row of
the transaction, `HandleEvent` the handler's row after its probe, `Delete` stands
for an operator's delete and for a newer save of one setting. A push is three
actions, because the lock is held in none of the gaps: `Read` (snapshot of pending
rows), `Serve` / `RequestFails` / `PlanGate` (the server commits or not, the answer
arrives or not), `Apply` (the marking loop). `Keeps` are the pushers that leave rows
pending on a failed request (desktop daemon); the others mark the whole batch failed
(`mark_all_failed`). `Own(p)` are the rows only the keeping pusher `p` ever
reads. `Mark` has the code's guards: `mark_offline_synced` is a
compare-and-set on `pending`, `mark_offline_failed` has none; `Processed` models the
loops that end at the first missing row. `Crash` may stop a loop anywhere.

`OutboxContract` is what a reader of one row relies on: it is queued once, the server gets
only queued rows, it is acknowledged only if the server has it, and a dead letter or a
deleted row stays that. `status` and `server` map to themselves; snapshots, answers, faults
and lanes are gone. A marking loop is one step that acknowledges some rows and gives others
up, and an acknowledged row may still be given up: `mark_offline_failed` has no guard.

### `SaleLedger` (with the abstract `SaleContract`)

The life of a sale in one till's database. Each operation of the code runs in one
`IMMEDIATE` transaction, so each is one action; the interleaving is between them:

| Code | Action |
|---|---|
| `complete_sale_deduction_with_locations_and_estimate` | `Checkout` (`Allocation` = `allocate_stock_in_route_order`) |
| `complete_sale_with_resolved_shortfalls` | `CheckoutResolved` |
| `finalize_sale` (screen or webhook row) | `FinalizeSale` |
| `void_pending_sale` (command) | `VoidPendingSale` |
| `find_stale_pending_sales`, then one void per sale | `ReapScan`, `ReapOne` |
| `pending_expires_at` passes | `Expire` |
| `complete_sale_to_kds_fanout`, `update_kds_status` | `CreateTicket`, `ServeTicket` |
| `create_refund` with credits, reversal, ticket and outbox row | `Refund` |
| `apply_customer_stats_on_completion`, whose failure is logged | `AwardOnCompletion` |
| the listener of `sale.completed`; the command that earns by hand | `EarnPoints` |

`TakeStock` is the batch adjustment, which refuses to go below zero unless the
location's binding allows it; `CreditStock` is the credit of voids and refunds, which
name no terminal and therefore never find such a binding. `deductions` is the JSON
column as a sequence of entries per line; a plain checkout records an entry for every
location of the route where the code leaves out those that give nothing, which no sum
tells apart. What every location or sale comes to is a `Sum` or a `Part` of one (module
`Sums`, shared with the stock room). Money is whole units; the refund's
ceiling, its total and the rounding of the points reversal are the code's integer
arithmetic. The cart, its booked values and its awards are inputs.

Points have three writers. A completion awards `Award` and goes on when that fails
(`sales_lifecycle.rs:18-24`, `:79`); a refund reverses a share and goes on when that fails
(`refunds.rs:427-439`). The listener (`event_handlers.rs:381-441`) and a manual earn award
`Charged`, the points of the total in the currency charged, to any sale that has none yet: the
bridge publishes `sale.completed` right after a checkout, while the sale may be pending, so this
award usually comes first and the one of the completion then finds it (`AwardPoints`). The model
takes a manual earn to name the sale's own customer and total. The customer's balance, lifetime
spend and tier are not modelled: `earned` and `reversed` are the rows of `loyalty_transactions`.

`SaleContract` is a sale without lines, locations or entries: units leave the shelf once, it is
captured or voided once, refunds bring back no more units, money or points than it had, and it is
awarded its points once, at any time, or not at all. `phase` is `status`, `shelf` of a product the sum of its stock over all locations, `back` and
`refunded` what the refunds of the sale amount to, `awarded` the award, `points` what no refund
reversed of it. Whatever deadlines, tickets and the reaper's list do is a stutter. What recipes use
up is between nothing and what they call for, and does not come back (section 5).

### `CheckoutAttempt`

The replay guard of one checkout attempt: what the payment screen submits under one
attempt id. A basket is what the backend takes it for (`basket_key`): the id of a cart, or a hash of
the dialog's lines. The screen builds a new cart at every tap, so two taps are two baskets; what
the screen's comments promise of them is `OneLiveSalePerAttempt` (section 5). A sale is named by
its idempotency key, the attempt's own (`BaseKey`) or the re-key of a basket and a void epoch
(`Rekeys`).

| Code | Action |
|---|---|
| `startSale`, `addLine` of the screen | `BuildCart` |
| `replay_verdict` under the first lock | `Decide` (`OwnReceipt`, `AttemptReceipt`, `NextKey`) |
| lock 1 of `complete_sale_scoped`: load and delete the cart | `TakeCart` |
| hooks, checks and stock refuse | `Refuse` |
| the settlement transaction, rolled back by the unique index on `payments.idempotency_key` | `Settle` |
| finalize, void | `Finalize`, `Void` |

Between `Decide`, `TakeCart` and `Settle` no lock is held. A submission may be sent again
from `idle` at any time, which is a retry after a lost answer as well as a second tap.

### `GatewayCapture` (with the abstract `PaymentContract`)

A dynamic QRIS payment from the tap on the screen to the settled sale.

| Code | Action |
|---|---|
| `buildGatewaySale`, `handleDynamicQrPay`, `handleAutoReissue`, `handleAutoCancel` | `Pay`, `ChargeOk`/`ChargeFails`, `Reissue`, `Cancel` |
| `qris_charge_handler`: charge, then `record_issue`, then the answer | `Journal` within `Issued`, `NotIssued` |
| countdown and polling of `QrisQrDisplay`; `settleGatewaySale` | `CountDown`, `Poll`, `Confirm` |
| customer and gateway (outside `src/`) | `CustomerPays`, `OrderExpires` |
| `midtrans_webhook_handler` | `Notice`, and in three steps `Notify`, `Enqueue`, `Mark` |
| the daemon's `finalize_sale` arm, the reaper | `ApplyFinalize`, `Reap` |

`ledger` and `bound` are `midtrans_transactions.status` and `.sale_id`; `handler` is how
far each concurrent delivery of a settlement is; `acked` are the orders the gateway stops
notifying about. `void_pending_sale` and `finalize_sale` act on pending sales only, so
whoever comes second changes nothing.

`PaymentContract` leaves only sales, orders and money: an order belongs to one sale before
anybody can pay it, a payment leaves a row that finalizes the sale before the order counts as
settled, and a sale completes once, on such a row. `owner` is `bound`, `paid` the orders
charged and paid at the gateway, `rows` the queued finalize rows, `settled` the ledger rows in
settlement. The contract does not promise that a paid sale completes: it may be voided first
(section 5).

### `StockRoom`

One product's stock, which the database keeps three times: `shelf` (`stock_summary`),
`inventory` (`inventory.qty`) and the movements, here as sums per location of the young
(`recent`), the old (`aged`) and those the archive never folds (`kept`), with the
legacy-backfill row apart (`backfill`). Each writer is one transaction and one action.

| Code | Action |
|---|---|
| `adjust_stock_at_location_with_reason` and its callers | `Canon` within `Adjust` |
| `adjust_stock_in_tx` (remote `complete_sale`, the tablet) | `Stamp`, `RemoteSale` |
| `apply_stock_adjustment_delta_in_tx` | `RemoteAdjust`, `RemoteAdjustAnywhere` |
| `send_transfer`, `receive_transfer`, `cancel_transfer` | `SendTransfer`, `ReceiveTransfer`, `CancelTransfer` |
| `add_count_line`, `update_stock_count`, `complete_stock_count` | `OpenCount`, `CloseCount`, `CompleteCount` |
| `update_po_status`, `receive_purchase_order(_with_lines)` | `UpdateOrder`, `ReceiveOrder` |
| `stock.movement` from another terminal: a bare ledger row (`insert_stock_movement_in_tx`) | `RemoteMovement` |
| ninety days; `archive_stock_movements` | `Age`, `Archive` |
| `rebuild_stock_summary_for` with its heal | `Rebuild`, `Healed` |

`goods` is what the business really owns; `stamped` and `moved` remember the two things
that the code does and that part the books (an aggregate stamped over another location's
stock; a rollup of another location's movements). `late` is what remote movements have added to the
ledger since the last rebuild: until the page ends and `rebuild_stock_summary_for` runs, cache and
aggregate trail the ledger by exactly that (`CacheIsLedger`, `GoodsAccounted`, `Complete`), for as
long as the rebuild does not come. `undone` remembers that a rebuild's heal took such units for part
of a gap (section 5). Nothing under `src/` queues a `stock.movement`; the arm is modelled because
the server passes on whatever a terminal pushes.

### `ConflictDetector`

The server's conflict detection for one entity. A till stamps what it pushes with a vector
of one entry; the server loads the entity's vector, classifies, may record a conflict and
saves the maximum, each under a lock of its own.

| Code | Action |
|---|---|
| `run_tick` seeds the counter from `sync.clock.counter`, or from 0 when that cannot be read or parsed | `Send`, `SendUnseeded` |
| `push_items`, `stamp_payload` | `PushItems` within both |
| the answer persists the counter, or never comes | `Answered`, `Unanswered`, `Drop` |
| `load_entity_vector`, `load_entity_payload` | `Load` |
| a vector that cannot be read or parsed counts as unseen (SQLite `unwrap_or(None)`, `from_str(..).ok()`) | `Misread` |
| `classify`, `policy_for` | `JudgeStale`, `JudgeApply`, `JudgeFlag` |
| `save_entity_vector` | `Save` |
| the error `push_batch` swallows | `Fail` |
| `resolve_conflict` | `Resolve` |

A terminal whose id cannot be read pushes without stamps and does not reach the detector.

### `WebhookOutbox`

The cloud's outbound webhooks, with several server instances on one database.

| Code | Action |
|---|---|
| `create_endpoint_pg`, `delete_endpoint_pg` | `Register`, `Remove` |
| `push_handler` commits the batch | `Push` (`Fresh` = the items not answered as duplicates) |
| `active_endpoints_pg` | `Lookup` |
| one `enqueue_pg` each | `Enqueue` |
| `fanout_from_outcomes` logs an error, or the instance stops | `LoseFanout` |
| the claim of `drain_pg`, which commits before it delivers | `Drain` |
| `deliver_webhook` | `Post` |
| the UPDATE by id with what was claimed | `Record` (`Failed` = retry or dead letter) |
| the pool or the UPDATE fails, or the instance stops | `Abandon` |
| `backoff_deadline` passes | `Backoff` |

`atCommit`, `posts` and `shared` are observers: the registry when a push committed, how
often the receiver was called, and which entries two instances held at once.

Every module carries, next to the definition concerned, the mutated forms that each
property must detect; they are marked `mutant` and used nowhere else.

## 3. Runs, bounds, fairness

Each run is `tlc -config <cfg> <MC module>` with the pair `PROJECT.json` names; each proof
module is checked with `tlapm <module>.tla`.

Passing runs:

| Run | What it asks | Instance |
|---|---|---|
| `pull_till` | effects at most once, nothing passed over, the receipts exact, everything settled in the end, implements `EffectDelivery` | four items: one mutation under two ids, this till's own without and with origin; two with equal `created_at`; pages of two, two attempts, one requeue, one fault; 117 000 states |
| `push_till` | synced rows are held, nothing stranded and every row arrives in the daemon's outbox; implements `OutboxContract` | a sale (both lanes) and an adjustment; two files, the daemon on one and two operator commands on the other; two faults, one deletion; 148 000 states |
| `sale_shop` | books, shelf, refunds, points; a pending sale is settled; implements `SaleContract` | two sales over two locations of which the back room may go negative: a line of two units that spans both beside coffee made from beans, and a cart with two lines of one product; every partial refund; an award or a reversal may fail at every place, an award may come early or late, by one amount (`Award` = `Charged`; the proofs take any two); 19 400 states |
| `attempt_replay` | a basket, as the backend names it, is sold once | two taps with carts of their own, two submissions of the dialog, three void epochs, all repeatable without bound; 32 000 states |
| `gateway_qris` | nothing unpaid completes, somebody must still act on every payment that is not accounted for, and does; implements `PaymentContract` | two sales of one attempt, one re-issue, two deliveries at once, one fault; 58 000 states |
| `room` | cache, aggregate, movements and goods agree, but for remote movements no rebuild has met | two locations, one unit from before locations, a transfer, a count, a purchase order, remote movements of either sign; 461 000 states |
| `detector` | whatever money a vector joins is flagged, no history invented | three terminals, three requests, four items, counters to three, two faults (lost, failed, misread, unseeded); 849 000 states |
| `outbox_drain` | fan-out exact, dead letters were tried, settled entries stay, every entry settles | two pushes with a sale in common, an endpoint that comes and goes, two instances, two attempts, one fault; 342 000 states |

Runs that show a disagreement (section 5): `pull_settings`, `sale_refunds`, `attempt_retap`,
`detector_overlap`.

Bounds. `MaxAttempts` is 2 instead of 3 (pull) or 5 (webhooks), `PageSize` 2 instead of
500, `BatchSize` 1 instead of 10: a page boundary, a retry, a dead letter and a full batch
all occur. `MaxRequeue` and `MaxFaults` limit how often an operator and the environment
intervene; one, at any of the places it can happen, already gives every pair of a fault
and a replay. `MaxEpoch` lets a basket be sold, voided and sold again until the bound
refuses a third re-key. `MaxUnits` and `MaxTrade` of 2 let a transfer be received in parts
and a count meet a sale. `MaxItems` and `MaxClock` let a till push twice before and twice
after another's push. The proofs hold for all values. Quantities of one and two over two locations are the smallest that make a line
span two locations and let two lines compete for one unit. In `pull_till` every item has an
effect key; a `stock.adjusted` row without one is covered by the proofs. Submissions,
terminals and requests are interchangeable in `attempt_replay` and `detector`, whose
properties are invariants, so symmetry is sound there.

Fairness. `FairSpec` of `PullSync` and `PushQueue` gives weak fairness to the steps of
the daemon's task, which tokio polls as long as the process lives; nothing is owed by
tills, operators, retention or the network. A request may fail only `MaxFaults` times,
which is how "the network comes back" is expressed; so no strong fairness is needed.
`FairSpec` of `SaleLedger` is fair to the clock and the reaper (a one-minute loop,
`platform/startup/src/lib.rs:381`), not to a cashier or a webhook. In `GatewayCapture` the
gateway repeats a notification until it is answered 200, the handlers run to their end and
the daemon applies what is queued; cashier, customer and reaper owe nothing. In
`WebhookOutbox` running handlers go on, drainers poll (`start_drainer_pg`'s loop) and
deadlines pass; nobody has to push and receivers may refuse everything.

`InOrderPush = TRUE` in the pull runs is an assumption about the tills, not a fact of
the code: no row reaches the server after one created later. So `EventuallySettled` says nothing
of a row pushed out of order, which the code may skip for good (section 5). `NotStranded` and
`QueuedReachesServer` speak of rows one keeping pusher has to itself and of the daemon's own
outbox: not of the tablet's batch, of the other database file or of the transaction's row in it.

`CHECK_DEADLOCK FALSE` is set where the system may really come to rest: `PushQueue` with an
empty outbox, `SaleLedger` with all sales settled and refunded, `CheckoutAttempt` and
`GatewayCapture` when the attempt is over, `ConflictDetector` and `WebhookOutbox` when every
push has been handled. The pull loop and the stock room always have a next step, and the
runs check that.

## 4. What is proved

| Theorem | Statement | Hypotheses |
|---|---|---|
| `PullSyncProofs!TypeCorrect` | `[]TypeOK` | |
| `EffectsAtMostOnce` | `[]AtMostOnce` | `MutationsKeepKeys`, `OwnItemsRecognised` |
| `ImplementsDelivery` | `Spec => DeliversEffectsOnce` | the same |
| `LedgerIsExact` | `[]LedgerSkipsOnlyPerformed` | the same and `KeysNameMutations` |
| `AnchorSkipsNothing` | `[]NoSkip` | `InOrderPush` |
| `PushQueueProofs!TypeCorrect` | `[]TypeOK` | |
| `NoFalseAcknowledgement`, `NothingStranded` | `[]SyncedIsHeld`, `[]NotStranded` | |
| `ImplementsContract` | `Spec => HonoursContract` (`OutboxContract`) | |
| `DeadLettersStay` | `DeadLetterIsFinal` | |
| `SaleLedgerProofs!RefundsStayWithin`, `AwardsOnce` | `[]RefundsWithinSale`, `[]AwardedOnce` | |
| `TypesHold`, `NothingOversold` | `[]TypeOK`, `[]NoOverselling` | |
| `ShelfMatchesBooks`, `VoidsLeaveNoTrace` | `[]BooksMatchShelf`, `[]LeavesNoTrace` | |
| `ImplementsContract` | `Spec => HonoursContract` (`SaleContract`) | |
| `OneRefundCreditsWhereTaken` | `[]CreditedWhereTaken` | `RefundsInOneGo` |
| `SettledStays` | `SettledIsFinal` | |
| `CheckoutAttemptProofs!TypesHold`, `OneLiveSale`, `CartsSellOnce`, `DenseEpochs` | `[]TypeOK`, `[]OneLiveSalePerBasket`, `[]CartSoldOnce`, `[]EpochsAreDense` | |
| `ReceiptsAreStable` | `ReceiptsStay` | |
| `GatewayCaptureProofs!TypesHold`, `ShownQrIsAttributed`, `NoUnpaidSaleCompletes`, `SettlementLeavesARow` | `[]TypeOK`, `[]ShownIsJournaled`, `[]CompletedWasPaid`, `[]SettledIsQueued` | |
| `PaymentsAreNeverDropped` | `[]NoPaymentDropped` | |
| `ImplementsContract` | `Spec => HonoursContract` (`PaymentContract`) | |
| `LedgerNeverGoesBack` | `LedgerIsFinal` | |
| `ConflictDetectorProofs!TypesHold`, `DivergentMoneyIsFlagged`, `HistoryIsReal` | `[]TypeOK`, `[]LateComersAreFlagged`, `[]NothingInvented` | |
| `DecisionsAreFinal` | `DecisionStands` | |
| `ClocksAdvance` | `ClockNeverRewinds` | `SeedsAreRead` |
| `OneAtATimeFlags` | `[]DivergentMoneyIsARow` | `[](OneAtATime /\ faults = 0)` |
| `OneAtATimeAdvances` | `VectorNeverGoesBack` | `[]OneAtATime`, `VectorsAreRead` |
| `WebhookOutboxProofs!TypesHold`, `FanoutHolds`, `DeadLettersWereTried` | `[]TypeOK`, `[]FanoutIsExact`, `[]DeadLetterWasTried` | |
| `SettledEntriesStay` | `SettledStays` | |
| `OneInstanceSharesNothing` | `[](shared = {})` | a single `Server` |
| `StockRoomProofs!TypesHold`, `BooksAgree`, `CacheAgrees` | `[]TypeOK`, `[]GoodsAccounted`, `[]CacheIsLedger` | |
| `RebuildsKeepPlaces` | `RebuildKeepsPlaces` | `FoldsMainOnly` |
| `LedgerComplete` | `LedgerStaysComplete` | |

The named assumptions on constants hold in every theorem. The hypotheses in the last
column are where the code's guarantees end: `KeysNameMutations` fails for settings
(`pull_settings` is the counterexample; that nothing is performed twice holds for them all the
same), `InOrderPush` for a till that was offline, a single
server for the deployment the code's comment describes (section 5). The others are about
behaviours: each theorem says that a disagreement of section 5 needs the circumstance its
hypothesis excludes: a second refund of a line taken from several places (`sale_refunds`), a
movement folded away from the main location, two requests that overlap between load and save
(`detector_overlap`), a vector or a counter that could not be read.

**The ledger.** `AtMostOnce` is not inductive: nothing in it says why the next arm to run
has not run before. `LedgerInv` relates the three tables: a mutation performed once is
either this till's own or has a receipt, and a receipt's mutation was performed. The
two directions of a key's hypothesis serve two theorems. If the items of a mutation share
its key (`MutationsKeepKeys`), a performed mutation is `Already` under each of its items, so it
is not performed again; if a key names one mutation (`KeysNameMutations`), nothing else is, so
none is passed over. The origin gate and the arms' probes cover the till's own. Only `LocalCommit` and
`ApplyNext` touch what it speaks of; each has a lemma. The refinement reads off the same
invariant: an arm that performs is `Deliver`, one that does not is a stutter.

**The anchor.** `NoSkip` speaks of the durable anchor, which moves only at the end of a
page. `AnchorInv` adds what the tick carries: the page is a prefix of what follows the
anchor it read (`PageIsNext`), what it has processed is settled or `retryable` is set
(`ProcessedSettled`), and an expired anchor is replaced by one that covers all the
server has (`RecoveryComplete`). `FinishPage` advances only when the durable anchor is still
the one that was read, which is what makes a concurrent requeue safe. The lemmas on
`FirstPage` and `LastOf` (a page is a prefix; the last row bounds it) rest on finite
sets and are proved from the library's cardinality facts.

**The outbox.** `SyncedIsHeld` needs that a positive answer, while it is in flight, is true
(`AnswersAreTrue`). `NotStranded` speaks of the rows one keeping pusher has to itself and
needs more: batches of different pushers are disjoint there, a rejection is of a row the
server does not hold, and an answered row is still pending or deleted, so a failure mark
is never wrong (`KeptInv`). Whatever other pushers do in other files does not matter.
For the contract, `MarkMoves` says what a whole loop does to a row (acknowledged, given up or as
it was, by an answer or a failure); with the answers true it is one `Mark`. `Read`, answers
that get lost and stopped loops that marked nothing are stutters.

**The sale.** `StepsSettle` splits a step into: no change of what the theorems speak of; one
sale moving along `Moves`; one refund. `SaleInv` (types, `RefundsWithinSale`,
`AwardedOnce`) is inductive over these three. `ReversalBounded` carries the arithmetic:
the rounded share is capped by what is left of the award.

**Its stock.** `StepsMove` splits a step the other way: units taken for a new sale, all of a
sale's units given back, some of them, or none moved. `Filling` is the core: going from place
to place until q units are found finds q of them, or all there are. It serves the
allocation from the front of the route and the partial refund from the back of the entries.
`BooksMatchShelf` is not inductive: a void credits what is recorded and the books lose what
was sold, so `StockInv` adds that the two are the same (`LinesRecorded`). An ingredient's books
have slack: what is gone of it lies between what was sold of it and that plus what the recipes of
every sale called for, voided ones included. `LeavesNoTrace` says
nothing until the last sale is voided; `PendingTrace` says what each location lacks before
that, place by place, and only while nothing has completed: a partial refund may credit
another location than the one a unit came from (`sale_refunds`). `PlacesBooked`
carries `CreditedWhereTaken` as far as it holds: each location lacks at least what sales took
there and no refund brought back there. That is never negative while a refund is the line's
first, or all its units are in one place. `LinesAddUp` exchanges the
sums over lines and locations, `RowChanges` moves the books by one sale's row.

**The contract of a sale.** Each of the three ways a step moves stock is one step of the
contract: `TakesFromShelf`, `VoidsToShelf`, `RefundsToShelf` turn sums over places into the one
number the contract knows, `EarnsAward` and `RefundsMoney` do the same for points and money, where
`SaleInv` gives the bounds. A completion without stock moves is `Capture`; what is left changes
no sale and no stock.

**The attempt.** A verdict is stale by the time it settles. The invariant therefore says of
every decided submission what is still true of the key it chose: if that key is free, the
settlements of its basket lie below it and are voided, and no one else's live sale is in
the way; if not, the unique index refuses it. A cart is on its way to at most one
settlement, which gives `CartSoldOnce`; the epochs' density is what makes the count of
settlements name the latest one.

**The gateway.** The invariant follows the evidence of a payment from the gateway inwards: an
acknowledged, found or queued delivery is of a paid order; a ledger row in settlement has
its finalize row; a queued sale has a paid order bound to it; the screen confirms only an
order the ledger calls settled, and works on the sale that order is bound to. Every
step then completes a sale only with the evidence in hand.
The contract needs one thing more (`Unspent`): a sale the screen has not reached is not there
yet, and an order without a ledger row is bound to no sale, so that `Open` and `Issue` find
them free. `NoPaymentDropped` follows from the contract rather than beside it: `ContractSays`
reads off what any step can do to orders, rows and sales, and `Duty` needs only that an
acknowledged payment is settled (`AckedIsSettled`) and an applied row has ended its sale
(`AppliedIsEnded`).

**The detector.** The vector goes back (`detector_overlap`), so nothing about the vector alone
is inductive. The invariant speaks of every reading that may still be written: what was
read is accounted for by stamps and rows, and those never shrink. So an old vector is
still an explained one, and the first comparison that meets another terminal's counter
either leaves a row or is itself the first. While one request at a time is between its load and
its save (`OneAtATime`), what it read is what is stored (`Current`), and the maximum it saves
loses nothing. If nothing fails either, `Alone` holds: an item at the detector is newer than the
vector's counter of its till, which is at most what the till's clock accounts for (`Fresh`,
`Accounted`), so it is never stale, and one that is applied without a row met a vector with nobody
else in it; so the second of two tills to get through always leaves a row.

**The webhooks.** Two arguments over one invariant. Fan-out: an item is accepted by one request
only (`Firsts`), a fan-out's remaining pairs and its entries partition the matching ones
(`TodoMatches`, `EntryMatches`, `NoneMissing`), and endpoints only move forward
(`RegistryMoves`). Drain: an entry's attempts, a claimed copy and a reply in hand are each
bounded by the posts made (`Counts`), and what two instances hold is in `shared` (`Holders`),
so an entry that was never shared is recorded by the instance that claimed it last.

**The stock room.** Sums over locations, transfers and sales are the library's folds, whose element
order is a `CHOOSE`. `SumIsTotal` shows that any order gives the same total: a set of which the
equation fails has a smallest such subset, and there is none (the library's well-founded
subset ordering does what induction would). From it come the lemmas every writer needs: a row
written moves the sum by the difference (`SumExcept`), sums add up row by row (`SumOfSums`).
`SaleLedgerProofs` states the lemmas on `Sum` again: a proof module cannot take them from one
about other variables.
The invariant names the one thing `GoodsAccounted` does not: the gap between aggregate and
ledger is nothing, or exactly the legacy units before any backfill row stands for them
(`Explained`). A writer moves both sides alike, the archive neither, and a rebuild closes
the gap without changing the aggregate (`RebuildKeeps`). Row by row nothing is claimed after
a stamp or a rollup (`Rows`); a rebuild restores it. If the archive folds movements of the
main location only, a ledger without gap was never `moved` (`Placed`), and a rebuild of one that
finds no remote movement has nothing to heal (`NothingToHeal`) and writes each row as it is
(`RebuildsKeepPlaces`).

## 5. Where the code disagrees with its own words

In a run (details and quotes in `PROJECT.json`, `findings`):

- `pull_settings`: two changes of one setting share an effect key, so the second is
  skipped as applied.
- `sale_refunds`: two partial refunds of a line taken from two locations both credit the
  last one.
- `attempt_retap`: a second tap on the payment screen under one attempt id, or a second firing of
  the QR's confirmation, rings up a new cart and becomes a second live sale, where the screen's
  comments promise the first receipt.
- `detector_overlap`: two overlapping first pushes of one money entity both find no vector, both
  are applied and no row is written, where "a divergent money movement is always a row for human
  review".

Disagreements seen in the models by changing an instance or a property, without a run of
their own:

- `EventuallySettled` of `PullSync` fails without `InOrderPush`: a row pushed late, with a
  client-minted `created_at` below another till's anchor, is never pulled by that till
  (`daemon_tick.rs:777`), where `platform/sync/src/lib.rs:9` speaks of eventual consistency.
- `RebuildKeepsPlaces` fails in `room`'s instance: the archive folds every location's movements into
  a rollup without a location (`movements.rs:118`), and the next rebuild moves those units to the
  default one, where `ledger.rs:227` groups by location so that multi-location data does not
  collapse.
- `VectorNeverGoesBack` fails: the later of two overlapping saves, or one whose load was misread,
  drops what the vector had observed (`conflicts.rs:294`, `:310-321`), where `conflicts.rs:227-229`
  says the next comparison sees everything observed so far. `LateComersAreFlagged` is therefore
  about what the vector holds.
- `ClockNeverRewinds` fails when the persisted counter cannot be read: the tick stamps from 0 and
  persists the lower counter (`daemon_tick.rs:251-256`), which the comment at `:235-238` warns of.
- Without `undone`, `GoodsAccounted` fails: remote movements that came to fewer units make
  inventory exceed the ledger, and the next rebuild's heal backfills the difference, which undoes
  them; it also replaces a backfill row of an earlier heal. While units from before the ledger are
  still due, remote movements of more units close part of that gap instead of adding to the shelf
  (`ledger.rs:108`, `:180`; `products_tests.rs:1016-1040` expects the sum).
- A pending sale is awarded its points when its checkout is published (`event_handlers.rs:381-441`),
  and by the total in the charged currency, where the award of the completion takes the shop's
  (`sales_lifecycle.rs:18-24`). If the sale is voided it keeps them; and a sale awarded after its
  refund keeps the refunded part. `AwardedOnce` bounds what either can amount to.
- On the desktop the event handler looks for the checkout's row in the other database file
  and queues a sale a second time (`event_handlers.rs:62`, `:74`).
- `NotStranded` fails for any operator pusher outside `Keeps`: a lost answer ends with a
  row the server holds marked `failed` (`sync_client.rs:373` against `:315`).
- `QueuedReachesServer` fails with `Keeps = {}`: the tablet's inline daemon marks its whole
  batch failed on one transport error (`mobile-tauri/src/lib.rs:489`); and with two
  database files: a row in the store's file is not read by the daemon.
- A kitchen ticket created after the void stays open (`kds_lines.rs:61`,
  `sales_lifecycle.rs:708`).
- `complete_sale` is queued while the sale is pending and a void of a pending sale queues
  nothing, so other tills keep it as sold (`sales_lifecycle.rs:713`, `:837`).
- `PendingIsSettled` must except a sale whose units cannot be credited: a location whose
  binding lets it go below zero refuses a void's credit that leaves it there
  (`sales_lifecycle.rs:677`), and the reaper retries such a sale until a delivery comes.
- `LeavesNoTrace` must except ingredients, and `BooksMatchShelf` can only bound them: the void
  of a composite credits the product and not what its recipe used up
  (`sales_checkout.rs:463`).
- A paid QR order's sale can be voided: by the cashier who cancels, or by the reaper while the
  till is offline; `finalize_sale` is then a no-op and the money is at the gateway.
- A remote `complete_sale` stamps the aggregate on the default location over another
  location's stock (`queue.rs:1127`, `products_stock_query.rs:386`), and the next rebuild's
  heal then backfills units nobody owns (`queue.rs:108`, `ledger.rs:108`).
- Two server instances claim one webhook entry, because the claim commits and leaves the row
  `pending`; a delivered entry can return to `pending` or become a dead letter. `outbox.rs:224`
  says "FOR UPDATE SKIP LOCKED so concurrent instances never double-claim the same row"; the
  `delivering` state of `outbox.rs:23` is never written.

Disagreements read but not run:

- Two lines of one SKU are each allocated against the same snapshot and the batch then
  refuses a cart that "sufficed" (`sales_checkout.rs:254`).
- The shortfall dialog sends the deficit where the command demands the whole quantity
  (`StockShortfallDialog.tsx:213`, `sale_deduction.rs:31`).
- A credit of loyalty points by thirds: each partial reversal rounds on its own, so small
  refunds may reverse nothing (`loyalty.rs:942`).
- A resolved composite's ingredients are not consumed (`sales_lifecycle.rs:370`).
- `finalize_sale` of a voided sale answers Ok.
- A QRIS charge that is repeated with the same key is refused by `record_issue`'s primary key,
  where PAY-2 promises the same live QR; a re-issue leaves the display `expired`, so polling
  does not start again for the new QR.
- Stamps carry no causality: a till's vector has one entry whatever the till has seen
  (`push_stamp.rs:10`), so an edit made after reading another's is judged concurrent; stale
  items are queued all the same; a lost answer makes a till use its counters again; the
  winner of the last-writer tie break is not used.
- A received purchase order can be set back to approved and received again
  (`purchase_orders.rs:324`).
- A rebuild that the non-negative trigger refuses keeps the pull anchor where it is, tick
  after tick (`daemon_tick.rs:725`); a till from before locations whose first write is at a
  bound location other than the default gets there; a second heal replaces the backfill row
  of the first.
- A count is applied as the difference to the stock at completion, not to what the counter was
  shown; what was sold in between is put back on the shelf. `GoodsAccounted` takes the count's word
  for what the business owns and does not see it.
- The lookup of an order turns a database error into "no such order" (`midtrans_ledger.rs:181`,
  `.ok()`), so a paid notice that meets one is acknowledged without a row; `GatewayCapture` has no
  such failure, and `NoPaymentDropped` and `PaidIsSettled` do not speak of it.
- Retention deletes queue rows (`prune.rs:236-259`), so an item pushed again later than that is new
  to the server and announced again; `WebhookOutbox` keeps every row.
- The cart is deleted before hooks, checks and settlement, any of which can refuse; a tap sent
  again after that may be answered with the receipt of another basket.
- A scheduled report that crashes between enqueue and its timestamp is queued again, and a
  retry after one recipient failed mails the others again (`email.rs:118`).
- A daemon task that panics leaves the running flag set, and `start()` refuses
  (`daemon.rs:343`); the anchor check and the page query of a pull are two statements
  (`sync_api.rs:412`).

## 6. Only model-checked, and not modelled

Model-checked only: liveness (`EventuallySettled` of `PullSync` and `WebhookOutbox`,
`QueuedReachesServer`, `PendingIsSettled`, `PaidIsSettled`), which the provers cannot reason
about. The safety half of three of them is proved: nothing pulled is passed over (`NoSkip`), no
row is stranded (`NotStranded`), no payment is dropped (`NoPaymentDropped`). Every safety
property of a passing run is also a theorem.

Three properties hold in no run of their own and only as theorems under their hypothesis:
`RebuildKeepsPlaces`, `VectorNeverGoesBack`, `ClockNeverRewinds`.

Left out of the modelled components:

- Sync: the contents of business rows; device limits; a pull's anchor check and page query
  are one step; `sync_now` and the PostgreSQL daemon push without stamps and do not reach the
  detector, and the body a `Load` reads is one choice in `Judge`.
- Sales: split tenders, receipt numbers, promotions, audit rows; legacy sales without
  `deduction_locations`; `void_sale` of `active` sales; the customer's balance, tier and lifetime
  spend, whose update may fail after the earn row was written. One key
  per sale is enough because only the first split's key is consulted.
- Gateway: amounts, currencies, signatures, the other gateways and `resilience.rs`. One
  database holds sale, reaper and daemon (the tablet); on the desktop the finalize row is
  applied to the global file.
- Stock: a row of zero units is not told apart from no row; a surplus on empty rows may land
  on any of them; locations that may go negative are in `SaleLedger`. The archive and the
  rebuild run on the desktop's global file; the tablet does not archive. Thresholds and the
  editing of drafts move no stock.
- Webhooks: one tenant, equal priorities (a batch is any set of due entries), the
  `email_report` topic; calls beyond `MaxAttempts` are not counted further.

Not modelled: the components with that status in `PROJECT.json`, with the reasons there.

## 7. Plan

Done: the pull loop, the outbox, the life of a sale, the checkout attempt, the gateway, the
stock room, conflict detection, outbound webhooks, and contracts of four of them that are
proved. Next, in this order:

1. `SyncSystem`: the HTTP and the PostgreSQL daemon over one outbox and one anchor, composed
   from `PullSync` and `PushQueue`; `DaemonLifecycle` (start, stop, panic).
2. `RemoteArms` and the resolution functions of `conflict.rs` under `PullSync`: two tills'
   sale, refund, void and stock rows, convergence as the refinement of a shared ledger.
3. Gift cards and redemption of points, shifts and cash payouts, against the same sale.
4. Kitchen boards with LAN replication; the image push queue; scheduled reports.
