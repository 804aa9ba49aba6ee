---------------------------- MODULE GatewayCapture ----------------------------
(***************************************************************************)
(* A dynamic QRIS payment of one checkout attempt.  The till's screen      *)
(* makes a pending sale and asks the cloud for a QR; the cloud charges at  *)
(* the gateway under an order named after the attempt and the issue, and   *)
(* journals order and sale before it answers.  The customer may pay any QR *)
(* that was ever on the screen until it expires.  The gateway notifies the *)
(* cloud until it gets a 200; the cloud queues a finalize_sale row for the *)
(* till and then marks the order settled.  The screen polls the order, the *)
(* cashier may cancel or ask for a new QR, the sync daemon applies the     *)
(* row, and the reaper voids what stays pending.  All meet at one sale.    *)
(*                                                                         *)
(* One till database holds the sale, the reaper and the daemon (the        *)
(* tablet).  Each tap builds a cart of its own, so it makes a new sale     *)
(* (CheckoutAttempt).  Amounts, currencies and signatures are left out.    *)
(***************************************************************************)
EXTENDS Naturals

CONSTANTS
    MaxTap,   \* bound on the sales of the attempt
    MaxSeq,   \* bound on re-issues
    Delivery, \* concurrent deliveries of one settlement notification
    MaxFaults \* bound on failed calls, lost answers and failed handlers

ASSUME BoundsAssumption == MaxTap \in Nat /\ MaxSeq \in Nat /\ MaxFaults \in Nat

Sale   == 1 .. MaxTap
Order  == 0 .. MaxSeq
NoSale == 0

VARIABLES
    screen,  \* ready, charging, showing, confirming or done
    current, \* the sale the screen works on
    seq,     \* autoIssueSeq
    shown,   \* the order on the screen
    expired, \* the display has counted down to zero
    sale,    \* sales.status
    charge,  \* the gateway's order: none, open, paid or expired
    seen,    \* orders whose QR was on the screen
    ledger,  \* midtrans_transactions.status
    bound,   \* midtrans_transactions.sale_id
    handler, \* what each delivery's handler has done
    acked,   \* orders whose settlement notification was answered 200
    queued,  \* sales with a finalize_sale row on the server
    applied, \* of those, the ones the till has applied
    faults

till   == <<screen, current, seq, shown, expired>>
orders == <<charge, seen>>
cloud  == <<ledger, bound, handler, acked, queued>>
vars   == <<till, sale, orders, cloud, applied, faults>>

Fault ==
    /\ faults < MaxFaults
    /\ faults' = faults + 1

-----------------------------------------------------------------------------
Init ==
    /\ screen = "ready" /\ current = NoSale /\ seq = 0 /\ shown = 0
    /\ expired = FALSE
    /\ sale = [s \in Sale |-> "none"]
    /\ charge = [o \in Order |-> "none"] /\ seen = {}
    /\ ledger = [o \in Order |-> "none"]
    /\ bound = [o \in Order |-> NoSale]
    /\ handler = [o \in Order |-> [d \in Delivery |-> "none"]]
    /\ acked = {} /\ queued = {} /\ applied = {}
    /\ faults = 0

(* The screen *)

\* Mutant of Pay: the charge goes out before the sale is there
ChargeWithoutSale ==
    /\ screen = "ready"
    /\ screen' = "charging"
    /\ seq' = 0
    /\ UNCHANGED <<current, sale, shown, expired, orders, cloud, applied,
                   faults>>

\* buildGatewaySale: a pending sale, the first issue of the attempt's key
Pay ==
    /\ screen = "ready"
    /\ current < MaxTap
    /\ current' = current + 1
    /\ sale' = [sale EXCEPT ![current + 1] = "pending"]
    /\ screen' = "charging"
    /\ seq' = 0
    /\ UNCHANGED <<shown, expired, orders, cloud, applied, faults>>

\* qris_charge_handler: the gateway makes the order, or hands out the one it
\* has; record_issue refuses an order that is in the ledger.
Journal(o) ==
    /\ charge[o] \in {"none", "open"}
    /\ ledger[o] = "none"
    /\ charge' = [charge EXCEPT ![o] = "open"]
    /\ ledger' = [ledger EXCEPT ![o] = "issued"]
    /\ bound' = [bound EXCEPT ![o] = current]

\* Mutant of Issued: a failed ledger write is only logged
UnjournaledIssue(o) ==
    /\ \/ Journal(o)
       \/ /\ charge[o] = "none"
          /\ charge' = [charge EXCEPT ![o] = "open"]
          /\ UNCHANGED <<ledger, bound>>
    /\ screen' = "showing"
    /\ shown' = o
    /\ seen' = seen \cup {o}
    /\ UNCHANGED <<handler, acked, queued>>

\* The QR arrives and is shown
Issued(o) ==
    /\ Journal(o)
    /\ screen' = "showing"
    /\ shown' = o
    /\ seen' = seen \cup {o}
    /\ UNCHANGED <<handler, acked, queued>>

\* The charge fails: it is refused as a duplicate, or not made, or made and
\* not journaled, or made and journaled and the answer is lost.
NotIssued(o) ==
    /\ \/ /\ charge[o] # "none" \/ ledger[o] # "none"
          /\ UNCHANGED <<charge, ledger, bound, faults>>
       \/ Fault /\ UNCHANGED <<charge, ledger, bound>>
       \/ /\ Fault /\ charge[o] = "none"
          /\ charge' = [charge EXCEPT ![o] = "open"]
          /\ UNCHANGED <<ledger, bound>>
       \/ Fault /\ Journal(o)
    /\ UNCHANGED <<seen, shown, handler, acked, queued>>

\* handleDynamicQrPay, the charge answered
ChargeOk ==
    /\ screen = "charging"
    /\ Issued(0)
    /\ expired' = FALSE
    /\ UNCHANGED <<current, seq, sale, applied, faults>>

\* void_pending_sale refuses a sale that is not pending; the call may fail
VoidCurrent ==
    \/ sale[current] = "pending" /\ sale' = [sale EXCEPT ![current] = "voided"]
    \/ UNCHANGED sale

\* ... failed: "the pending sale must not linger"
ChargeFails ==
    /\ screen = "charging"
    /\ NotIssued(0)
    /\ VoidCurrent
    /\ screen' = "ready"
    /\ UNCHANGED <<current, seq, expired, applied>>

\* The countdown ends and with it the polling
CountDown ==
    /\ screen = "showing"
    /\ ~expired
    /\ expired' = TRUE
    /\ UNCHANGED <<screen, current, seq, shown, sale, orders, cloud, applied,
                   faults>>

\* handleAutoReissue: a new order on the same sale; the display keeps its
\* status, and a failure keeps the old QR on the screen.
Reissue ==
    /\ screen = "showing"
    /\ expired
    /\ seq < MaxSeq
    /\ seq' = seq + 1
    /\ \/ Issued(seq + 1) /\ UNCHANGED faults
       \/ NotIssued(seq + 1) /\ UNCHANGED screen
    /\ UNCHANGED <<current, expired, sale, applied>>

\* handleAutoCancel: close the QR and void the sale
Cancel ==
    /\ screen = "showing"
    /\ screen' = "ready"
    /\ VoidCurrent
    /\ UNCHANGED <<current, seq, shown, expired, orders, cloud, applied, faults>>

\* Mutant of Poll: any answer of the status endpoint will do
PollAny ==
    /\ screen = "showing"
    /\ ~expired
    /\ screen' = "confirming"
    /\ UNCHANGED <<current, seq, shown, expired, sale, orders, cloud, applied,
                   faults>>

\* handleAutoPoll: qris_status_handler reads the ledger
Poll ==
    /\ screen = "showing"
    /\ ~expired
    /\ ledger[shown] = "settlement"
    /\ screen' = "confirming"
    /\ UNCHANGED <<current, seq, shown, expired, sale, orders, cloud, applied,
                   faults>>

\* finalize_sale moves a pending sale and is a no-op on any other
Completed(s) ==
    [sale EXCEPT ![s] = IF @ = "pending" THEN "completed" ELSE @]

\* handleAutoConfirmed: finalize; a failure leaves the sale pending
Confirm ==
    /\ screen = "confirming"
    /\ \/ /\ sale' = Completed(current)
          /\ screen' = "done"
          /\ UNCHANGED faults
       \/ /\ Fault
          /\ screen' = "ready"
          /\ UNCHANGED sale
    /\ UNCHANGED <<current, seq, shown, expired, orders, cloud, applied>>

(* The gateway *)

\* The customer pays a QR that was shown, or its validity ends.
CustomerPays(o) ==
    /\ charge[o] = "open"
    /\ o \in seen
    /\ charge' = [charge EXCEPT ![o] = "paid"]
    /\ UNCHANGED <<till, sale, seen, cloud, applied, faults>>

OrderExpires(o) ==
    /\ charge[o] = "open"
    /\ charge' = [charge EXCEPT ![o] = "expired"]
    /\ UNCHANGED <<till, sale, seen, cloud, applied, faults>>

(* The webhook *)

\* Mutant of Marked: no guard on a settled row
MarkedAnyway(o, s) == [ledger EXCEPT ![o] = s]

\* mark_status never downgrades a settled row.
Marked(o, s) == [ledger EXCEPT ![o] = IF @ = "settlement" THEN @ ELSE s]

\* A lifecycle notice (pending, expire, cancel), however late: recorded
Notice(o) ==
    /\ charge[o] # "none"
    /\ ledger[o] # "none"
    /\ ledger' = Marked(o, "other")
    /\ UNCHANGED <<till, sale, orders, bound, handler, acked, queued, applied,
                   faults>>

\* A settlement is delivered until a delivery is answered 200; the handler
\* looks the order up and is done with one that is settled.
Notify(o, d) ==
    /\ charge[o] = "paid"
    /\ o \notin acked
    /\ handler[o][d] = "none"
    /\ IF ledger[o] \in {"none", "settlement"}
         THEN acked' = acked \cup {o} /\ UNCHANGED handler
         ELSE handler' = [handler EXCEPT ![o][d] = "found"] /\ UNCHANGED acked
    /\ UNCHANGED <<till, sale, orders, ledger, bound, queued, applied, faults>>

\* Mutant of Enqueue: the order is marked before the row is queued
MarkFirst(o, d) ==
    /\ handler[o][d] = "found"
    /\ \/ /\ ledger' = Marked(o, "settlement")
          /\ handler' = [handler EXCEPT ![o][d] = "queued"]
          /\ UNCHANGED faults
       \/ /\ Fault
          /\ handler' = [handler EXCEPT ![o][d] = "none"]
          /\ UNCHANGED ledger
    /\ UNCHANGED <<till, sale, orders, bound, acked, queued, applied>>

\* Mutant of Enqueue: a failure is answered 200
AckFailure(o, d) ==
    /\ handler[o][d] = "found"
    /\ \/ /\ queued' = queued \cup {bound[o]}
          /\ handler' = [handler EXCEPT ![o][d] = "queued"]
          /\ UNCHANGED <<faults, acked>>
       \/ /\ Fault
          /\ handler' = [handler EXCEPT ![o][d] = "none"]
          /\ acked' = acked \cup {o}
          /\ UNCHANGED queued
    /\ UNCHANGED <<till, sale, orders, ledger, bound, applied>>

\* enqueue_finalize_sale; a failure answers 5xx
Enqueue(o, d) ==
    /\ handler[o][d] = "found"
    /\ \/ /\ queued' = queued \cup {bound[o]}
          /\ handler' = [handler EXCEPT ![o][d] = "queued"]
          /\ UNCHANGED faults
       \/ /\ Fault
          /\ handler' = [handler EXCEPT ![o][d] = "none"]
          /\ UNCHANGED queued
    /\ UNCHANGED <<till, sale, orders, ledger, bound, acked, applied>>

\* mark_status and the answer; a failure answers 5xx, and so does a crash
Mark(o, d) ==
    /\ handler[o][d] = "queued"
    /\ handler' = [handler EXCEPT ![o][d] = "none"]
    /\ \/ /\ ledger' = Marked(o, "settlement")
          /\ acked' = acked \cup {o}
          /\ UNCHANGED faults
       \/ /\ Fault
          /\ \/ ledger' = Marked(o, "settlement")
             \/ UNCHANGED ledger
          /\ UNCHANGED acked
    /\ UNCHANGED <<till, sale, orders, bound, queued, applied>>

(* The till's background tasks *)

\* The daemon applies a finalize_sale row.  A second row of the sale finds it
\* finalized or voided and changes nothing.
ApplyFinalize(s) ==
    /\ s \in queued \ applied
    /\ applied' = applied \cup {s}
    /\ sale' = Completed(s)
    /\ UNCHANGED <<till, orders, cloud, faults>>

\* The reaper, half an hour after the sale was made: re-issues and a till
\* that is offline can take that long, so nothing keeps it from a paid sale.
Reap(s) ==
    /\ sale[s] = "pending"
    /\ sale' = [sale EXCEPT ![s] = "voided"]
    /\ UNCHANGED <<till, orders, cloud, applied, faults>>

Next ==
    \/ Pay \/ ChargeOk \/ ChargeFails \/ CountDown \/ Reissue \/ Cancel
    \/ Poll \/ Confirm
    \/ \E o \in Order : \/ CustomerPays(o) \/ OrderExpires(o) \/ Notice(o)
                        \/ \E d \in Delivery : \/ Notify(o, d) \/ Enqueue(o, d)
                                               \/ Mark(o, d)
    \/ \E s \in Sale : ApplyFinalize(s) \/ Reap(s)

Spec == Init /\ [][Next]_vars

\* The gateway retries, handlers run and the daemon pulls; cashier, customer
\* and reaper owe nothing.
FairSpec ==
    /\ Spec
    /\ \A o \in Order, d \in Delivery :
         WF_vars(Notify(o, d)) /\ WF_vars(Enqueue(o, d)) /\ WF_vars(Mark(o, d))
    /\ \A s \in Sale : WF_vars(ApplyFinalize(s))

-----------------------------------------------------------------------------
\* The type invariant.
TypeOK ==
    /\ screen \in {"ready", "charging", "showing", "confirming", "done"}
    /\ current \in Sale \cup {NoSale}
    /\ screen # "ready" => current \in Sale
    /\ seq \in Order /\ shown \in Order /\ expired \in BOOLEAN
    /\ sale \in [Sale -> {"none", "pending", "completed", "voided"}]
    /\ charge \in [Order -> {"none", "open", "paid", "expired"}]
    /\ seen \subseteq Order
    /\ ledger \in [Order -> {"none", "issued", "other", "settlement"}]
    /\ bound \in [Order -> Sale \cup {NoSale}]
    /\ handler \in [Order -> [Delivery -> {"none", "found", "queued"}]]
    /\ acked \subseteq Order
    /\ queued \subseteq Sale /\ applied \subseteq queued
    /\ faults \in 0 .. MaxFaults

\* "Record BEFORE responding": whatever QR a customer ever saw can be
\* attributed to a sale.
ShownIsJournaled ==
    \A o \in seen : ledger[o] # "none" /\ bound[o] \in Sale

\* Nobody walks out with an unpaid sale: a sale completes, through the screen
\* or the queue, only after the gateway was paid for an order of that sale.
CompletedWasPaid ==
    \A s \in Sale : sale[s] = "completed"
        => \E o \in Order : bound[o] = s /\ charge[o] = "paid"

\* "Marking settled first and losing the enqueue would silently eat a paid
\* sale": a settled order's sale has its finalize row.
SettledIsQueued ==
    \A o \in Order : ledger[o] = "settlement" => bound[o] \in queued

\* "A duplicate must not silently re-point the ledger", and a notice that
\* comes late does not take a settlement back.
LedgerIsFinal ==
    [][\A o \in Order :
        /\ ledger[o] # "none" => bound'[o] = bound[o]
        /\ ledger[o] = "settlement" => ledger'[o] = "settlement"]_vars

\* What the customer and the shop are promised: an order is attributed once and
\* before it can be paid, is settled only on top of its payment and its row, and
\* none of it is taken back; a sale completes once, on a row a payment left.
Contract == INSTANCE PaymentContract
              WITH owner <- bound,
                   paid <- {o \in Order : charge[o] = "paid"},
                   rows <- queued,
                   settled <- {o \in Order : ledger[o] = "settlement"}

HonoursContract == Contract!Spec

\* "An enqueue failure returns 5xx so the gateway retries the notification": at
\* every moment a paid order has somebody who still has to act on it - gateway
\* or daemon - until its sale is settled.
NoPaymentDropped ==
    \A o \in Order : charge[o] = "paid" =>
        \/ o \notin acked
        \/ bound[o] \in queued \ applied
        \/ bound[o] \in Sale /\ sale[bound[o]] \in {"completed", "voided"}

\* A payment is never forgotten: its sale is settled in the end, through lost
\* answers, failed handlers and crashes between the row and the mark.
PaidIsSettled ==
    \A o \in Order : charge[o] = "paid"
        ~> (bound[o] \in Sale /\ sale[bound[o]] \in {"completed", "voided"})

=============================================================================
