-------------------------- MODULE GatewayCaptureProofs --------------------------
(***************************************************************************)
(* GatewayCapture for every number of taps, re-issues, concurrent          *)
(* deliveries and faults.  The argument follows the money: the gateway's   *)
(* "paid" is stable, and so is the attribution of a paid order; the ledger *)
(* says "settlement", a finalize row is queued and a screen confirms only  *)
(* on top of a paid order; so only an attributed payment completes a sale. *)
(***************************************************************************)
EXTENDS GatewayCapture, TLAPS

\* Some order attributed to sale s was paid.
PaidFor(s) == \E o \in Order : bound[o] = s /\ charge[o] = "paid"

\* What the ledger knows was issued for a sale.
Attributed ==
    \A o \in Order : ledger[o] # "none" => bound[o] \in Sale /\ charge[o] # "none"

\* What has been on the screen is in the ledger.
SeenIsIssued == \A o \in seen : ledger[o] # "none"

\* Only a paid order is settled.
SettledIsPaid ==
    \A o \in Order : ledger[o] = "settlement"
        => charge[o] = "paid" /\ bound[o] \in queued

\* A handler past its lookup works on a paid, journaled order; one past its
\* enqueue has left the row behind.
HandlersWork ==
    \A o \in Order, d \in Delivery :
        /\ handler[o][d] # "none" => charge[o] = "paid" /\ ledger[o] # "none"
        /\ handler[o][d] = "queued" => bound[o] \in queued

\* The order on the screen is the current sale's; a confirming screen saw it
\* settled.
ScreenWorks ==
    /\ screen = "showing" => ledger[shown] # "none"
    /\ screen = "confirming" => ledger[shown] = "settlement"
    /\ screen \in {"showing", "confirming"} => bound[shown] = current

\* Rows and completed sales were paid for.
RowsArePaid      == \A s \in queued : PaidFor(s)
CompletedIsPaid  == \A s \in Sale : sale[s] = "completed" => PaidFor(s)

IInv ==
    /\ TypeOK /\ Attributed /\ SeenIsIssued /\ SettledIsPaid /\ HandlersWork
    /\ ScreenWorks /\ RowsArePaid /\ CompletedIsPaid

-----------------------------------------------------------------------------
\* Sales and orders are told apart from the null sale and from each other.
LEMMA Names == /\ NoSale \notin Sale
               /\ 0 \in Order
               /\ Sale \subseteq Nat /\ Order \subseteq Nat
  BY BoundsAssumption DEF NoSale, Sale, Order

\* The invariant holds in the initial state: nothing was charged yet.
LEMMA InvInit == Init => IInv
  <1> SUFFICES ASSUME Init PROVE IInv
    OBVIOUS
  <1>1. TypeOK
    <2>1. handler \in [Order -> [Delivery -> {"none", "found", "queued"}]]
      BY DEF Init
    <2>2. faults \in 0 .. MaxFaults
      BY BoundsAssumption DEF Init
    <2>3. current \in Sale \cup {NoSale} /\ seq \in Order /\ shown \in Order
      BY Names DEF Init
    <2> QED
      BY <2>1, <2>2, <2>3 DEF Init, TypeOK
  <1>2. Attributed /\ SeenIsIssued /\ SettledIsPaid /\ HandlersWork
    BY DEF Init, Attributed, SeenIsIssued, SettledIsPaid, HandlersWork
  <1>3. ScreenWorks /\ RowsArePaid /\ CompletedIsPaid
    BY DEF Init, ScreenWorks, RowsArePaid, CompletedIsPaid
  <1> QED
    BY <1>1, <1>2, <1>3 DEF IInv

\* A fault leaves the count of faults within its bound.
LEMMA FaultCounts ==
    ASSUME faults \in 0 .. MaxFaults, Fault
    PROVE  faults' \in 0 .. MaxFaults
  BY BoundsAssumption DEF Fault

-----------------------------------------------------------------------------
\* What every step keeps: a charge moves on from none to open to its end, an
\* attribution is made once and before it is paid, a settlement is not taken
\* back, rows stay.
Forward ==
    /\ \A o \in Order :
         /\ charge[o] = "paid" => charge'[o] = "paid" /\ bound'[o] = bound[o]
         /\ charge[o] # "none" => charge'[o] # "none"
         /\ ledger[o] # "none" => ledger'[o] # "none" /\ bound'[o] = bound[o]
         /\ ledger[o] = "settlement" => ledger'[o] = "settlement"
    /\ queued \subseteq queued'

\* Journalling an order the ledger does not have keeps what is settled.
LEMMA JournalForward ==
    ASSUME TypeOK, NEW p \in Order, Journal(p), queued' = queued
    PROVE  Forward
  BY DEF TypeOK, Journal, Forward

\* A charge that fails keeps it too, whatever became of it.
LEMMA NotIssuedForward ==
    ASSUME TypeOK, NEW p \in Order, NotIssued(p)
    PROVE  Forward
  <1>1. CASE Journal(p)
    BY <1>1, JournalForward DEF NotIssued, cloud
  <1>2. CASE UNCHANGED <<ledger, bound>> /\ charge[p] = "none"
             /\ charge' = [charge EXCEPT ![p] = "open"]
    BY <1>2 DEF TypeOK, NotIssued, Forward
  <1>3. CASE UNCHANGED <<ledger, bound, charge>>
    BY <1>3 DEF NotIssued, Forward
  <1> QED
    BY <1>1, <1>2, <1>3 DEF NotIssued

\* So does every other step.
LEMMA StepForward == TypeOK /\ [Next]_vars => Forward
  <1> SUFFICES ASSUME TypeOK, [Next]_vars PROVE Forward
    OBVIOUS
  <1> USE Names
  <1>1. CASE Pay \/ CountDown \/ Cancel \/ Poll \/ Confirm \/ UNCHANGED vars
    BY <1>1 DEF Pay, CountDown, Cancel, Poll, Confirm, vars, orders, cloud, Forward
  <1>2. CASE ChargeOk
    BY <1>2, JournalForward DEF ChargeOk, Issued
  <1>3. CASE ChargeFails
    BY <1>3, NotIssuedForward DEF ChargeFails
  <1>4. CASE Reissue
    <2>1. seq + 1 \in Order
      BY <1>4, BoundsAssumption DEF Reissue, TypeOK, Order
    <2> QED
      BY <1>4, <2>1, JournalForward, NotIssuedForward DEF Reissue, Issued
  <1>5. ASSUME NEW p \in Order, CustomerPays(p) \/ OrderExpires(p)
        PROVE  Forward
    BY <1>5 DEF CustomerPays, OrderExpires, cloud, TypeOK, Forward
  <1>6. ASSUME NEW p \in Order, Notice(p) PROVE Forward
    BY <1>6 DEF Notice, Marked, orders, TypeOK, Forward
  <1>7. ASSUME NEW p \in Order, NEW d \in Delivery,
               Notify(p, d) \/ Enqueue(p, d)
        PROVE  Forward
    BY <1>7 DEF Notify, Enqueue, orders, Forward
  <1>8. ASSUME NEW p \in Order, NEW d \in Delivery, Mark(p, d) PROVE Forward
    BY <1>8 DEF Mark, Marked, orders, TypeOK, Forward
  <1>9. ASSUME NEW s \in Sale, ApplyFinalize(s) \/ Reap(s) PROVE Forward
    BY <1>9 DEF ApplyFinalize, Reap, orders, cloud, Forward
  <1> QED
    BY <1>1, <1>2, <1>3, <1>4, <1>5, <1>6, <1>7, <1>8, <1>9 DEF Next

\* A sale that was paid for stays so.
LEMMA PaidForStays ==
    ASSUME Forward, NEW s, PaidFor(s)
    PROVE  PaidFor(s)'
  BY DEF Forward, PaidFor

-----------------------------------------------------------------------------
\* The parts of the invariant that only the ledger and the handlers touch
\* survive every step that leaves them alone.
LEMMA CloudUntouched ==
    ASSUME IInv, Forward, UNCHANGED <<ledger, bound, handler, queued>>
    PROVE  Attributed' /\ SettledIsPaid' /\ HandlersWork' /\ RowsArePaid'
  BY PaidForStays DEF IInv, Attributed, SettledIsPaid, HandlersWork, RowsArePaid,
       Forward

\* A completed sale stays paid for in a step that completes none.
LEMMA CompletedStays ==
    ASSUME CompletedIsPaid, Forward,
           \A s \in Sale : sale'[s] = "completed" => sale[s] = "completed"
    PROVE  CompletedIsPaid'
  BY PaidForStays DEF CompletedIsPaid

\* Journalling an order: it is attributed to the screen's sale.
LEMMA JournalKeeps ==
    ASSUME IInv, NEW p \in Order, Journal(p), current \in Sale,
           UNCHANGED <<handler, queued>>
    PROVE  /\ Attributed' /\ SettledIsPaid' /\ HandlersWork' /\ RowsArePaid'
           /\ charge' \in [Order -> {"none", "open", "paid", "expired"}]
           /\ ledger' \in [Order -> {"none", "issued", "other", "settlement"}]
           /\ bound' \in [Order -> Sale \cup {NoSale}]
           /\ ledger'[p] # "none" /\ bound'[p] = current
  <1>1. Forward
    BY JournalForward DEF IInv
  <1>2. /\ charge' \in [Order -> {"none", "open", "paid", "expired"}]
        /\ ledger' \in [Order -> {"none", "issued", "other", "settlement"}]
        /\ bound' \in [Order -> Sale \cup {NoSale}]
        /\ ledger'[p] # "none" /\ bound'[p] = current
    BY DEF IInv, TypeOK, Journal
  <1>3. Attributed' /\ SettledIsPaid'
    BY DEF IInv, TypeOK, Attributed, SettledIsPaid, Journal
  <1>4. HandlersWork'
    BY DEF IInv, TypeOK, HandlersWork, Journal
  <1>5. RowsArePaid'
    BY <1>1, PaidForStays DEF IInv, RowsArePaid
  <1> QED
    BY <1>2, <1>3, <1>4, <1>5

\* A charge that fails, whatever became of it.
LEMMA NotIssuedKeeps ==
    ASSUME IInv, NEW p \in Order, NotIssued(p), current \in Sale
    PROVE  /\ Attributed' /\ SettledIsPaid' /\ HandlersWork' /\ RowsArePaid'
           /\ charge' \in [Order -> {"none", "open", "paid", "expired"}]
           /\ ledger' \in [Order -> {"none", "issued", "other", "settlement"}]
           /\ bound' \in [Order -> Sale \cup {NoSale}]
           /\ faults' \in 0 .. MaxFaults
  <1>1. Forward
    BY NotIssuedForward DEF IInv
  <1>2. faults' \in 0 .. MaxFaults
    <2>1. CASE UNCHANGED faults
      BY <2>1 DEF IInv, TypeOK
    <2>2. CASE Fault
      BY <2>2, FaultCounts DEF IInv, TypeOK
    <2> QED
      BY <2>1, <2>2 DEF NotIssued
  <1>3. CASE Journal(p)
    BY <1>2, <1>3, JournalKeeps DEF NotIssued
  <1>4. CASE UNCHANGED <<ledger, bound>> /\ charge[p] = "none"
             /\ charge' = [charge EXCEPT ![p] = "open"]
    BY <1>1, <1>2, <1>4, CloudUntouched DEF NotIssued, IInv, TypeOK
  <1>5. CASE UNCHANGED <<ledger, bound, charge>>
    BY <1>1, <1>2, <1>5, CloudUntouched DEF NotIssued, IInv, TypeOK
  <1> QED
    BY <1>3, <1>4, <1>5 DEF NotIssued

-----------------------------------------------------------------------------
\* The screen's steps keep the invariant.
LEMMA PayKeeps == IInv /\ Pay => IInv'
  <1> SUFFICES ASSUME IInv, Pay PROVE IInv'
    OBVIOUS
  <1>1. Forward
    BY StepForward DEF IInv, Next
  <1>2. TypeOK'
    <2>1. current + 1 \in Sale
      BY BoundsAssumption DEF IInv, TypeOK, Pay, Sale, NoSale
    <2> QED
      BY <2>1, Names DEF IInv, TypeOK, Pay, orders, cloud
  <1>3. Attributed' /\ SettledIsPaid' /\ HandlersWork' /\ RowsArePaid'
    BY <1>1, CloudUntouched DEF Pay, cloud
  <1>4. SeenIsIssued' /\ ScreenWorks'
    BY DEF IInv, SeenIsIssued, ScreenWorks, Pay, orders, cloud
  <1>5. CompletedIsPaid'
    BY <1>1, CompletedStays DEF IInv, TypeOK, Pay
  <1> QED
    BY <1>2, <1>3, <1>4, <1>5 DEF IInv

\* A voided sale is not a completed one.
LEMMA VoidKeeps ==
    ASSUME TypeOK, CompletedIsPaid, Forward, VoidCurrent
    PROVE  /\ CompletedIsPaid'
           /\ sale' \in [Sale -> {"none", "pending", "completed", "voided"}]
  <1>1. sale' \in [Sale -> {"none", "pending", "completed", "voided"}]
    BY DEF TypeOK, VoidCurrent
  <1>2. \A s \in Sale : sale'[s] = "completed" => sale[s] = "completed"
    BY DEF TypeOK, VoidCurrent
  <1> QED
    BY <1>1, <1>2, CompletedStays

LEMMA ChargeOkKeeps == IInv /\ ChargeOk => IInv'
  <1> SUFFICES ASSUME IInv, ChargeOk PROVE IInv'
    OBVIOUS
  <1>0. 0 \in Order /\ current \in Sale
    BY Names DEF IInv, TypeOK, ChargeOk
  <1>1. Forward
    BY StepForward DEF IInv, Next
  <1>2. /\ Attributed' /\ SettledIsPaid' /\ HandlersWork' /\ RowsArePaid'
        /\ charge' \in [Order -> {"none", "open", "paid", "expired"}]
        /\ ledger' \in [Order -> {"none", "issued", "other", "settlement"}]
        /\ bound' \in [Order -> Sale \cup {NoSale}]
        /\ ledger'[0] # "none" /\ bound'[0] = current
    BY <1>0, JournalKeeps DEF ChargeOk, Issued
  <1>3. TypeOK'
    BY <1>0, <1>2 DEF IInv, TypeOK, ChargeOk, Issued
  <1>4. SeenIsIssued' /\ ScreenWorks'
    BY <1>1, <1>2 DEF IInv, TypeOK, SeenIsIssued, ScreenWorks, ChargeOk, Issued,
         Forward
  <1>5. CompletedIsPaid'
    BY <1>1, CompletedStays DEF IInv, ChargeOk
  <1> QED
    BY <1>2, <1>3, <1>4, <1>5 DEF IInv

LEMMA ChargeFailsKeeps == IInv /\ ChargeFails => IInv'
  <1> SUFFICES ASSUME IInv, ChargeFails PROVE IInv'
    OBVIOUS
  <1>0. 0 \in Order /\ current \in Sale
    BY Names DEF IInv, TypeOK, ChargeFails
  <1>1. Forward
    BY StepForward DEF IInv, Next
  <1>2. /\ Attributed' /\ SettledIsPaid' /\ HandlersWork' /\ RowsArePaid'
        /\ charge' \in [Order -> {"none", "open", "paid", "expired"}]
        /\ ledger' \in [Order -> {"none", "issued", "other", "settlement"}]
        /\ bound' \in [Order -> Sale \cup {NoSale}]
        /\ faults' \in 0 .. MaxFaults
    BY <1>0, NotIssuedKeeps DEF ChargeFails
  <1>3. /\ CompletedIsPaid'
        /\ sale' \in [Sale -> {"none", "pending", "completed", "voided"}]
    BY <1>1, VoidKeeps DEF IInv, ChargeFails
  <1>4. TypeOK'
    BY <1>0, <1>2, <1>3 DEF IInv, TypeOK, ChargeFails, NotIssued
  <1>5. SeenIsIssued' /\ ScreenWorks'
    BY <1>1 DEF IInv, TypeOK, SeenIsIssued, ScreenWorks, ChargeFails, NotIssued,
         Forward
  <1> QED
    BY <1>2, <1>3, <1>4, <1>5 DEF IInv

LEMMA ReissueKeeps == IInv /\ Reissue => IInv'
  <1> SUFFICES ASSUME IInv, Reissue PROVE IInv'
    OBVIOUS
  <1>0. seq + 1 \in Order /\ current \in Sale
    BY BoundsAssumption DEF IInv, TypeOK, Reissue, Order
  <1>1. Forward
    BY StepForward DEF IInv, Next
  <1>2. CompletedIsPaid'
    BY <1>1, CompletedStays DEF IInv, Reissue
  <1>3. CASE Issued(seq + 1) /\ UNCHANGED faults
    <2>1. /\ Attributed' /\ SettledIsPaid' /\ HandlersWork' /\ RowsArePaid'
          /\ charge' \in [Order -> {"none", "open", "paid", "expired"}]
          /\ ledger' \in [Order -> {"none", "issued", "other", "settlement"}]
          /\ bound' \in [Order -> Sale \cup {NoSale}]
          /\ ledger'[seq + 1] # "none" /\ bound'[seq + 1] = current
      BY <1>0, <1>3, JournalKeeps DEF Issued
    <2>2. TypeOK'
      BY <1>0, <1>3, <2>1 DEF IInv, TypeOK, Reissue, Issued
    <2>3. SeenIsIssued' /\ ScreenWorks'
      BY <1>1, <1>3, <2>1 DEF IInv, TypeOK, SeenIsIssued, ScreenWorks, Reissue,
           Issued, Forward
    <2> QED
      BY <1>2, <2>1, <2>2, <2>3 DEF IInv
  <1>4. CASE NotIssued(seq + 1) /\ UNCHANGED screen
    <2>1. /\ Attributed' /\ SettledIsPaid' /\ HandlersWork' /\ RowsArePaid'
          /\ charge' \in [Order -> {"none", "open", "paid", "expired"}]
          /\ ledger' \in [Order -> {"none", "issued", "other", "settlement"}]
          /\ bound' \in [Order -> Sale \cup {NoSale}]
          /\ faults' \in 0 .. MaxFaults
      BY <1>0, <1>4, NotIssuedKeeps
    <2>2. TypeOK'
      BY <1>0, <1>4, <2>1 DEF IInv, TypeOK, Reissue, NotIssued
    <2>3. SeenIsIssued' /\ ScreenWorks'
      BY <1>1, <1>4 DEF IInv, TypeOK, SeenIsIssued, ScreenWorks, Reissue,
           NotIssued, Forward
    <2> QED
      BY <1>2, <2>1, <2>2, <2>3 DEF IInv
  <1> QED
    BY <1>3, <1>4 DEF Reissue

LEMMA CancelKeeps == IInv /\ Cancel => IInv'
  <1> SUFFICES ASSUME IInv, Cancel PROVE IInv'
    OBVIOUS
  <1>1. Forward
    BY StepForward DEF IInv, Next
  <1>2. /\ CompletedIsPaid'
        /\ sale' \in [Sale -> {"none", "pending", "completed", "voided"}]
    BY <1>1, VoidKeeps DEF IInv, Cancel
  <1>3. TypeOK'
    BY <1>2 DEF IInv, TypeOK, Cancel, orders, cloud
  <1>4. Attributed' /\ SettledIsPaid' /\ HandlersWork' /\ RowsArePaid'
    BY <1>1, CloudUntouched DEF Cancel, cloud
  <1>5. SeenIsIssued' /\ ScreenWorks'
    BY DEF IInv, SeenIsIssued, ScreenWorks, Cancel, orders, cloud
  <1> QED
    BY <1>2, <1>3, <1>4, <1>5 DEF IInv

LEMMA WatchKeeps == IInv /\ (CountDown \/ Poll) => IInv'
  <1> SUFFICES ASSUME IInv, CountDown \/ Poll PROVE IInv'
    OBVIOUS
  <1>1. Forward
    BY StepForward DEF IInv, Next
  <1>2. TypeOK'
    BY DEF IInv, TypeOK, CountDown, Poll, orders, cloud
  <1>3. Attributed' /\ SettledIsPaid' /\ HandlersWork' /\ RowsArePaid'
    BY <1>1, CloudUntouched DEF CountDown, Poll, cloud
  <1>4. SeenIsIssued' /\ ScreenWorks'
    BY DEF IInv, SeenIsIssued, ScreenWorks, CountDown, Poll, orders, cloud
  <1>5. CompletedIsPaid'
    BY <1>1, CompletedStays DEF IInv, CountDown, Poll
  <1> QED
    BY <1>2, <1>3, <1>4, <1>5 DEF IInv

\* Completing a sale that was paid for.
LEMMA CompletedKeeps ==
    ASSUME TypeOK, CompletedIsPaid, Forward, NEW s \in Sale, PaidFor(s),
           sale' = Completed(s)
    PROVE  /\ CompletedIsPaid'
           /\ sale' \in [Sale -> {"none", "pending", "completed", "voided"}]
  <1>1. sale' \in [Sale -> {"none", "pending", "completed", "voided"}]
    BY DEF TypeOK, Completed
  <1>2. \A t \in Sale : sale'[t] = "completed" => sale[t] = "completed" \/ t = s
    BY DEF TypeOK, Completed
  <1> QED
    BY <1>1, <1>2, PaidForStays DEF CompletedIsPaid

LEMMA ConfirmKeeps == IInv /\ Confirm => IInv'
  <1> SUFFICES ASSUME IInv, Confirm PROVE IInv'
    OBVIOUS
  <1>1. Forward
    BY StepForward DEF IInv, Next
  <1>2. current \in Sale /\ PaidFor(current)
    BY DEF IInv, TypeOK, ScreenWorks, SettledIsPaid, PaidFor, Confirm
  <1>3. /\ CompletedIsPaid'
        /\ sale' \in [Sale -> {"none", "pending", "completed", "voided"}]
    <2>1. CASE sale' = Completed(current)
      BY <1>1, <1>2, <2>1, CompletedKeeps DEF IInv
    <2>2. CASE UNCHANGED sale
      BY <1>1, <2>2, CompletedStays DEF IInv, TypeOK
    <2> QED
      BY <2>1, <2>2 DEF Confirm
  <1>4. faults' \in 0 .. MaxFaults
    BY FaultCounts DEF IInv, TypeOK, Confirm
  <1>5. TypeOK'
    BY <1>2, <1>3, <1>4 DEF IInv, TypeOK, Confirm, orders, cloud
  <1>6. Attributed' /\ SettledIsPaid' /\ HandlersWork' /\ RowsArePaid'
    BY <1>1, CloudUntouched DEF Confirm, cloud
  <1>7. SeenIsIssued' /\ ScreenWorks'
    BY DEF IInv, SeenIsIssued, ScreenWorks, Confirm, orders, cloud
  <1> QED
    BY <1>3, <1>5, <1>6, <1>7 DEF IInv

-----------------------------------------------------------------------------
\* The gateway's, the webhook's and the background steps keep the invariant.
LEMMA GatewayKeeps ==
    ASSUME IInv, NEW p \in Order, CustomerPays(p) \/ OrderExpires(p)
    PROVE  IInv'
  <1>1. Forward
    BY StepForward DEF IInv, Next
  <1>2. TypeOK'
    BY DEF IInv, TypeOK, CustomerPays, OrderExpires, till, cloud
  <1>3. Attributed' /\ SettledIsPaid' /\ HandlersWork' /\ RowsArePaid'
    BY <1>1, CloudUntouched DEF CustomerPays, OrderExpires, cloud
  <1>4. SeenIsIssued' /\ ScreenWorks'
    BY DEF IInv, SeenIsIssued, ScreenWorks, CustomerPays, OrderExpires, till, cloud
  <1>5. CompletedIsPaid'
    BY <1>1, CompletedStays DEF IInv, CustomerPays, OrderExpires
  <1> QED
    BY <1>2, <1>3, <1>4, <1>5 DEF IInv

\* Writing a ledger status that is earned keeps the ledger's facts.
LEMMA MarkedKeeps ==
    ASSUME IInv, Forward, NEW p \in Order, NEW st \in {"other", "settlement"},
           ledger' = Marked(p, st), ledger[p] # "none",
           st = "settlement" => charge[p] = "paid" /\ bound[p] \in queued,
           UNCHANGED <<till, sale, orders, bound, queued>>
    PROVE  /\ Attributed' /\ SettledIsPaid' /\ RowsArePaid' /\ SeenIsIssued'
           /\ ScreenWorks' /\ CompletedIsPaid'
           /\ ledger' \in [Order -> {"none", "issued", "other", "settlement"}]
  <1>1. /\ ledger' \in [Order -> {"none", "issued", "other", "settlement"}]
        /\ \A o \in Order : o # p => ledger'[o] = ledger[o]
        /\ ledger'[p] \in {st, "settlement"}
        /\ ledger'[p] = "settlement" => ledger[p] = "settlement" \/ st = "settlement"
    BY DEF IInv, TypeOK, Marked
  <1>2. shown \in Order /\ seen \subseteq Order
    BY DEF IInv, TypeOK
  <1>3. Attributed' /\ SettledIsPaid'
    BY <1>1 DEF IInv, Attributed, SettledIsPaid, orders
  <1>4. SeenIsIssued' /\ ScreenWorks'
    BY <1>2 DEF IInv, SeenIsIssued, ScreenWorks, Forward, orders, till
  <1>5. RowsArePaid' /\ CompletedIsPaid'
    BY PaidForStays DEF IInv, RowsArePaid, CompletedIsPaid
  <1> QED
    BY <1>1, <1>3, <1>4, <1>5

LEMMA NoticeKeeps == ASSUME IInv, NEW p \in Order, Notice(p) PROVE IInv'
  <1>1. Forward
    BY StepForward DEF IInv, Next
  <1>2. /\ Attributed' /\ SettledIsPaid' /\ RowsArePaid' /\ SeenIsIssued'
        /\ ScreenWorks' /\ CompletedIsPaid'
        /\ ledger' \in [Order -> {"none", "issued", "other", "settlement"}]
    BY <1>1, MarkedKeeps DEF Notice
  <1>3. HandlersWork'
    BY <1>1 DEF IInv, HandlersWork, Notice, Forward, orders
  <1>4. TypeOK'
    BY <1>2 DEF IInv, TypeOK, Notice, till, orders
  <1> QED
    BY <1>2, <1>3, <1>4 DEF IInv

LEMMA NotifyKeeps ==
    ASSUME IInv, NEW p \in Order, NEW d \in Delivery, Notify(p, d) PROVE IInv'
  <1>1. Forward
    BY StepForward DEF IInv, Next
  <1>2. CASE UNCHANGED handler
    <2>1. TypeOK'
      BY <1>2 DEF IInv, TypeOK, Notify, till, orders
    <2>2. Attributed' /\ SettledIsPaid' /\ HandlersWork' /\ RowsArePaid'
      BY <1>1, <1>2, CloudUntouched DEF Notify
    <2>3. SeenIsIssued' /\ ScreenWorks'
      BY DEF IInv, SeenIsIssued, ScreenWorks, Notify, till, orders
    <2>4. CompletedIsPaid'
      BY <1>1, CompletedStays DEF IInv, Notify
    <2> QED
      BY <2>1, <2>2, <2>3, <2>4 DEF IInv
  <1>3. CASE handler' = [handler EXCEPT ![p][d] = "found"]
             /\ UNCHANGED acked /\ ledger[p] # "none"
    <2>1. /\ handler' \in [Order -> [Delivery -> {"none", "found", "queued"}]]
          /\ \A o \in Order, e \in Delivery :
               handler'[o][e] = IF o = p /\ e = d THEN "found" ELSE handler[o][e]
      BY <1>3 DEF IInv, TypeOK
    <2>2. TypeOK'
      BY <1>3, <2>1 DEF IInv, TypeOK, Notify, till, orders
    <2>3. HandlersWork'
      BY <1>3, <2>1 DEF IInv, HandlersWork, Notify, orders
    <2>4. Attributed' /\ SettledIsPaid'
      BY DEF IInv, Attributed, SettledIsPaid, Notify, orders
    <2>5. RowsArePaid'
      BY <1>1, PaidForStays DEF IInv, RowsArePaid, Notify
    <2>6. SeenIsIssued' /\ ScreenWorks'
      BY DEF IInv, SeenIsIssued, ScreenWorks, Notify, till, orders
    <2>7. CompletedIsPaid'
      BY <1>1, CompletedStays DEF IInv, Notify
    <2> QED
      BY <2>2, <2>3, <2>4, <2>5, <2>6, <2>7 DEF IInv
  <1> QED
    BY <1>2, <1>3 DEF Notify

LEMMA EnqueueKeeps ==
    ASSUME IInv, NEW p \in Order, NEW d \in Delivery, Enqueue(p, d) PROVE IInv'
  <1>1. Forward
    BY StepForward DEF IInv, Next
  <1>2. charge[p] = "paid" /\ bound[p] \in Sale /\ ledger[p] # "none"
    BY DEF IInv, HandlersWork, Attributed, Enqueue
  <1>3. faults' \in 0 .. MaxFaults
    BY FaultCounts DEF IInv, TypeOK, Enqueue
  <1>4. PICK st \in {"none", "queued"} :
           /\ handler' = [handler EXCEPT ![p][d] = st]
           /\ st = "queued" => queued' = queued \cup {bound[p]}
           /\ st = "none" => queued' = queued
    BY DEF Enqueue
  <1>5. /\ handler' \in [Order -> [Delivery -> {"none", "found", "queued"}]]
        /\ \A o \in Order, e \in Delivery :
             handler'[o][e] = IF o = p /\ e = d THEN st ELSE handler[o][e]
    BY <1>4 DEF IInv, TypeOK
  <1>6. queued \subseteq queued' /\ queued' \subseteq queued \cup {bound[p]}
    BY <1>4
  <1>7. TypeOK'
    BY <1>2, <1>3, <1>5, <1>6 DEF IInv, TypeOK, Enqueue, till, orders
  <1>8. HandlersWork'
    BY <1>2, <1>4, <1>5, <1>6 DEF IInv, HandlersWork, Enqueue, orders
  <1>9. Attributed' /\ SettledIsPaid'
    BY <1>6 DEF IInv, Attributed, SettledIsPaid, Enqueue, orders
  <1>10. RowsArePaid'
    <2>1. PaidFor(bound[p])
      BY <1>2 DEF PaidFor
    <2> QED
      BY <1>1, <1>6, <2>1, PaidForStays DEF IInv, RowsArePaid
  <1>11. SeenIsIssued' /\ ScreenWorks'
    BY DEF IInv, SeenIsIssued, ScreenWorks, Enqueue, till, orders
  <1>12. CompletedIsPaid'
    BY <1>1, CompletedStays DEF IInv, Enqueue
  <1> QED
    BY <1>7, <1>8, <1>9, <1>10, <1>11, <1>12 DEF IInv

LEMMA MarkKeeps ==
    ASSUME IInv, NEW p \in Order, NEW d \in Delivery, Mark(p, d) PROVE IInv'
  <1>1. Forward
    BY StepForward DEF IInv, Next
  <1>2. charge[p] = "paid" /\ bound[p] \in queued /\ ledger[p] # "none"
    BY DEF IInv, HandlersWork, Mark
  <1>3. faults' \in 0 .. MaxFaults
    BY FaultCounts DEF IInv, TypeOK, Mark
  <1>4. /\ Attributed' /\ SettledIsPaid' /\ RowsArePaid' /\ SeenIsIssued'
        /\ ScreenWorks' /\ CompletedIsPaid'
        /\ ledger' \in [Order -> {"none", "issued", "other", "settlement"}]
    <2>1. CASE ledger' = Marked(p, "settlement")
      BY <1>1, <1>2, <2>1, MarkedKeeps DEF Mark
    <2>2. CASE UNCHANGED ledger
      <3>1. Attributed' /\ SettledIsPaid'
        BY <2>2 DEF IInv, Attributed, SettledIsPaid, Mark, orders
      <3>2. RowsArePaid' /\ CompletedIsPaid'
        BY <1>1, PaidForStays DEF IInv, RowsArePaid, CompletedIsPaid, Mark
      <3>3. SeenIsIssued' /\ ScreenWorks'
        BY <2>2 DEF IInv, SeenIsIssued, ScreenWorks, Mark, till, orders
      <3> QED
        BY <2>2, <3>1, <3>2, <3>3 DEF IInv, TypeOK
    <2> QED
      BY <2>1, <2>2 DEF Mark
  <1>5. /\ handler' \in [Order -> [Delivery -> {"none", "found", "queued"}]]
        /\ \A o \in Order, e \in Delivery :
             handler'[o][e] = IF o = p /\ e = d THEN "none" ELSE handler[o][e]
    BY DEF IInv, TypeOK, Mark
  <1>6. TypeOK'
    BY <1>3, <1>4, <1>5 DEF IInv, TypeOK, Mark, till, orders
  <1>7. HandlersWork'
    BY <1>1, <1>5 DEF IInv, HandlersWork, Mark, orders, Forward
  <1> QED
    BY <1>4, <1>6, <1>7 DEF IInv

LEMMA SaleKeeps ==
    ASSUME IInv, NEW s \in Sale, ApplyFinalize(s) \/ Reap(s) PROVE IInv'
  <1>1. Forward
    BY StepForward DEF IInv, Next
  <1>2. /\ CompletedIsPaid'
        /\ sale' \in [Sale -> {"none", "pending", "completed", "voided"}]
    <2>1. CASE ApplyFinalize(s)
      <3>1. PaidFor(s)
        BY <2>1 DEF IInv, RowsArePaid, ApplyFinalize
      <3> QED
        BY <1>1, <2>1, <3>1, CompletedKeeps DEF IInv, ApplyFinalize
    <2>2. CASE Reap(s)
      <3>1. sale' \in [Sale -> {"none", "pending", "completed", "voided"}]
        BY <2>2 DEF IInv, TypeOK, Reap
      <3>2. \A t \in Sale : sale'[t] = "completed" => sale[t] = "completed"
        BY <2>2 DEF IInv, TypeOK, Reap
      <3> QED
        BY <1>1, <3>1, <3>2, CompletedStays DEF IInv
    <2> QED
      BY <2>1, <2>2
  <1>3. TypeOK'
    BY <1>2 DEF IInv, TypeOK, ApplyFinalize, Reap, till, orders, cloud
  <1>4. Attributed' /\ SettledIsPaid' /\ HandlersWork' /\ RowsArePaid'
    BY <1>1, CloudUntouched DEF ApplyFinalize, Reap, cloud
  <1>5. SeenIsIssued' /\ ScreenWorks'
    BY DEF IInv, SeenIsIssued, ScreenWorks, ApplyFinalize, Reap, till, orders, cloud
  <1> QED
    BY <1>2, <1>3, <1>4, <1>5 DEF IInv

\* Every step keeps the invariant.
LEMMA InvStep == IInv /\ [Next]_vars => IInv'
  <1> SUFFICES ASSUME IInv, [Next]_vars PROVE IInv'
    OBVIOUS
  <1>1. CASE Next
    BY <1>1, PayKeeps, ChargeOkKeeps, ChargeFailsKeeps, ReissueKeeps, CancelKeeps,
       WatchKeeps, ConfirmKeeps, GatewayKeeps, NoticeKeeps, NotifyKeeps,
       EnqueueKeeps, MarkKeeps, SaleKeeps DEF Next
  <1>2. CASE UNCHANGED vars
    BY <1>2 DEF vars, till, orders, cloud, IInv, TypeOK, Attributed, SeenIsIssued,
       SettledIsPaid, HandlersWork, ScreenWorks, RowsArePaid, CompletedIsPaid,
       PaidFor
  <1> QED
    BY <1>1, <1>2

LEMMA Invariance == Spec => []IInv
  BY InvInit, InvStep, PTL DEF Spec

-----------------------------------------------------------------------------
\* Every variable keeps its type.
THEOREM TypesHold == Spec => []TypeOK
  <1>1. IInv => TypeOK
    BY DEF IInv
  <1> QED
    BY <1>1, Invariance, PTL

\* No QR reaches a screen before the ledger can attribute it, whatever the
\* gateway, the network and the database do (payment_api.rs, "Record BEFORE
\* responding").
THEOREM ShownQrIsAttributed == Spec => []ShownIsJournaled
  <1>1. IInv => ShownIsJournaled
    BY DEF IInv, TypeOK, SeenIsIssued, Attributed, ShownIsJournaled
  <1> QED
    BY <1>1, Invariance, PTL

\* A gateway sale completes only if the customer paid for one of its orders,
\* for every number of taps, re-issues, deliveries and faults.
THEOREM NoUnpaidSaleCompletes == Spec => []CompletedWasPaid
  <1>1. IInv => CompletedWasPaid
    BY DEF IInv, CompletedIsPaid, PaidFor, CompletedWasPaid
  <1> QED
    BY <1>1, Invariance, PTL

\* The webhook never marks an order settled before its finalize row is safe,
\* however handlers, duplicates and late notices interleave and fail.
THEOREM SettlementLeavesARow == Spec => []SettledIsQueued
  <1>1. IInv => SettledIsQueued
    BY DEF IInv, SettledIsPaid, SettledIsQueued
  <1> QED
    BY <1>1, Invariance, PTL

\* The ledger never re-points an order and never takes a settlement back.
THEOREM LedgerNeverGoesBack == Spec => LedgerIsFinal
  <1>1. IInv /\ [Next]_vars
        => [\A o \in Order :
             /\ ledger[o] # "none" => bound'[o] = bound[o]
             /\ ledger[o] = "settlement" => ledger'[o] = "settlement"]_vars
    BY StepForward DEF IInv, Forward
  <1> QED
    BY <1>1, Invariance, PTL DEF Spec, LedgerIsFinal

-----------------------------------------------------------------------------
(* The contract                                                            *)

\* What the contract also rests on: the attempt has made the sales up to the
\* current one, and an order the ledger does not have belongs to nobody.
Unspent ==
    /\ \A s \in Sale : sale[s] = "none" <=> current < s
    /\ \A o \in Order : ledger[o] = "none" => bound[o] = NoSale

CInv == IInv /\ Unspent

\* The orders the contract calls paid and settled.
Paid    == {o \in Order : charge[o] = "paid"}
Settled == {o \in Order : ledger[o] = "settlement"}

\* A sale that is pending becomes something else, never nothing.
LEMMA SalesStay ==
    ASSUME TypeOK, NEW s \in Sale, NEW to \in {"completed", "voided"},
           sale[s] = "pending", sale' = [sale EXCEPT ![s] = to]
    PROVE  \A t \in Sale : sale'[t] = "none" <=> sale[t] = "none"
  BY DEF TypeOK

\* Finalizing is a turn of a pending sale, or nothing.
LEMMA FinalizeTurns ==
    ASSUME TypeOK, NEW s \in Sale, sale' = Completed(s)
    PROVE  \/ Contract!Turn(s, "pending", "completed")
           \/ UNCHANGED sale
  BY DEF TypeOK, Completed, Contract!Turn

\* So is the screen's void.
LEMMA VoidTurns ==
    ASSUME TypeOK, VoidCurrent
    PROVE  \/ Contract!Turn(current, "pending", "voided")
           \/ UNCHANGED sale
  BY DEF VoidCurrent, Contract!Turn

\* Journalling attributes the order to the screen's sale, and nothing else.
LEMMA JournalAttributes ==
    ASSUME CInv, NEW p \in Order, Journal(p)
    PROVE  /\ Contract!Attribute(p, current)
           /\ Paid' = Paid /\ Settled' = Settled
           /\ \A o \in Order : ledger'[o] = "none" => bound'[o] = NoSale
  <1>1. /\ ledger[p] = "none" /\ ledger' = [ledger EXCEPT ![p] = "issued"]
        /\ bound' = [bound EXCEPT ![p] = current]
        /\ charge[p] # "paid" /\ charge' = [charge EXCEPT ![p] = "open"]
    BY DEF Journal
  <1>2. /\ ledger \in [Order -> {"none", "issued", "other", "settlement"}]
        /\ charge \in [Order -> {"none", "open", "paid", "expired"}]
        /\ bound \in [Order -> Sale \cup {NoSale}]
    BY DEF CInv, IInv, TypeOK
  <1>3. Contract!Attribute(p, current)
    BY <1>1 DEF CInv, Unspent, Contract!Attribute
  <1>4. Paid' = Paid /\ Settled' = Settled
    BY <1>1, <1>2 DEF Paid, Settled
  <1>5. \A o \in Order : ledger'[o] = "none" => bound'[o] = NoSale
    BY <1>1, <1>2 DEF CInv, Unspent
  <1> QED
    BY <1>3, <1>4, <1>5

\* A failed charge attributes the order to the screen's sale or leaves the
\* contract's variables alone.
LEMMA NotIssuedAttributes ==
    ASSUME CInv, NEW p \in Order, NotIssued(p)
    PROVE  /\ Contract!Attribute(p, current) \/ UNCHANGED bound
           /\ Paid' = Paid /\ Settled' = Settled
           /\ \A o \in Order : ledger'[o] = "none" => bound'[o] = NoSale
  <1>1. CASE Journal(p)
    BY <1>1, JournalAttributes
  <1>2. CASE UNCHANGED <<ledger, bound>> /\ charge[p] = "none"
             /\ charge' = [charge EXCEPT ![p] = "open"]
    BY <1>2 DEF CInv, IInv, TypeOK, Unspent, Paid, Settled
  <1>3. CASE UNCHANGED <<ledger, bound, charge>>
    BY <1>3 DEF CInv, Unspent, Paid, Settled
  <1> QED
    BY <1>1, <1>2, <1>3 DEF NotIssued

\* The mapping, spelled out: what a step of the contract reads and writes.
LEMMA Mapped ==
    /\ Contract!vars = <<sale, bound, Paid, queued, Settled>>
    /\ Contract!vars' = <<sale', bound', Paid', queued', Settled'>>
  BY DEF Contract!vars, Paid, Settled

\* A step is one of the contract's or changes nothing it knows, and leaves
\* made sales made and unknown orders nobody's.
Honoured ==
    /\ [Contract!Next]_(Contract!vars)
    /\ Unspent'

\* The screen keeps its sale: only a tap makes another.
LEMMA SaleUnspent ==
    ASSUME CInv, current' = current,
           \A t \in Sale : sale'[t] = "none" <=> sale[t] = "none",
           \A o \in Order : ledger'[o] = "none" => bound'[o] = NoSale
    PROVE  Unspent'
  BY DEF CInv, Unspent

\* Most steps concern the contract not at all.
LEMMA Unconcerned ==
    ASSUME CInv, UNCHANGED <<current, sale, bound, queued, ledger>>, Paid' = Paid
    PROVE  Honoured
  <1>1. Settled' = Settled
    BY DEF Settled
  <1>2. Unspent'
    BY DEF CInv, Unspent
  <1> QED
    BY <1>1, <1>2, Mapped DEF Honoured

\* A tap opens the next sale.
LEMMA PayHonours == CInv /\ Pay => Honoured
  <1> SUFFICES ASSUME CInv, Pay PROVE Honoured
    OBVIOUS
  <1>1. /\ current \in Nat /\ current + 1 \in Sale /\ sale[current + 1] = "none"
        /\ sale \in [Sale -> {"none", "pending", "completed", "voided"}]
    BY BoundsAssumption, Names DEF CInv, IInv, TypeOK, Unspent, Pay, Sale, NoSale
  <1>2. Contract!Open(current + 1)
    BY <1>1 DEF Pay, orders, cloud, Contract!Open, Contract!Turn
  <1>3. Unspent'
    <2>1. \A s \in Sale : sale'[s] = "none" <=> current + 1 < s
      BY <1>1, Names DEF CInv, Unspent, Pay
    <2> QED
      BY <2>1 DEF CInv, Unspent, Pay, cloud
  <1> QED
    BY <1>1, <1>2, <1>3 DEF Honoured, Contract!Next

\* The screen works on a sale that was made.
LEMMA ScreenHasSale ==
    ASSUME CInv, screen # "ready"
    PROVE  current \in Sale /\ sale[current] # "none"
  BY Names DEF CInv, IInv, TypeOK, Unspent

\* A QR that is shown was issued for the screen's sale.
LEMMA IssuedHonours ==
    ASSUME CInv, NEW p \in Order, Issued(p), screen # "ready",
           UNCHANGED <<current, sale>>
    PROVE  Honoured
  <1>1. /\ Contract!Attribute(p, current) /\ Paid' = Paid /\ Settled' = Settled
        /\ \A o \in Order : ledger'[o] = "none" => bound'[o] = NoSale
    BY JournalAttributes DEF Issued
  <1>2. Contract!Issue(p, current)
    BY <1>1, ScreenHasSale DEF Issued, Contract!Issue, Paid, Settled
  <1>3. Unspent'
    BY <1>1, SaleUnspent
  <1> QED
    BY <1>2, <1>3, ScreenHasSale DEF Honoured, Contract!Next

LEMMA ChargeOkHonours == CInv /\ ChargeOk => Honoured
  BY IssuedHonours, Names DEF ChargeOk

\* A failed charge voids its sale, leaves an order nobody saw, or both.
LEMMA ChargeFailsHonours == CInv /\ ChargeFails => Honoured
  <1> SUFFICES ASSUME CInv, ChargeFails PROVE Honoured
    OBVIOUS
  <1>1. /\ Contract!Attribute(0, current) \/ UNCHANGED bound
        /\ Paid' = Paid /\ Settled' = Settled
        /\ \A o \in Order : ledger'[o] = "none" => bound'[o] = NoSale
    BY NotIssuedAttributes, Names DEF ChargeFails
  <1>2. current \in Sale /\ sale[current] # "none" /\ TypeOK
    BY ScreenHasSale DEF ChargeFails, CInv, IInv
  <1>3. UNCHANGED <<current, queued>>
    BY DEF ChargeFails, NotIssued
  <1>4. CASE Contract!Turn(current, "pending", "voided")
    <2>1. Contract!Void(current)
      BY <1>1, <1>3, <1>4, Names DEF Contract!Void, Paid, Settled
    <2>2. Unspent'
      <3>1. \A t \in Sale : sale'[t] = "none" <=> sale[t] = "none"
        BY <1>2, <1>4, SalesStay DEF Contract!Turn
      <3> QED
        BY <1>1, <1>3, <3>1, SaleUnspent
    <2> QED
      BY <1>2, <2>1, <2>2 DEF Honoured, Contract!Next
  <1>5. CASE UNCHANGED sale
    <2>1. Unspent'
      BY <1>1, <1>3, <1>5, SaleUnspent
    <2>2. CASE UNCHANGED bound
      BY <1>1, <1>3, <1>5, <2>1, <2>2, Mapped DEF Honoured
    <2>3. CASE Contract!Attribute(0, current)
      <3>1. Contract!Issue(0, current)
        BY <1>1, <1>2, <1>3, <1>5, <2>3 DEF Contract!Issue, Paid, Settled
      <3> QED
        BY <1>2, <2>1, <3>1, Names DEF Honoured, Contract!Next
    <2> QED
      BY <1>1, <2>2, <2>3
  <1> QED
    BY <1>2, <1>4, <1>5, VoidTurns DEF ChargeFails

\* A re-issue is another order of the same sale.
LEMMA ReissueHonours == CInv /\ Reissue => Honoured
  <1> SUFFICES ASSUME CInv, Reissue PROVE Honoured
    OBVIOUS
  <1>1. seq + 1 \in Order
    BY BoundsAssumption DEF CInv, IInv, TypeOK, Reissue, Order
  <1>2. CASE Issued(seq + 1)
    BY <1>1, <1>2, IssuedHonours DEF Reissue
  <1>3. CASE NotIssued(seq + 1)
    <2>1. /\ Contract!Attribute(seq + 1, current) \/ UNCHANGED bound
          /\ Paid' = Paid /\ Settled' = Settled
          /\ \A o \in Order : ledger'[o] = "none" => bound'[o] = NoSale
      BY <1>1, <1>3, NotIssuedAttributes
    <2>2. current \in Sale /\ sale[current] # "none"
      BY ScreenHasSale DEF Reissue
    <2>3. UNCHANGED <<current, sale, queued>>
      BY <1>3 DEF Reissue, NotIssued
    <2>4. Unspent'
      BY <2>1, <2>3, SaleUnspent
    <2>5. CASE UNCHANGED bound
      BY <2>1, <2>3, <2>4, <2>5, Mapped DEF Honoured
    <2>6. CASE Contract!Attribute(seq + 1, current)
      <3>1. Contract!Issue(seq + 1, current)
        BY <2>1, <2>2, <2>3, <2>6 DEF Contract!Issue, Paid, Settled
      <3> QED
        BY <1>1, <2>2, <2>4, <3>1 DEF Honoured, Contract!Next
    <2> QED
      BY <2>1, <2>5, <2>6
  <1> QED
    BY <1>2, <1>3 DEF Reissue

\* Turning one pending sale is the contract's step, whoever does it.
LEMMA TurnHonours ==
    ASSUME CInv, NEW s \in Sale,
           \/ Contract!Turn(s, "pending", "voided")
           \/ Contract!Turn(s, "pending", "completed") /\ s \in queued
           \/ UNCHANGED sale,
           UNCHANGED <<current, bound, queued, ledger, charge>>
    PROVE  Honoured
  <1>1. Paid' = Paid /\ Settled' = Settled
    BY DEF Paid, Settled
  <1>2. CASE UNCHANGED sale
    BY <1>1, <1>2, Unconcerned
  <1>3. ASSUME NEW to \in {"completed", "voided"}, Contract!Turn(s, "pending", to)
        PROVE  Unspent'
    <2>1. \A t \in Sale : sale'[t] = "none" <=> sale[t] = "none"
      BY <1>3, SalesStay DEF CInv, IInv, Contract!Turn
    <2>2. \A o \in Order : ledger'[o] = "none" => bound'[o] = NoSale
      BY DEF CInv, Unspent
    <2> QED
      BY <2>1, <2>2, SaleUnspent
  <1>4. CASE Contract!Turn(s, "pending", "voided")
    <2>1. Contract!Void(s)
      BY <1>1, <1>4 DEF Contract!Void, Paid, Settled
    <2> QED
      BY <1>3, <1>4, <2>1 DEF Honoured, Contract!Next
  <1>5. CASE Contract!Turn(s, "pending", "completed") /\ s \in queued
    <2>1. Contract!Complete(s)
      BY <1>1, <1>5 DEF Contract!Complete, Paid, Settled
    <2> QED
      BY <1>3, <1>5, <2>1 DEF Honoured, Contract!Next
  <1> QED
    BY <1>2, <1>4, <1>5

\* The screen cancels or confirms its sale; it confirms only a settled order,
\* and that one's row is there.
LEMMA ScreenHonours == CInv /\ (CountDown \/ Poll \/ Cancel \/ Confirm) => Honoured
  <1>1. CInv /\ (CountDown \/ Poll) => Honoured
    BY Unconcerned DEF CountDown, Poll, orders, cloud, Paid
  <1>2. ASSUME CInv, Cancel PROVE Honoured
    <2>1. UNCHANGED <<current, bound, queued, ledger, charge>>
      BY <1>2 DEF Cancel, orders, cloud
    <2> QED
      BY <1>2, <2>1, ScreenHasSale, VoidTurns, TurnHonours DEF Cancel, CInv, IInv
  <1>3. ASSUME CInv, Confirm PROVE Honoured
    <2>1. UNCHANGED <<current, bound, queued, ledger, charge>>
      BY <1>3 DEF Confirm, orders, cloud
    <2>2. current \in Sale /\ current \in queued
      BY <1>3, ScreenHasSale DEF Confirm, CInv, IInv, TypeOK, ScreenWorks, SettledIsPaid
    <2>3. Contract!Turn(current, "pending", "completed") \/ UNCHANGED sale
      BY <1>3, <2>2, FinalizeTurns DEF Confirm, CInv, IInv
    <2> QED
      BY <1>3, <2>1, <2>2, <2>3, TurnHonours
  <1> QED
    BY <1>1, <1>2, <1>3

\* The daemon completes a sale that has a row, the reaper voids one.
LEMMA SaleHonours ==
    ASSUME CInv, NEW s \in Sale, ApplyFinalize(s) \/ Reap(s)
    PROVE  Honoured
  <1>1. UNCHANGED <<current, bound, queued, ledger, charge>>
    BY DEF ApplyFinalize, Reap, till, orders, cloud
  <1>2. CASE ApplyFinalize(s)
    <2>1. s \in queued /\ sale' = Completed(s)
      BY <1>2 DEF ApplyFinalize
    <2>2. Contract!Turn(s, "pending", "completed") \/ UNCHANGED sale
      BY <2>1, FinalizeTurns DEF CInv, IInv
    <2> QED
      BY <1>1, <2>1, <2>2, TurnHonours
  <1>3. CASE Reap(s)
    <2>1. Contract!Turn(s, "pending", "voided")
      BY <1>3 DEF Reap, Contract!Turn
    <2> QED
      BY <1>1, <2>1, TurnHonours
  <1> QED
    BY <1>2, <1>3

\* The customer pays an order that belongs to a sale; an expiry takes nothing.
LEMMA GatewayHonours ==
    ASSUME CInv, NEW p \in Order, CustomerPays(p) \/ OrderExpires(p)
    PROVE  Honoured
  <1>1. UNCHANGED <<current, sale, bound, queued, ledger>>
    BY DEF CustomerPays, OrderExpires, till, cloud
  <1>2. charge \in [Order -> {"none", "open", "paid", "expired"}]
    BY DEF CInv, IInv, TypeOK
  <1>3. CASE CustomerPays(p)
    <2>1. bound[p] # NoSale /\ p \notin Paid
      BY <1>3, Names DEF CInv, IInv, SeenIsIssued, Attributed, CustomerPays, Paid
    <2>2. Paid' = Paid \cup {p}
      BY <1>2, <1>3 DEF CustomerPays, Paid
    <2>3. Contract!Pay(p)
      BY <1>1, <2>1, <2>2 DEF Contract!Pay, Paid
    <2>4. Unspent'
      BY <1>1 DEF CInv, Unspent
    <2> QED
      BY <2>3, <2>4 DEF Honoured, Contract!Next
  <1>4. CASE OrderExpires(p)
    <2>1. Paid' = Paid
      BY <1>2, <1>4 DEF OrderExpires, Paid
    <2> QED
      BY <1>1, <2>1, Unconcerned
  <1> QED
    BY <1>3, <1>4

\* A ledger status changes no attribution, and only a settlement settles.
LEMMA MarkedSettles ==
    ASSUME CInv, NEW p \in Order, NEW st \in {"other", "settlement"},
           ledger[p] # "none", ledger' = Marked(p, st),
           UNCHANGED <<current, sale, bound>>
    PROVE  /\ Settled' = IF st = "settlement" THEN Settled \cup {p} ELSE Settled
           /\ Unspent'
  <1>1. ledger \in [Order -> {"none", "issued", "other", "settlement"}]
    BY DEF CInv, IInv, TypeOK
  <1>2. Settled' = IF st = "settlement" THEN Settled \cup {p} ELSE Settled
    BY <1>1 DEF Settled, Marked
  <1>3. \A o \in Order : ledger'[o] = "none" => ledger[o] = "none"
    BY <1>1 DEF Marked
  <1> QED
    BY <1>2, <1>3 DEF CInv, Unspent

\* A settlement leaves its row, then settles.
LEMMA WebhookHonours ==
    ASSUME CInv, NEW p \in Order, NEW d \in Delivery,
           Notify(p, d) \/ Enqueue(p, d) \/ Mark(p, d)
    PROVE  Honoured
  <1>1. UNCHANGED <<current, sale, bound>> /\ Paid' = Paid
    BY DEF Notify, Enqueue, Mark, till, orders, Paid
  <1>2. CASE Notify(p, d)
    BY <1>1, <1>2, Unconcerned DEF Notify
  <1>3. CASE Enqueue(p, d)
    <2>1. p \in Paid /\ UNCHANGED ledger
      BY <1>3 DEF CInv, IInv, HandlersWork, Enqueue, Paid
    <2>2. Settled' = Settled /\ Unspent'
      BY <1>1, <2>1 DEF Settled, CInv, Unspent
    <2>3. CASE queued' = queued \cup {bound[p]}
      <3>1. Contract!Queue(p)
        BY <1>1, <2>1, <2>2, <2>3 DEF Contract!Queue, Paid, Settled
      <3> QED
        BY <2>2, <3>1 DEF Honoured, Contract!Next
    <2>4. CASE UNCHANGED queued
      BY <1>1, <2>2, <2>4, Mapped DEF Honoured
    <2> QED
      BY <1>3, <2>3, <2>4 DEF Enqueue
  <1>4. CASE Mark(p, d)
    <2>1. p \in Paid /\ bound[p] \in queued /\ ledger[p] # "none" /\ UNCHANGED queued
      BY <1>4 DEF CInv, IInv, HandlersWork, Mark, Paid
    <2>2. CASE ledger' = Marked(p, "settlement")
      <3>1. Settled' = Settled \cup {p} /\ Unspent'
        BY <1>1, <2>1, <2>2, MarkedSettles
      <3>2. Contract!Settle(p)
        BY <1>1, <2>1, <3>1 DEF Contract!Settle, Paid, Settled
      <3> QED
        BY <3>1, <3>2 DEF Honoured, Contract!Next
    <2>3. CASE UNCHANGED ledger
      BY <1>1, <2>1, <2>3, Unconcerned
    <2> QED
      BY <1>4, <2>2, <2>3 DEF Mark
  <1> QED
    BY <1>2, <1>3, <1>4

\* Every step is one the contract allows.
LEMMA ContractStep == CInv /\ [Next]_vars => Honoured
  <1> SUFFICES ASSUME CInv, [Next]_vars PROVE Honoured
    OBVIOUS
  <1>1. ASSUME NEW p \in Order, Notice(p) PROVE Honoured
    <2>1. UNCHANGED <<current, sale, bound, queued>> /\ Paid' = Paid
      BY <1>1 DEF Notice, till, orders, Paid
    <2>2. Settled' = Settled /\ Unspent'
      BY <1>1, <2>1, MarkedSettles DEF Notice
    <2> QED
      BY <2>1, <2>2, Mapped DEF Honoured
  <1>2. CASE UNCHANGED vars
    BY <1>2, Unconcerned DEF vars, till, orders, cloud, Paid
  <1> QED
    BY <1>1, <1>2, PayHonours, ChargeOkHonours, ChargeFailsHonours, ReissueHonours,
       ScreenHonours, GatewayHonours, WebhookHonours, SaleHonours DEF Next

\* Under duplicate and late notices, handlers that stop half-way, lost answers,
\* re-issues, the cashier, the daemon and the reaper, the payment still keeps
\* its contract: attributed before it is paid, its row before it is settled,
\* one completion on a row that a payment left, nothing taken back.
THEOREM ImplementsContract == Spec => HonoursContract
  <1> USE DEF HonoursContract
  <1>1. Init => Unspent
    BY BoundsAssumption DEF Init, Unspent, Sale, NoSale
  <1>2. Init => Contract!Init
    BY DEF Init, Contract!Init
  <1>3. IInv /\ Unspent /\ [Next]_vars
        => [Contract!Next]_(Contract!vars) /\ Unspent'
    BY ContractStep DEF CInv, Honoured
  <1> QED
    BY <1>1, <1>2, <1>3, Invariance, PTL DEF Spec, Contract!Spec

-----------------------------------------------------------------------------
(* Nobody drops a payment                                                  *)

\* Who still has to act: a paid order is in the ledger; the gateway was told to
\* stop only about settled ones; a journaled order's sale was made; and what
\* the till applied has ended its sale.
Duty ==
    /\ \A o \in Order : charge[o] = "paid" => ledger[o] # "none"
    /\ \A o \in acked : ledger[o] = "settlement"
    /\ \A o \in Order : ledger[o] # "none" => sale[bound[o]] # "none"
    /\ \A s \in applied : sale[s] \in {"completed", "voided"}

\* What the contract alone says about a step.
LEMMA ContractSays ==
    ASSUME CInv, CInv', [Contract!Next]_(Contract!vars)
    PROVE  /\ \A s \in Sale :
                /\ sale[s] # "none" => sale'[s] # "none"
                /\ sale[s] \in {"completed", "voided"} => sale'[s] = sale[s]
           /\ \A o \in Order : charge'[o] = "paid" => charge[o] = "paid" \/ ledger[o] # "none"
           /\ \A o \in Order : bound'[o] = bound[o] \/ sale'[bound'[o]] # "none"
  <1>1. /\ sale \in [Sale -> {"none", "pending", "completed", "voided"}]
        /\ bound \in [Order -> Sale \cup {NoSale}]
    BY DEF CInv, IInv, TypeOK
  <1>2. CASE Contract!vars' = Contract!vars
    BY <1>2, Mapped DEF Paid
  <1>3. ASSUME NEW s \in Sale, NEW from, NEW to \in {"pending", "completed", "voided"},
               Contract!Turn(s, from, to), from \in {"none", "pending"}
        PROVE  \A t \in Sale :
                 /\ sale[t] # "none" => sale'[t] # "none"
                 /\ sale[t] \in {"completed", "voided"} => sale'[t] = sale[t]
    BY <1>1, <1>3 DEF Contract!Turn
  <1>4. ASSUME NEW s \in Sale, Contract!Open(s) \/ Contract!Complete(s)
        PROVE  /\ Paid' = Paid /\ bound' = bound
               /\ \A t \in Sale :
                    /\ sale[t] # "none" => sale'[t] # "none"
                    /\ sale[t] \in {"completed", "voided"} => sale'[t] = sale[t]
    BY <1>3, <1>4 DEF Contract!Open, Contract!Complete, Paid
  <1>5. ASSUME NEW s \in Sale, Contract!Void(s)
        PROVE  /\ Paid' = Paid
               /\ \A o \in Order : bound'[o] = bound[o] \/ bound'[o] = s
               /\ sale'[s] # "none"
               /\ \A t \in Sale :
                    /\ sale[t] # "none" => sale'[t] # "none"
                    /\ sale[t] \in {"completed", "voided"} => sale'[t] = sale[t]
    <2>1. Contract!Turn(s, "pending", "voided") /\ Paid' = Paid
      BY <1>5 DEF Contract!Void, Paid
    <2>2. \A o \in Order : bound'[o] = bound[o] \/ bound'[o] = s
      BY <1>1, <1>5 DEF Contract!Void, Contract!Attribute
    <2>3. sale'[s] # "none"
      BY <1>1, <2>1 DEF Contract!Turn
    <2> QED
      BY <1>3, <2>1, <2>2, <2>3
  <1>6. ASSUME NEW o \in Order, NEW s \in Sale, Contract!Issue(o, s)
        PROVE  /\ Paid' = Paid /\ sale' = sale /\ sale[s] # "none"
               /\ \A p \in Order : bound'[p] = bound[p] \/ bound'[p] = s
    BY <1>1, <1>6 DEF Contract!Issue, Contract!Attribute, Paid
  <1>7. ASSUME NEW o \in Order, Contract!Queue(o) \/ Contract!Settle(o)
        PROVE  UNCHANGED <<sale, bound>> /\ Paid' = Paid
    BY <1>7 DEF Contract!Queue, Contract!Settle, Paid
  <1>8. ASSUME NEW o \in Order, Contract!Pay(o)
        PROVE  UNCHANGED <<sale, bound>> /\ Paid' = Paid \cup {o} /\ ledger[o] # "none"
    BY <1>8 DEF Contract!Pay, Paid, CInv, Unspent
  <1>9. \A o \in Order : (charge[o] = "paid" <=> o \in Paid)
                         /\ (charge'[o] = "paid" <=> o \in Paid')
    BY DEF Paid
  <1> QED
    BY <1>2, <1>4, <1>5, <1>6, <1>7, <1>8, <1>9 DEF Contract!Next

\* The gateway is told to stop only about an order that is settled by then.
LEMMA AckedIsSettled ==
    ASSUME IInv, Duty, Forward, [Next]_vars
    PROVE  \A o \in acked' : ledger'[o] = "settlement"
  <1>0. \A o \in acked : o \in Order /\ ledger'[o] = "settlement"
    BY DEF IInv, TypeOK, Duty, Forward
  <1>1. CASE UNCHANGED acked
    BY <1>0, <1>1
  <1>2. ASSUME NEW o \in Order, NEW d \in Delivery, Notify(o, d)
        PROVE  acked' \subseteq acked \cup {o} /\ (acked' # acked => ledger'[o] = "settlement")
    BY <1>2 DEF Notify, Duty
  <1>3. ASSUME NEW o \in Order, NEW d \in Delivery, Mark(o, d)
        PROVE  acked' \subseteq acked \cup {o} /\ (acked' # acked => ledger'[o] = "settlement")
    BY <1>3 DEF Mark, Marked, IInv, TypeOK
  <1>4. ASSUME NEW o \in Order, NEW d \in Delivery, Enqueue(o, d) PROVE UNCHANGED acked
    BY <1>4 DEF Enqueue
  <1>5. CASE \/ Pay \/ ChargeOk \/ ChargeFails \/ CountDown \/ Reissue \/ Cancel
             \/ Poll \/ Confirm \/ UNCHANGED vars
    <2>1. UNCHANGED acked
      BY <1>5 DEF Pay, ChargeOk, ChargeFails, CountDown, Reissue, Cancel, Poll,
         Confirm, Issued, NotIssued, cloud, vars
    <2> QED
      BY <1>1, <2>1
  <1>6. ASSUME NEW o \in Order, CustomerPays(o) \/ OrderExpires(o) \/ Notice(o)
        PROVE  UNCHANGED acked
    BY <1>6 DEF CustomerPays, OrderExpires, Notice, cloud
  <1>7. ASSUME NEW s \in Sale, ApplyFinalize(s) \/ Reap(s) PROVE UNCHANGED acked
    BY <1>7 DEF ApplyFinalize, Reap, cloud
  <1> QED
    BY <1>0, <1>1, <1>2, <1>3, <1>4, <1>5, <1>6, <1>7 DEF Next

\* What the till applied has ended its sale: the row names a sale that was made.
LEMMA AppliedIsEnded ==
    ASSUME CInv, CInv', Duty, [Contract!Next]_(Contract!vars), [Next]_vars
    PROVE  \A s \in applied' : sale'[s] \in {"completed", "voided"}
  <1>0. \A s \in applied : s \in Sale /\ sale'[s] \in {"completed", "voided"}
    BY ContractSays DEF CInv, IInv, TypeOK, Duty
  <1>1. CASE UNCHANGED applied
    BY <1>0, <1>1
  <1>2. ASSUME NEW s \in Sale, ApplyFinalize(s)
        PROVE  applied' = applied \cup {s} /\ sale'[s] \in {"completed", "voided"}
    <2>1. PICK o \in Order : bound[o] = s /\ charge[o] = "paid"
      BY <1>2 DEF ApplyFinalize, CInv, IInv, RowsArePaid, PaidFor
    <2>2. sale[s] # "none"
      BY <2>1 DEF Duty
    <2> QED
      BY <1>2, <2>2 DEF ApplyFinalize, Completed, CInv, IInv, TypeOK
  <1>3. CASE \/ Pay \/ ChargeOk \/ ChargeFails \/ CountDown \/ Reissue \/ Cancel
             \/ Poll \/ Confirm \/ UNCHANGED vars
    <2>1. UNCHANGED applied
      BY <1>3 DEF Pay, ChargeOk, ChargeFails, CountDown, Reissue, Cancel, Poll,
         Confirm, vars
    <2> QED
      BY <1>1, <2>1
  <1>4. ASSUME NEW o \in Order,
               \/ CustomerPays(o) \/ OrderExpires(o) \/ Notice(o)
               \/ \E d \in Delivery : Notify(o, d) \/ Enqueue(o, d) \/ Mark(o, d)
        PROVE  UNCHANGED applied
    BY <1>4 DEF CustomerPays, OrderExpires, Notice, Notify, Enqueue, Mark
  <1>5. ASSUME NEW s \in Sale, Reap(s) PROVE UNCHANGED applied
    BY <1>5 DEF Reap
  <1> QED
    BY <1>0, <1>1, <1>2, <1>3, <1>4, <1>5 DEF Next

\* Every step keeps the duties.
LEMMA DutyStep == CInv /\ CInv' /\ Duty /\ [Next]_vars => Duty'
  <1> SUFFICES ASSUME CInv, CInv', Duty, [Next]_vars PROVE Duty'
    OBVIOUS
  <1>1. Forward /\ [Contract!Next]_(Contract!vars)
    BY StepForward, ContractStep DEF CInv, IInv, Honoured
  <1>2. \A o \in Order : charge'[o] = "paid" => ledger'[o] # "none"
    BY <1>1, ContractSays DEF Duty, Forward
  <1>3. \A o \in acked' : ledger'[o] = "settlement"
    BY <1>1, AckedIsSettled DEF CInv
  <1>4. ASSUME NEW o \in Order, ledger'[o] # "none" PROVE sale'[bound'[o]] # "none"
    <2>1. CASE ledger[o] # "none"
      <3>1. bound'[o] = bound[o] /\ bound[o] \in Sale /\ sale[bound[o]] # "none"
        BY <1>1, <2>1 DEF Forward, Duty, CInv, IInv, Attributed
      <3> QED
        BY <1>1, <3>1, ContractSays
    <2>2. CASE ledger[o] = "none"
      <3>1. bound[o] = NoSale /\ bound'[o] \in Sale
        BY <1>4, <2>2 DEF CInv, IInv, Unspent, Attributed
      <3>2. bound'[o] # bound[o]
        BY <3>1, Names
      <3> QED
        BY <1>1, <3>2, ContractSays
    <2> QED
      BY <2>1, <2>2
  <1>5. \A s \in applied' : sale'[s] \in {"completed", "voided"}
    BY <1>1, AppliedIsEnded
  <1> QED
    BY <1>2, <1>3, <1>4, <1>5 DEF Duty

\* The safety half of PaidIsSettled: at no moment is there a payment that the
\* gateway no longer reports, no row carries and no sale shows.  What is left to
\* fairness is that the gateway retries and the daemon pulls.
THEOREM PaymentsAreNeverDropped == Spec => []NoPaymentDropped
  <1>1. Init => Unspent /\ Duty
    BY BoundsAssumption DEF Init, Unspent, Duty, Sale, NoSale
  <1>2. IInv /\ IInv' /\ Unspent /\ Duty /\ [Next]_vars => Unspent' /\ Duty'
    <2>1. IInv /\ Unspent /\ [Next]_vars => Unspent'
      BY ContractStep DEF CInv, Honoured
    <2> QED
      BY <2>1, DutyStep DEF CInv
  <1>3. IInv /\ Duty => NoPaymentDropped
    <2> SUFFICES ASSUME IInv, Duty, NEW o \in Order, charge[o] = "paid", o \in acked,
                        bound[o] \notin queued \ applied
                 PROVE  bound[o] \in Sale /\ sale[bound[o]] \in {"completed", "voided"}
      BY DEF NoPaymentDropped
    <2>1. bound[o] \in queued /\ bound[o] \in Sale
      BY DEF IInv, Attributed, SettledIsPaid, Duty
    <2> QED
      BY <2>1 DEF Duty
  <1> QED
    BY <1>1, <1>2, <1>3, Invariance, PTL DEF Spec

=============================================================================
