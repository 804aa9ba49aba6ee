---------------------------- MODULE PushQueueProofs ---------------------------
(***************************************************************************)
(* Theorems about PushQueue, for every set of mutations, lanes, database   *)
(* files and pushers, and every bound.                                     *)
(***************************************************************************)
EXTENDS PushQueue, TLAPS

\* The types without the bounds on counters
Types ==
    /\ status \in [Row -> Status]
    /\ committed \subseteq Mutation /\ events \subseteq committed
    /\ server \subseteq Row /\ refused \subseteq Row
    /\ pc \in [Pusher -> Phase]
    /\ batch \in [Pusher -> SUBSET Row]
    /\ outcome \in [Pusher -> [Row -> Outcome]]
    /\ \A p \in Pusher : batch[p] \subseteq OutboxOf(p)

Counters == faults \in 0..MaxFaults /\ deletes \in 0..MaxDeletes

\* A marking loop processes rows of its batch only.
LEMMA ProcessedInBatch ==
    \A p \in Pusher : \A done \in Processed(p) : done \subseteq batch[p]
BY DEF Processed

\* Marks are statuses.
LEMMA MarkIsStatus ==
    ASSUME Types
    PROVE  \A p \in Pusher, r \in Row : Mark(p, r) \in Status
BY DEF Types, Mark, MarkSynced, MarkError, MarkFailed, Status

\* Hence a marking loop writes statuses.
LEMMA MarkedType ==
    ASSUME Types
    PROVE  \A p \in Pusher : \A done : Marked(p, done) \in [Row -> Status]
<1>1. \A p \in Pusher, r \in Row : Mark(p, r) \in Status
  BY MarkIsStatus
<1>2. \A r \in Row : status[r] \in Status
  BY DEF Types
<1> QED
  BY <1>1, <1>2 DEF Marked

\* Every step keeps the types.
LEMMA TypesStep == Types /\ [Next]_vars => Types'
<1> SUFFICES ASSUME Types, [Next]_vars
             PROVE  Types'
  OBVIOUS
<1>1. ASSUME NEW m \in Mutation, Commit(m)
      PROVE  Types'
  BY <1>1 DEF Types, Commit, remote, pushers, Status, OutboxOf
<1>2. ASSUME NEW m \in Mutation, HandleEvent(m)
      PROVE  Types'
  <2>1. status' \in [Row -> Status]
    BY <1>2 DEF Types, HandleEvent, Status
  <2> QED
    BY <1>2, <2>1 DEF Types, HandleEvent, remote, pushers, OutboxOf
<1>3. ASSUME NEW m \in Mutation, LoseEvent(m)
      PROVE  Types'
  BY <1>3 DEF Types, LoseEvent, remote, pushers, OutboxOf
<1>4. ASSUME NEW r \in Row, Delete(r)
      PROVE  Types'
  <2>1. status' \in [Row -> Status]
    BY <1>4 DEF Types, Delete, Status
  <2> QED
    BY <1>4, <2>1 DEF Types, Delete, remote, pushers, OutboxOf
<1>5. ASSUME NEW p \in Pusher, Read(p)
      PROVE  Types'
  <2>1. Pending(p) \subseteq OutboxOf(p) /\ Pending(p) \subseteq Row
    BY DEF Pending, OutboxOf
  <2>2. pc' \in [Pusher -> Phase]
    BY <1>5 DEF Types, Read, Phase
  <2>3. batch' \in [Pusher -> SUBSET Row]
    BY <1>5, <2>1 DEF Types, Read
  <2>4. \A q \in Pusher : batch'[q] \subseteq OutboxOf(q)
    BY <1>5, <2>1 DEF Types, Read
  <2> QED
    BY <1>5, <2>2, <2>3, <2>4 DEF Types, Read, till, remote, OutboxOf
<1>6. ASSUME NEW p \in Pusher, Serve(p)
      PROVE  Types'
  <2>1. batch[p] \subseteq Row
    BY DEF Types
  <2>2. server' \subseteq Row /\ refused' \subseteq Row
    BY <1>6, <2>1 DEF Types, Serve
  <2>3. outcome' \in [Pusher -> [Row -> Outcome]]
    BY <1>6 DEF Types, Serve, Outcome
  <2>4. pc' \in [Pusher -> Phase]
    BY <1>6 DEF Types, Serve, Phase
  <2> QED
    BY <1>6, <2>2, <2>3, <2>4 DEF Types, Serve, till, OutboxOf
<1>7. ASSUME NEW p \in Pusher, RequestFails(p)
      PROVE  Types'
  <2>1. batch[p] \subseteq Row
    BY DEF Types
  <2>2. server' \subseteq Row /\ refused' \subseteq Row
    BY <1>7, <2>1 DEF Types, RequestFails, remote
  <2>3. outcome' \in [Pusher -> [Row -> Outcome]]
    BY <1>7 DEF Types, RequestFails, Unanswered, Outcome
  <2>4. pc' \in [Pusher -> Phase]
    BY <1>7 DEF Types, RequestFails, Unanswered, Phase
  <2> QED
    BY <1>7, <2>2, <2>3, <2>4 DEF Types, RequestFails, till, OutboxOf
<1>8. ASSUME NEW p \in Pusher, Idle(p), UNCHANGED <<committed, events, remote>>,
             status' \in [Row -> Status]
      PROVE  Types'
  <2>1. pc' \in [Pusher -> Phase] /\ batch' \in [Pusher -> SUBSET Row]
    BY <1>8 DEF Types, Idle, Phase
  <2>2. outcome' \in [Pusher -> [Row -> Outcome]]
    BY <1>8 DEF Types, Idle, NoAnswer, Outcome
  <2>3. \A q \in Pusher : batch'[q] \subseteq OutboxOf(q)
    BY <1>8 DEF Types, Idle
  <2> QED
    BY <1>8, <2>1, <2>2, <2>3 DEF Types, remote, OutboxOf
<1>9. ASSUME NEW p \in Pusher, PlanGate(p)
      PROVE  Types'
  BY <1>8, <1>9 DEF PlanGate, till, Types
<1>10. ASSUME NEW p \in Pusher, Apply(p)
       PROVE  Types'
  <2>1. status' \in [Row -> Status]
    BY <1>10, MarkedType DEF Apply
  <2> QED
    BY <1>8, <1>10, <2>1 DEF Apply
<1>11. CASE Crash
  <2>1. status' \in [Row -> Status]
    BY <1>11, MarkedType DEF Crash, Types
  <2>2. pc' \in [Pusher -> Phase] /\ batch' \in [Pusher -> SUBSET Row]
    BY <1>11 DEF Crash, Phase
  <2>3. outcome' \in [Pusher -> [Row -> Outcome]]
    BY <1>11 DEF Crash, NoAnswer, Outcome
  <2> QED
    BY <1>11, <2>1, <2>2, <2>3 DEF Types, Crash, remote, OutboxOf
<1>12. CASE UNCHANGED vars
  BY <1>12 DEF Types, vars, till, remote, pushers, OutboxOf
<1> QED
  BY <1>1, <1>2, <1>3, <1>4, <1>5, <1>6, <1>7, <1>9, <1>10, <1>11, <1>12 DEF Next

\* Every step keeps the counters within their bounds.
LEMMA CountersStep == Counters /\ [Next]_vars => Counters'
<1> SUFFICES ASSUME Counters, [Next]_vars
             PROVE  Counters'
  OBVIOUS
<1>1. faults \in Nat /\ deletes \in Nat /\ faults <= MaxFaults
      /\ deletes <= MaxDeletes /\ MaxFaults \in Nat /\ MaxDeletes \in Nat
  BY ConstantsAssumption DEF Counters
<1>2. Fault => faults' \in 0..MaxFaults
  BY <1>1 DEF Fault
<1>3. \A r : Delete(r) => deletes' \in 0..MaxDeletes /\ faults' = faults
  BY <1>1 DEF Delete
<1>4. \/ faults' = faults /\ deletes' = deletes
      \/ Fault /\ deletes' = deletes
      \/ \E r \in Row : Delete(r)
  BY DEF Next, Commit, HandleEvent, LoseEvent, Read, Serve, RequestFails,
         PlanGate, Apply, Crash, vars
<1> QED
  BY <1>2, <1>3, <1>4 DEF Counters

\* Types: the tables hold statuses and outcomes the code can write, and a
\* pusher's snapshot and marks concern the database it reads (C59).
THEOREM TypeCorrect == Spec => []TypeOK
<1>1. Init => Types /\ Counters
  BY ConstantsAssumption
     DEF Init, Types, Counters, Status, Phase, Outcome, NoAnswer, OutboxOf
<1>2. (Types /\ Counters) /\ [Next]_vars => (Types /\ Counters)'
  BY TypesStep, CountersStep
<1>3. Types /\ Counters => TypeOK
  BY DEF Types, Counters, TypeOK
<1> QED
  BY <1>1, <1>2, <1>3, PTL DEF Spec

-----------------------------------------------------------------------------
(* No false acknowledgement                                                *)

\* A positive outcome is only ever told of a row the server holds.
AnswersAreTrue ==
    \A p \in Pusher, r \in Row : Positive(outcome[p][r]) => r \in server

HeldInv == Types /\ AnswersAreTrue /\ SyncedIsHeld

\* A mark turns a row to synced only on a positive outcome.
LEMMA MarkedSynced ==
    ASSUME NEW p \in Pusher, NEW done, NEW r \in Row,
           Marked(p, done)[r] = "synced"
    PROVE  status[r] = "synced" \/ Positive(outcome[p][r])
BY DEF Marked, Mark, MarkSynced, MarkError, MarkFailed

\* The server forgets nothing, and answers after it inserted.
LEMMA HeldStep == HeldInv /\ [Next]_vars => HeldInv'
<1> SUFFICES ASSUME HeldInv, [Next]_vars
             PROVE  HeldInv'
  OBVIOUS
<1>1. Types /\ AnswersAreTrue /\ SyncedIsHeld /\ Types'
  BY TypesStep DEF HeldInv
<1>2. server \subseteq server'
  BY DEF Next, Commit, HandleEvent, LoseEvent, Delete, Read, Serve,
         RequestFails, PlanGate, Apply, Crash, vars, remote
<1>3. ~Positive("none") /\ ~Positive("error") /\ ~Positive("rejected")
  BY DEF Positive
<1>4. ASSUME UNCHANGED outcome
      PROVE  AnswersAreTrue'
  BY <1>1, <1>2, <1>4 DEF AnswersAreTrue, Positive
<1>5. ASSUME UNCHANGED status
      PROVE  SyncedIsHeld'
  BY <1>1, <1>2, <1>5 DEF SyncedIsHeld
<1>6. ASSUME NEW p \in Pusher, Idle(p)
      PROVE  AnswersAreTrue'
  <2>1. ASSUME NEW q \in Pusher, NEW r \in Row, Positive(outcome'[q][r])
        PROVE  r \in server
    <3>1. q # p
      BY <1>1, <1>3, <1>6, <2>1 DEF Idle, NoAnswer, Types
    <3> QED
      BY <1>1, <1>6, <2>1, <3>1 DEF Idle, AnswersAreTrue, Types
  <2> QED
    BY <1>2, <2>1 DEF AnswersAreTrue, Positive
<1>7. ASSUME NEW p \in Pusher, NEW done, status' = Marked(p, done)
      PROVE  SyncedIsHeld'
  BY <1>1, <1>2, <1>7, MarkedSynced DEF SyncedIsHeld, AnswersAreTrue
<1>8. ASSUME NEW m \in Mutation, Commit(m)
      PROVE  HeldInv'
  <2>1. SyncedIsHeld'
    BY <1>1, <1>2, <1>8 DEF Commit, SyncedIsHeld, Types
  <2> QED
    BY <1>1, <1>4, <1>8, <2>1 DEF Commit, pushers, HeldInv
<1>9. ASSUME NEW m \in Mutation, HandleEvent(m)
      PROVE  HeldInv'
  <2>1. SyncedIsHeld'
    BY <1>1, <1>2, <1>9 DEF HandleEvent, SyncedIsHeld, Types
  <2> QED
    BY <1>1, <1>4, <1>9, <2>1 DEF HandleEvent, pushers, HeldInv
<1>10. ASSUME NEW m \in Mutation, LoseEvent(m)
       PROVE  HeldInv'
  BY <1>1, <1>4, <1>5, <1>10 DEF LoseEvent, pushers, HeldInv
<1>11. ASSUME NEW r \in Row, Delete(r)
       PROVE  HeldInv'
  <2>1. SyncedIsHeld'
    BY <1>1, <1>2, <1>11 DEF Delete, SyncedIsHeld, Types
  <2> QED
    BY <1>1, <1>4, <1>11, <2>1 DEF Delete, pushers, HeldInv
<1>12. ASSUME NEW p \in Pusher, Read(p)
       PROVE  HeldInv'
  BY <1>1, <1>4, <1>5, <1>12 DEF Read, till, HeldInv
<1>13. ASSUME NEW p \in Pusher, Serve(p)
       PROVE  HeldInv'
  <2>1. ASSUME NEW q \in Pusher, NEW r \in Row, Positive(outcome'[q][r])
        PROVE  r \in server'
    <3>1. CASE q # p
      BY <1>1, <1>2, <1>13, <2>1, <3>1 DEF Serve, AnswersAreTrue, Types
    <3>2. CASE q = p
      BY <1>1, <1>3, <1>13, <2>1, <3>2 DEF Serve, Types
    <3> QED
      BY <3>1, <3>2
  <2>2. AnswersAreTrue'
    BY <2>1 DEF AnswersAreTrue, Positive
  <2> QED
    BY <1>1, <1>5, <1>13, <2>2 DEF Serve, till, HeldInv
<1>14. ASSUME NEW p \in Pusher, RequestFails(p)
       PROVE  HeldInv'
  <2>1. ASSUME NEW q \in Pusher, NEW r \in Row, Positive(outcome'[q][r])
        PROVE  r \in server'
    <3>1. CASE q # p
      BY <1>1, <1>2, <1>14, <2>1, <3>1
         DEF RequestFails, Unanswered, AnswersAreTrue, Types
    <3>2. CASE q = p
      BY <1>1, <1>3, <1>14, <2>1, <3>2 DEF RequestFails, Unanswered, Types
    <3> QED
      BY <3>1, <3>2
  <2>2. AnswersAreTrue'
    BY <2>1 DEF AnswersAreTrue, Positive
  <2> QED
    BY <1>1, <1>5, <1>14, <2>2 DEF RequestFails, till, HeldInv
<1>15. ASSUME NEW p \in Pusher, PlanGate(p)
       PROVE  HeldInv'
  BY <1>1, <1>5, <1>6, <1>15 DEF PlanGate, till, HeldInv
<1>16. ASSUME NEW p \in Pusher, Apply(p)
       PROVE  HeldInv'
  BY <1>1, <1>6, <1>7, <1>16 DEF Apply, HeldInv
<1>17. CASE Crash
  <2>1. SyncedIsHeld'
    BY <1>5, <1>7, <1>17 DEF Crash
  <2>2. AnswersAreTrue'
    BY <1>3, <1>17 DEF Crash, NoAnswer, AnswersAreTrue, Positive
  <2> QED
    BY <1>1, <2>1, <2>2 DEF HeldInv
<1>18. CASE UNCHANGED vars
  BY <1>1, <1>4, <1>5, <1>18 DEF vars, till, pushers, HeldInv
<1> QED
  BY <1>8, <1>9, <1>10, <1>11, <1>12, <1>13, <1>14, <1>15, <1>16, <1>17,
     <1>18 DEF Next

\* Nothing is acknowledged at first.
LEMMA HeldInit == Init => HeldInv
BY DEF Init, HeldInv, Types, AnswersAreTrue, SyncedIsHeld, NoAnswer,
       Positive, Status, Phase, Outcome, OutboxOf

\* A row shown as synced reached the server, for every number of pushers on
\* every outbox, whatever requests, answers and events are lost.
THEOREM NoFalseAcknowledgement == Spec => []SyncedIsHeld
<1>1. Init => HeldInv
  BY HeldInit
<1>2. HeldInv /\ [Next]_vars => HeldInv'
  BY HeldStep
<1>3. HeldInv => SyncedIsHeld
  BY DEF HeldInv
<1> QED
  BY <1>1, <1>2, <1>3, PTL DEF Spec

-----------------------------------------------------------------------------
(* Dead letters                                                            *)

\* No mark, of any pusher, leads out of `failed` or unqueues a row, and none
\* touches a row outside the loop.
LEMMA MarkKeeps ==
    ASSUME Types, NEW p \in Pusher, NEW done, NEW r \in Row
    PROVE  /\ status[r] = "failed" => Marked(p, done)[r] = "failed"
           /\ status[r] # "none" => Marked(p, done)[r] # "none"
           /\ r \notin done => Marked(p, done)[r] = status[r]
BY DEF Marked, Mark, MarkSynced, MarkError, MarkFailed

\* A row is queued once, by its commit or by its event.
QueuedOnce ==
    \A r \in Row : status[r] # "none" =>
        /\ r[1] \in committed
        /\ r[2] = "event" => r[1] \notin events

BatchQueued == \A p \in Pusher : \A r \in batch[p] : status[r] # "none"

QueueInv == Types /\ QueuedOnce /\ BatchQueued

\* Every step keeps QueueInv, and a failed row failed or deletes it.
LEMMA QueueStep ==
    ASSUME QueueInv, [Next]_vars
    PROVE  /\ QueueInv'
           /\ \A r \in Row : status[r] = "failed"
                             => status'[r] \in {"failed", "deleted"}
<1>1. Types /\ QueuedOnce /\ BatchQueued /\ Types'
  BY TypesStep DEF QueueInv
<1> DEFINE Kept == \A r \in Row : status[r] # "none" => status'[r] # "none"
           Final == \A r \in Row : status[r] = "failed"
                                   => status'[r] \in {"failed", "deleted"}
           NoNew == \A r \in Row : status'[r] # "none" => status[r] # "none"
<1>2. ASSUME NoNew, UNCHANGED committed, events' \subseteq events
      PROVE  QueuedOnce'
  BY <1>1, <1>2 DEF QueuedOnce
<1>3. ASSUME Kept, UNCHANGED batch
      PROVE  BatchQueued'
  BY <1>1, <1>3 DEF BatchQueued, Types
<1>4. ASSUME Kept, NEW p \in Pusher, Idle(p)
      PROVE  BatchQueued'
  <2>1. ASSUME NEW q \in Pusher, NEW r \in batch'[q]
        PROVE  r \in batch[q] /\ r \in Row
    BY <1>1, <1>4, <2>1 DEF Idle, Types
  <2> QED
    BY <1>1, <1>4, <2>1 DEF BatchQueued
<1>5. ASSUME NEW p \in Pusher, NEW done \in SUBSET batch[p],
             status' = Marked(p, done)
      PROVE  Kept /\ Final /\ NoNew
  <2>1. \A r \in done : status[r] # "none"
    BY <1>1, <1>5 DEF BatchQueued
  <2> QED
    BY <1>1, <1>5, <2>1, MarkKeeps
<1>6. ASSUME UNCHANGED status
      PROVE  Kept /\ Final /\ NoNew
  BY <1>6
<1>7. ASSUME NEW m \in Mutation, Commit(m)
      PROVE  QueueInv' /\ Final
  <2>1. \A r \in Row : r[1] = m => status[r] = "none"
    BY <1>1, <1>7 DEF Commit, QueuedOnce
  <2>2. \A r \in Row : r # <<m, "tx">> => status'[r] = status[r]
    BY <1>7 DEF Commit
  <2>3. Kept /\ Final
    BY <1>7, <2>1 DEF Commit
  <2>4. ASSUME NEW r \in Row, status'[r] # "none"
        PROVE  r[1] \in committed' /\ (r[2] = "event" => r[1] \notin events')
    <3>1. CASE r = <<m, "tx">>
      BY <1>7, <3>1 DEF Commit
    <3>2. CASE r # <<m, "tx">>
      <4>1. status[r] # "none"
        BY <2>2, <2>4, <3>2
      <4>2. r[1] \in committed /\ r[1] # m
        BY <2>1, <4>1, <1>1 DEF QueuedOnce
      <4> QED
        BY <1>1, <1>7, <4>1, <4>2 DEF Commit, QueuedOnce
    <3> QED
      BY <3>1, <3>2
  <2>5. QueuedOnce'
    BY <2>4 DEF QueuedOnce
  <2>6. BatchQueued'
    BY <1>3, <1>7, <2>3 DEF Commit, pushers
  <2> QED
    BY <1>1, <2>3, <2>5, <2>6 DEF QueueInv
<1>8. ASSUME NEW m \in Mutation, HandleEvent(m)
      PROVE  QueueInv' /\ Final
  <2>1. m \in committed /\ m \in events
    BY <1>1, <1>8 DEF HandleEvent, Types
  <2>2. \A r \in Row : r # <<m, "event">> => status'[r] = status[r]
    BY <1>1, <1>8 DEF HandleEvent, Types
  <2>3. <<m, "event">> \in Row => status[<<m, "event">>] = "none"
    BY <1>1, <2>1 DEF QueuedOnce
  <2>4. Kept /\ Final
    BY <2>2, <2>3
  <2>5. ASSUME NEW r \in Row, status'[r] # "none"
        PROVE  r[1] \in committed' /\ (r[2] = "event" => r[1] \notin events')
    <3>1. CASE r = <<m, "event">>
      BY <1>8, <2>1, <3>1 DEF HandleEvent
    <3>2. CASE r # <<m, "event">>
      BY <1>1, <1>8, <2>2, <2>5, <3>2 DEF HandleEvent, QueuedOnce
    <3> QED
      BY <3>1, <3>2
  <2>6. QueuedOnce'
    BY <2>5 DEF QueuedOnce
  <2>7. BatchQueued'
    BY <1>3, <1>8, <2>4 DEF HandleEvent, pushers
  <2> QED
    BY <1>1, <2>4, <2>6, <2>7 DEF QueueInv
<1>9. ASSUME NEW m \in Mutation, LoseEvent(m)
      PROVE  QueueInv' /\ Final
  <2>1. UNCHANGED status /\ UNCHANGED committed /\ UNCHANGED batch
        /\ events' \subseteq events
    BY <1>9 DEF LoseEvent, pushers
  <2> QED
    BY <1>1, <1>2, <1>3, <1>6, <2>1 DEF QueueInv
<1>10. ASSUME NEW s \in Row, Delete(s)
       PROVE  QueueInv' /\ Final
  <2>1. Kept /\ Final /\ NoNew
    BY <1>1, <1>10 DEF Delete, Types
  <2>2. UNCHANGED committed /\ UNCHANGED batch /\ UNCHANGED events
    BY <1>10 DEF Delete, pushers
  <2> QED
    BY <1>1, <1>2, <1>3, <2>1, <2>2 DEF QueueInv
<1>11. ASSUME NEW p \in Pusher, Read(p)
       PROVE  QueueInv' /\ Final
  <2>1. UNCHANGED status /\ UNCHANGED committed /\ UNCHANGED events
    BY <1>11 DEF Read, till
  <2>2. ASSUME NEW q \in Pusher, NEW r \in batch'[q]
        PROVE  status[r] # "none"
    <3>1. CASE q = p
      BY <1>1, <1>11, <2>2, <3>1 DEF Read, Pending, Types
    <3>2. CASE q # p
      BY <1>1, <1>11, <2>2, <3>2 DEF Read, BatchQueued, Types
    <3> QED
      BY <3>1, <3>2
  <2>3. BatchQueued'
    BY <2>1, <2>2 DEF BatchQueued
  <2> QED
    BY <1>1, <1>2, <1>6, <2>1, <2>3 DEF QueueInv
<1>12. ASSUME NEW p \in Pusher, Serve(p) \/ RequestFails(p)
       PROVE  QueueInv' /\ Final
  <2>1. UNCHANGED status /\ UNCHANGED committed /\ UNCHANGED events
        /\ UNCHANGED batch
    BY <1>12 DEF Serve, RequestFails, till
  <2> QED
    BY <1>1, <1>2, <1>3, <1>6, <2>1 DEF QueueInv
<1>13. ASSUME NEW p \in Pusher, PlanGate(p)
       PROVE  QueueInv' /\ Final
  <2>1. UNCHANGED status /\ UNCHANGED committed /\ UNCHANGED events
    BY <1>13 DEF PlanGate, till
  <2>2. Idle(p)
    BY <1>13 DEF PlanGate
  <2> QED
    BY <1>1, <1>2, <1>4, <1>6, <2>1, <2>2 DEF QueueInv
<1>14. ASSUME NEW p \in Pusher, Apply(p)
       PROVE  QueueInv' /\ Final
  <2>1. PICK done \in Processed(p) : status' = Marked(p, done)
    BY <1>14 DEF Apply
  <2>2. done \in SUBSET batch[p]
    BY ProcessedInBatch
  <2>3. Kept /\ Final /\ NoNew
    BY <1>5, <2>1, <2>2
  <2>4. UNCHANGED committed /\ UNCHANGED events /\ Idle(p)
    BY <1>14 DEF Apply
  <2> QED
    BY <1>1, <1>2, <1>4, <2>3, <2>4 DEF QueueInv
<1>15. CASE Crash
  <2>1. Kept /\ Final /\ NoNew
    <3>1. CASE UNCHANGED status
      BY <1>6, <3>1
    <3>2. ASSUME NEW p \in Pusher, NEW all \in Processed(p),
                 NEW done \in SUBSET all, status' = Marked(p, done)
          PROVE  Kept /\ Final /\ NoNew
      <4>1. done \in SUBSET batch[p]
        BY ProcessedInBatch
      <4> QED
        BY <1>5, <3>2, <4>1
    <3> QED
      BY <1>15, <3>1, <3>2 DEF Crash
  <2>2. UNCHANGED committed /\ events' = {} /\ batch' = [p \in Pusher |-> {}]
    BY <1>15 DEF Crash
  <2>3. QueuedOnce'
    BY <1>2, <2>1, <2>2
  <2>4. BatchQueued'
    BY <2>2 DEF BatchQueued
  <2> QED
    BY <1>1, <2>1, <2>3, <2>4 DEF QueueInv
<1>16. CASE UNCHANGED vars
  <2>1. UNCHANGED status /\ UNCHANGED committed /\ UNCHANGED events
        /\ UNCHANGED batch
    BY <1>16 DEF vars, till, pushers
  <2> QED
    BY <1>1, <1>2, <1>3, <1>6, <2>1 DEF QueueInv
<1> QED
  BY <1>7, <1>8, <1>9, <1>10, <1>11, <1>12, <1>13, <1>14, <1>15, <1>16
     DEF Next

LEMMA QueueInit == Init => QueueInv
BY DEF Init, QueueInv, Types, QueuedOnce, BatchQueued, NoAnswer, Status,
       Phase, Outcome, OutboxOf

\* A dead-lettered row is never shown as synced, for every number of pushers
\* that snapshot one outbox and mark it in any order.
THEOREM DeadLettersStay == Spec => DeadLetterIsFinal
<1>1. QueueInv /\ [Next]_vars => QueueInv'
  BY QueueStep
<1>2. QueueInv /\ [Next]_vars
      => [\A r \in Row : status[r] = "failed"
                         => status'[r] \in {"failed", "deleted"}]_vars
  BY QueueStep
<1> QED
  BY QueueInit, <1>1, <1>2, PTL DEF Spec, DeadLetterIsFinal

-----------------------------------------------------------------------------
(* The contract                                                            *)

\* One row under a marking loop: it stays, is acknowledged on the strength of
\* a true answer, or is given up while pending or acknowledged.
LEMMA MarkMoves ==
    ASSUME QueueInv, HeldInv, NEW p \in Pusher, NEW done \in SUBSET batch[p],
           NEW r \in Row
    PROVE  \/ Marked(p, done)[r] = status[r]
           \/ /\ status[r] = "pending" /\ r \in server
              /\ Marked(p, done)[r] = "synced"
           \/ /\ status[r] \in {"pending", "synced"}
              /\ Marked(p, done)[r] = "failed"
<1>1. r \in done => status[r] \in {"pending", "synced", "failed", "deleted"}
  BY DEF QueueInv, BatchQueued, Types, Status
<1>2. Positive(outcome[p][r]) => r \in server
  BY DEF HeldInv, AnswersAreTrue
<1>3. Marked(p, done)[r] = IF r \in done THEN Mark(p, r) ELSE status[r]
  BY DEF Marked
<1> QED
  BY <1>1, <1>2, <1>3 DEF Mark, MarkSynced, MarkError, MarkFailed

\* Hence a marking loop, whole or cut short, is one step of the contract.
LEMMA MarkedHonours ==
    ASSUME QueueInv, HeldInv, NEW p \in Pusher, NEW done \in SUBSET batch[p],
           status' = Marked(p, done), UNCHANGED server
    PROVE  Contract!Next
<1> DEFINE good == {r \in Row : status[r] = "pending" /\ status'[r] = "synced"}
           bad  == {r \in Row : /\ status[r] \in {"pending", "synced"}
                                /\ status'[r] = "failed"}
<1>1. \A r \in Row : \/ status'[r] = status[r]
                     \/ /\ status[r] = "pending" /\ r \in server
                        /\ status'[r] = "synced"
                     \/ /\ status[r] \in {"pending", "synced"}
                        /\ status'[r] = "failed"
  BY MarkMoves
<1>2. status' = [r \in Row |-> status'[r]]
  BY DEF Marked
<1>3. /\ \A r \in good : status[r] = "pending" /\ r \in server
      /\ \A r \in bad : status[r] \in {"pending", "synced"}
      /\ good \cap bad = {}
  BY <1>1
<1>4. \A r \in Row : status'[r] = CASE r \in good -> "synced"
                                    [] r \in bad  -> "failed"
                                    [] OTHER      -> status[r]
  <2>1. ASSUME NEW r \in good PROVE status'[r] = "synced" /\ r \notin bad
    BY <1>3
  <2>2. ASSUME NEW r \in bad PROVE status'[r] = "failed" /\ r \notin good
    BY <1>3
  <2>3. ASSUME NEW r \in Row, r \notin good, r \notin bad PROVE status'[r] = status[r]
    BY <1>1, <2>3
  <2> HIDE DEF good, bad
  <2> QED
    BY <2>1, <2>2, <2>3
<1>5. good \in SUBSET Row /\ bad \in SUBSET Row
  OBVIOUS
<1> HIDE DEF good, bad
<1>6. Contract!Mark(good, bad)
  BY <1>2, <1>3, <1>4 DEF Contract!Mark
<1> QED
  BY <1>3, <1>5, <1>6 DEF Contract!Next

\* A request that is served, answered or not, hands the server queued rows.
LEMMA ServeHonours ==
    ASSUME QueueInv, NEW p \in Pusher, Serve(p) \/ RequestFails(p)
    PROVE  [Contract!Next]_(Contract!vars)
<1>1. UNCHANGED status /\ batch[p] \in SUBSET Row
  BY DEF Serve, RequestFails, till, QueueInv, Types
<1>2. UNCHANGED server \/ \E rows \in SUBSET batch[p] : server' = server \cup rows
  BY DEF Serve, RequestFails, remote
<1>3. ASSUME NEW rows \in SUBSET batch[p], server' = server \cup rows
      PROVE  Contract!Receive(rows) /\ rows \in SUBSET Row
  BY <1>1, <1>3 DEF Contract!Receive, QueueInv, BatchQueued
<1> QED
  BY <1>1, <1>2, <1>3 DEF Contract!Next, Contract!vars

\* A commit queues its row, and so does the event handler, each once.
LEMMA CommitHonours ==
    ASSUME QueueInv, NEW m \in Mutation, Commit(m) \/ HandleEvent(m)
    PROVE  [Contract!Next]_(Contract!vars)
<1>1. status \in [Row -> Status] /\ UNCHANGED server
  BY DEF Commit, HandleEvent, remote, QueueInv, Types
<1>2. CASE Commit(m)
  <2>1. status' = IF <<m, "tx">> \in Row
                  THEN [status EXCEPT ![<<m, "tx">>] = "pending"] ELSE status
    BY <1>1, <1>2 DEF Commit
  <2>2. <<m, "tx">> \in Row => status[<<m, "tx">>] = "none"
    BY <1>2 DEF Commit, QueueInv, QueuedOnce
  <2>3. <<m, "tx">> \in Row => Contract!Queue(<<m, "tx">>)
    BY <1>1, <2>1, <2>2 DEF Contract!Queue
  <2> QED
    BY <1>1, <2>1, <2>3 DEF Contract!Next, Contract!vars
<1>3. CASE HandleEvent(m)
  <2>1. \/ status' = [status EXCEPT ![<<m, "event">>] = "pending"]
        \/ status' = [status EXCEPT ![<<m, "event">>] = @]
    BY <1>3 DEF HandleEvent
  <2>2. <<m, "event">> \in Row => status[<<m, "event">>] = "none"
    BY <1>3 DEF HandleEvent, QueueInv, QueuedOnce
  <2>3. CASE status' = status
    BY <1>1, <2>3 DEF Contract!vars
  <2>4. CASE <<m, "event">> \in Row
             /\ status' = [status EXCEPT ![<<m, "event">>] = "pending"]
    BY <1>1, <2>2, <2>4 DEF Contract!Queue, Contract!Next
  <2> QED
    BY <1>1, <2>1, <2>3, <2>4
<1> QED
  BY <1>2, <1>3

\* Every step is one the contract allows, or changes nothing it knows.
LEMMA ContractStep ==
    ASSUME QueueInv, HeldInv, [Next]_vars
    PROVE  [Contract!Next]_(Contract!vars)
<1>1. CASE UNCHANGED <<status, server>>
  BY <1>1 DEF Contract!vars
<1>2. ASSUME NEW m \in Mutation, LoseEvent(m)
      PROVE  UNCHANGED <<status, server>>
  BY <1>2 DEF LoseEvent, remote
<1>3. ASSUME NEW r \in Row, Delete(r)
      PROVE  Contract!Next
  <2>1. Contract!Delete(r)
    BY <1>3 DEF Delete, remote, Contract!Delete
  <2> QED
    BY <2>1 DEF Contract!Next
<1>4. ASSUME NEW p \in Pusher, Read(p) \/ PlanGate(p)
      PROVE  UNCHANGED <<status, server>>
  BY <1>4 DEF Read, PlanGate, till, remote
<1>5. ASSUME NEW p \in Pusher, Apply(p)
      PROVE  Contract!Next
  <2>1. PICK done \in Processed(p) : status' = Marked(p, done)
    BY <1>5 DEF Apply
  <2>2. done \in SUBSET batch[p] /\ UNCHANGED server
    BY <1>5, ProcessedInBatch DEF Apply, remote
  <2> QED
    BY <2>1, <2>2, MarkedHonours
<1>6. CASE Crash
  <2>1. UNCHANGED server
    BY <1>6 DEF Crash, remote
  <2>2. ASSUME NEW p \in Pusher, NEW all \in Processed(p),
               NEW done \in SUBSET all, status' = Marked(p, done)
        PROVE  Contract!Next
    <3>1. done \in SUBSET batch[p]
      BY ProcessedInBatch
    <3> QED
      BY <2>1, <2>2, <3>1, MarkedHonours
  <2> QED
    BY <1>1, <1>6, <2>1, <2>2 DEF Crash
<1>7. CASE UNCHANGED vars
  BY <1>1, <1>7 DEF vars, till, remote
<1> QED
  BY <1>1, <1>2, <1>3, <1>4, <1>5, <1>6, <1>7, CommitHonours, ServeHonours
     DEF Next

\* For every set of lanes, database files and overlapping pushers, and under
\* every loss, crash and deletion, the outbox keeps its contract: a row is
\* queued once, pushed only after that, acknowledged only while the server has
\* it, and revived by nobody.
THEOREM ImplementsContract == Spec => HonoursContract
<1> USE DEF HonoursContract
<1>1. Init => Contract!Init
  BY DEF Init, Contract!Init
<1>2. QueueInv /\ HeldInv /\ [Next]_vars => [Contract!Next]_(Contract!vars)
  BY ContractStep
<1>3. QueueInv /\ [Next]_vars => QueueInv'
  BY QueueStep
<1> QED
  BY QueueInit, HeldInit, HeldStep, <1>1, <1>2, <1>3, PTL DEF Spec, Contract!Spec

-----------------------------------------------------------------------------
(* Nothing is stranded                                                     *)

\* Rows that one pusher drains alone and leaves pending on a failed request
Kept == UNION {Own(p) : p \in Keeps}

\* A kept row a pusher is busy with is pending, unless it was deleted meanwhile;
\* its outcome is told in one answer; a rejected row was not inserted.
BatchesLive ==
    \A p \in Pusher : \A r \in batch[p] \cap Kept : status[r] \in {"pending", "deleted"}

RejectionsAreTrue ==
    \A p \in Pusher : \A r \in batch[p] \cap Kept :
        /\ pc[p] = "answered" => outcome[p][r] # "none"
        /\ outcome[p][r] = "rejected" => r \notin server

AnswersInTime ==
    \A p \in Pusher, r \in Row : pc[p] # "answered" => outcome[p][r] = "none"

NoneStranded == \A r \in Kept : r \in server => status[r] # "failed"

KeptInv ==
    /\ QueueInv
    /\ BatchesLive
    /\ RejectionsAreTrue
    /\ AnswersInTime
    /\ NoneStranded

LEMMA KeptRows == Kept \subseteq Row
BY DEF Kept, Own

\* No two pushers are busy with one kept row, and the one that is keeps it.
LEMMA DisjointBatches ==
    ASSUME Types, NEW p \in Pusher, NEW q \in Pusher,
           NEW r \in Kept, r \in batch[p], r \in batch[q]
    PROVE  p = q /\ p \in Keeps
BY DEF Kept, Own, Types, OutboxOf

\* A keeper's mark fails a row only if the server rejected it.
LEMMA KeeperMark ==
    ASSUME KeptInv, NEW p \in Pusher, pc[p] = "answered",
           NEW done \in SUBSET batch[p], NEW r \in Kept
    PROVE  /\ r \in done /\ Marked(p, done)[r] = "failed"
              => r \notin server
           /\ r \notin done => Marked(p, done)[r] = status[r]
<1>1. Types /\ r \in Row /\ (r \in batch[p] => p \in Keeps)
  BY DisjointBatches DEF KeptInv, QueueInv, Kept, Own
<1>2. r \notin done => Marked(p, done)[r] = status[r]
  BY <1>1, MarkKeeps
<1>3. ASSUME r \in done, Marked(p, done)[r] = "failed"
      PROVE  r \notin server
  <2>1. status[r] \in {"pending", "deleted"} /\ outcome[p][r] # "none"
        /\ (outcome[p][r] = "rejected" => r \notin server)
    BY <1>3 DEF KeptInv, BatchesLive, RejectionsAreTrue
  <2>2. Mark(p, r) = "failed" /\ p \in Keeps
    BY <1>1, <1>3 DEF Marked
  <2>3. outcome[p][r] \in Outcome
    BY <1>1 DEF Types
  <2>4. outcome[p][r] \notin {"accepted", "duplicate", "error"}
    BY <1>1, <2>1, <2>2 DEF Mark, Positive, MarkSynced, MarkError
  <2> QED
    BY <2>1, <2>3, <2>4 DEF Outcome
<1> QED
  BY <1>2, <1>3

\* Every step of the outbox keeps KeptInv.
LEMMA KeptStep ==
    ASSUME KeptInv, [Next]_vars
    PROVE  KeptInv'
<1>1. Types /\ QueuedOnce /\ BatchQueued /\ QueueInv /\ QueueInv' /\ Types'
      /\ Kept \subseteq Row
  BY QueueStep, KeptRows DEF KeptInv, QueueInv
<1>2. BatchesLive /\ RejectionsAreTrue /\ AnswersInTime /\ NoneStranded
  BY DEF KeptInv
<1>3. ASSUME UNCHANGED <<server, pc, batch, outcome>>
      PROVE  RejectionsAreTrue' /\ AnswersInTime'
  BY <1>2, <1>3 DEF RejectionsAreTrue, AnswersInTime
<1>4. ASSUME UNCHANGED batch, NEW s,
             \A r \in Row : r # s => status'[r] = status[r],
             s \in Row => \/ status[s] = "none" /\ status'[s] # "failed"
                          \/ status'[s] = "deleted",
             UNCHANGED server
      PROVE  BatchesLive' /\ NoneStranded'
  <2>1. ASSUME NEW q \in Pusher, NEW r \in batch[q] \cap Kept
        PROVE  status'[r] \in {"pending", "deleted"}
    <3>1. r \in Row /\ status[r] # "none"
             /\ status[r] \in {"pending", "deleted"}
      BY <1>1, <1>2 DEF Types, BatchQueued, BatchesLive
    <3> QED
      BY <1>4, <3>1
  <2>2. BatchesLive'
    BY <1>4, <2>1 DEF BatchesLive
  <2>3. NoneStranded'
    BY <1>1, <1>2, <1>4 DEF NoneStranded, Types
  <2> QED
    BY <2>2, <2>3
<1>5. ASSUME UNCHANGED <<status, server>>, NEW p \in Pusher, Idle(p)
      PROVE  BatchesLive' /\ NoneStranded'
  BY <1>1, <1>2, <1>5 DEF Idle, BatchesLive, NoneStranded, Types
<1>6. ASSUME UNCHANGED server, NEW p \in Pusher, Idle(p)
      PROVE  RejectionsAreTrue' /\ AnswersInTime'
  <2>1. AnswersInTime'
    BY <1>1, <1>2, <1>6 DEF Idle, NoAnswer, AnswersInTime, Types
  <2>2. ASSUME NEW q \in Pusher, NEW r \in batch'[q] \cap Kept
        PROVE  /\ pc'[q] = "answered" => outcome'[q][r] # "none"
               /\ outcome'[q][r] = "rejected" => r \notin server'
    <3>1. q # p /\ r \in batch[q]
      BY <1>1, <1>6, <2>2 DEF Idle, Types
    <3> QED
      BY <1>1, <1>2, <1>6, <3>1 DEF Idle, RejectionsAreTrue, Types
  <2> QED
    BY <2>1, <2>2 DEF RejectionsAreTrue
<1>7. ASSUME NEW m \in Mutation, Commit(m)
      PROVE  KeptInv'
  <2>1. <<m, "tx">> \in Row => status[<<m, "tx">>] = "none"
    BY <1>1, <1>7 DEF Commit, QueuedOnce
  <2>2. UNCHANGED batch /\ UNCHANGED server
        /\ UNCHANGED <<server, pc, batch, outcome>>
    BY <1>7 DEF Commit, pushers, remote
  <2>3. /\ \A r \in Row : r # <<m, "tx">> => status'[r] = status[r]
        /\ <<m, "tx">> \in Row => status'[<<m, "tx">>] = "pending"
    BY <1>7 DEF Commit
  <2> QED
    BY <1>1, <1>3, <1>4, <2>1, <2>2, <2>3 DEF KeptInv
<1>8. ASSUME NEW m \in Mutation, HandleEvent(m)
      PROVE  KeptInv'
  <2>1. <<m, "event">> \in Row => status[<<m, "event">>] = "none"
    BY <1>1, <1>8 DEF HandleEvent, QueuedOnce, Types
  <2>2. UNCHANGED batch /\ UNCHANGED server
        /\ UNCHANGED <<server, pc, batch, outcome>>
    BY <1>8 DEF HandleEvent, pushers, remote
  <2>3. /\ \A r \in Row : r # <<m, "event">> => status'[r] = status[r]
        /\ <<m, "event">> \in Row
             => status'[<<m, "event">>] \in {"none", "pending"}
    BY <1>1, <1>8, <2>1 DEF HandleEvent, Types
  <2> QED
    BY <1>1, <1>3, <1>4, <2>1, <2>2, <2>3 DEF KeptInv
<1>9. ASSUME NEW m \in Mutation, LoseEvent(m)
      PROVE  KeptInv'
  <2>1. UNCHANGED status /\ UNCHANGED <<server, pc, batch, outcome>>
    BY <1>9 DEF LoseEvent, pushers, remote
  <2>2. BatchesLive' /\ NoneStranded'
    BY <1>2, <2>1 DEF BatchesLive, NoneStranded
  <2> QED
    BY <1>1, <1>3, <2>1, <2>2 DEF KeptInv
<1>10. ASSUME NEW s \in Row, Delete(s)
       PROVE  KeptInv'
  <2>1. UNCHANGED batch /\ UNCHANGED server
        /\ UNCHANGED <<server, pc, batch, outcome>>
    BY <1>10 DEF Delete, pushers, remote
  <2>2. /\ \A r \in Row : r # s => status'[r] = status[r]
        /\ status'[s] = "deleted"
    BY <1>1, <1>10 DEF Delete, Types
  <2> QED
    BY <1>1, <1>3, <1>4, <2>1, <2>2 DEF KeptInv
<1>11. ASSUME NEW p \in Pusher, Read(p)
       PROVE  KeptInv'
  <2>1. UNCHANGED status /\ UNCHANGED server /\ UNCHANGED outcome
        /\ pc[p] = "idle" /\ pc' = [pc EXCEPT ![p] = "sending"]
        /\ batch' = [batch EXCEPT ![p] = Pending(p)]
    BY <1>11 DEF Read, till, remote
  <2>2. BatchesLive' /\ NoneStranded'
    BY <1>1, <1>2, <2>1 DEF BatchesLive, NoneStranded, Pending, Types
  <2>3. AnswersInTime'
    BY <1>1, <1>2, <2>1 DEF AnswersInTime, Types
  <2>4. ASSUME NEW q \in Pusher, NEW r \in batch'[q] \cap Kept
        PROVE  /\ pc'[q] = "answered" => outcome'[q][r] # "none"
               /\ outcome'[q][r] = "rejected" => r \notin server'
    <3>1. CASE q = p
      <4>1. r \in Row /\ outcome[p][r] = "none" /\ pc'[q] = "sending"
        BY <1>1, <1>2, <2>1, <2>4, <3>1 DEF Pending, OutboxOf, AnswersInTime, Types
      <4> QED
        BY <2>1, <3>1, <4>1
    <3>2. CASE q # p
      BY <1>1, <1>2, <2>1, <2>4, <3>2 DEF RejectionsAreTrue, Types
    <3> QED
      BY <3>1, <3>2
  <2> QED
    BY <1>1, <2>2, <2>3, <2>4 DEF KeptInv, RejectionsAreTrue
<1>12. ASSUME NEW p \in Pusher, NEW bad \in SUBSET (batch[p] \ server),
              server' \in {server, server \cup (batch[p] \ bad)},
              pc' = [pc EXCEPT ![p] = "answered"],
              \E o \in [Row -> Outcome] :
                /\ outcome' = [outcome EXCEPT ![p] = o]
                /\ \A r \in batch[p] : o[r] # "none"
                /\ \A r \in batch[p] : o[r] = "rejected" => r \in bad,
              UNCHANGED <<status, batch>>
       PROVE  KeptInv'
  <2>1. PICK o \in [Row -> Outcome] :
          /\ outcome' = [outcome EXCEPT ![p] = o]
          /\ \A r \in batch[p] : o[r] # "none"
          /\ \A r \in batch[p] : o[r] = "rejected" => r \in bad
    BY <1>12
  <2>2. \A r \in server' : r \in server \/ r \in batch[p]
    BY <1>12
  <2>3. BatchesLive'
    BY <1>2, <1>12 DEF BatchesLive
  <2>4. NoneStranded'
    BY <1>2, <1>12, <2>2 DEF NoneStranded, BatchesLive
  <2>5. AnswersInTime'
    BY <1>1, <1>2, <1>12, <2>1 DEF AnswersInTime, Types
  <2>6. ASSUME NEW q \in Pusher, NEW r \in batch[q] \cap Kept
        PROVE  /\ pc'[q] = "answered" => outcome'[q][r] # "none"
               /\ outcome'[q][r] = "rejected" => r \notin server'
    <3>1. CASE q = p
      <4>1. outcome'[q] = o
        BY <1>1, <2>1, <3>1 DEF Types
      <4> QED
        BY <1>12, <2>1, <2>6, <3>1, <4>1
    <3>2. CASE q # p
      <4>1. r \notin batch[p]
        BY <1>1, <2>6, <3>2, DisjointBatches
      <4>2. outcome'[q] = outcome[q] /\ pc'[q] = pc[q]
        BY <1>1, <1>12, <2>1, <3>2 DEF Types
      <4> QED
        BY <1>2, <2>2, <2>6, <4>1, <4>2 DEF RejectionsAreTrue
    <3> QED
      BY <3>1, <3>2
  <2>7. RejectionsAreTrue'
    BY <1>12, <2>6 DEF RejectionsAreTrue
  <2> QED
    BY <1>1, <2>3, <2>4, <2>5, <2>7 DEF KeptInv
<1>13. ASSUME NEW p \in Pusher, Serve(p)
       PROVE  KeptInv'
  <2>1. PICK bad \in SUBSET (batch[p] \ server) :
          /\ server' = server \cup (batch[p] \ bad)
          /\ outcome' = [outcome EXCEPT ![p] =
               [r \in Row |-> IF r \notin batch[p] THEN "none"
                              ELSE IF r \in bad THEN "rejected"
                              ELSE IF r \in server THEN "duplicate"
                              ELSE "accepted"]]
    BY <1>13 DEF Serve
  <2> DEFINE o == [r \in Row |-> IF r \notin batch[p] THEN "none"
                                 ELSE IF r \in bad THEN "rejected"
                                 ELSE IF r \in server THEN "duplicate"
                                 ELSE "accepted"]
  <2>2. o \in [Row -> Outcome]
    BY DEF Outcome
  <2>3. /\ \A r \in batch[p] : o[r] # "none"
        /\ \A r \in batch[p] : o[r] = "rejected" => r \in bad
    BY <1>1 DEF Types
  <2>4. \E a \in [Row -> Outcome] :
          /\ outcome' = [outcome EXCEPT ![p] = a]
          /\ \A r \in batch[p] : a[r] # "none"
          /\ \A r \in batch[p] : a[r] = "rejected" => r \in bad
    <3> HIDE DEF o
    <3> QED
      BY <2>1, <2>2, <2>3 DEF o
  <2>5. pc' = [pc EXCEPT ![p] = "answered"] /\ UNCHANGED <<status, batch>>
    BY <1>13 DEF Serve, till
  <2> QED
    BY <1>12, <2>1, <2>4, <2>5
<1>14. ASSUME NEW p \in Pusher, RequestFails(p)
       PROVE  KeptInv'
  <2>1. PICK bad \in SUBSET (batch[p] \ server) :
          server' \in {server, server \cup (batch[p] \ bad)}
    BY <1>14 DEF RequestFails, remote
  <2> DEFINE o == [r \in Row |-> IF r \in batch[p] THEN "error" ELSE "none"]
  <2>2. o \in [Row -> Outcome]
    BY DEF Outcome
  <2>3. \A r \in batch[p] : o[r] = "error"
    BY <1>1 DEF Types
  <2>4. outcome' = [outcome EXCEPT ![p] = o]
    BY <1>14 DEF RequestFails, Unanswered
  <2>5. \E a \in [Row -> Outcome] :
          /\ outcome' = [outcome EXCEPT ![p] = a]
          /\ \A r \in batch[p] : a[r] # "none"
          /\ \A r \in batch[p] : a[r] = "rejected" => r \in bad
    <3> HIDE DEF o
    <3> QED
      BY <2>2, <2>3, <2>4
  <2>6. pc' = [pc EXCEPT ![p] = "answered"] /\ UNCHANGED <<status, batch>>
    BY <1>14 DEF RequestFails, Unanswered, till
  <2> QED
    BY <1>12, <2>1, <2>5, <2>6
<1>15. ASSUME NEW p \in Pusher, PlanGate(p)
       PROVE  KeptInv'
  <2>1. UNCHANGED <<status, server>> /\ UNCHANGED server /\ Idle(p)
    BY <1>15 DEF PlanGate, till, remote
  <2> QED
    BY <1>1, <1>5, <1>6, <2>1 DEF KeptInv
<1>16. ASSUME NEW p \in Pusher, pc[p] = "answered",
              NEW done \in SUBSET batch[p], status' = Marked(p, done),
              UNCHANGED server
       PROVE  /\ NoneStranded'
              /\ \A r \in Row : r \notin batch[p] => status'[r] = status[r]
  <2>1. \A r \in Kept : /\ r \in done /\ status'[r] = "failed" => r \notin server
                        /\ r \notin done => status'[r] = status[r]
    BY <1>16, KeeperMark
  <2>2. \A r \in Row : r \notin done => status'[r] = status[r]
    BY <1>1, <1>16, MarkKeeps
  <2> QED
    BY <1>1, <1>2, <1>16, <2>1, <2>2 DEF NoneStranded, Types
<1>17. ASSUME NEW p \in Pusher, Apply(p)
       PROVE  KeptInv'
  <2>1. PICK done \in Processed(p) : status' = Marked(p, done)
    BY <1>17 DEF Apply
  <2>2. done \in SUBSET batch[p]
    BY ProcessedInBatch
  <2>3. UNCHANGED server /\ Idle(p) /\ pc[p] = "answered"
    BY <1>17 DEF Apply, remote
  <2>4. /\ NoneStranded'
        /\ \A r \in Row : r \notin batch[p] => status'[r] = status[r]
    BY <1>16, <2>1, <2>2, <2>3
  <2>5. ASSUME NEW q \in Pusher, NEW r \in batch'[q] \cap Kept
        PROVE  status'[r] \in {"pending", "deleted"}
    <3>1. q # p /\ r \in batch[q] /\ r \in Row
      BY <1>1, <2>3, <2>5 DEF Idle, Types
    <3>2. r \notin batch[p]
      BY <1>1, <3>1, DisjointBatches
    <3> QED
      BY <1>2, <2>4, <3>1, <3>2 DEF BatchesLive
  <2> QED
    BY <1>1, <1>6, <2>3, <2>4, <2>5 DEF KeptInv, BatchesLive
<1>18. CASE Crash
  <2>1. /\ UNCHANGED server
        /\ batch' = [p \in Pusher |-> {}]
        /\ outcome' = [p \in Pusher |-> NoAnswer]
    BY <1>18 DEF Crash, remote
  <2>2. BatchesLive' /\ RejectionsAreTrue' /\ AnswersInTime'
    BY <2>1 DEF BatchesLive, RejectionsAreTrue, AnswersInTime, NoAnswer
  <2>3. CASE UNCHANGED status
    BY <1>1, <1>2, <2>1, <2>2, <2>3 DEF KeptInv, NoneStranded
  <2>4. ASSUME NEW p \in Pusher, pc[p] = "answered", NEW all \in Processed(p),
               NEW done \in SUBSET all, status' = Marked(p, done)
        PROVE  KeptInv'
    <3>1. done \in SUBSET batch[p]
      BY ProcessedInBatch
    <3> QED
      BY <1>1, <1>16, <2>1, <2>2, <2>4, <3>1 DEF KeptInv
  <2> QED
    BY <1>18, <2>3, <2>4 DEF Crash
<1>19. CASE UNCHANGED vars
  <2>1. UNCHANGED status /\ UNCHANGED <<server, pc, batch, outcome>>
    BY <1>19 DEF vars, till, remote, pushers
  <2>2. BatchesLive' /\ NoneStranded'
    BY <1>2, <2>1 DEF BatchesLive, NoneStranded
  <2> QED
    BY <1>1, <1>3, <2>1, <2>2 DEF KeptInv
<1> QED
  BY <1>7, <1>8, <1>9, <1>10, <1>11, <1>13, <1>14, <1>15, <1>17, <1>18, <1>19
     DEF Next

\* A row whose outbox has one pusher, which leaves it pending when a request
\* fails, never ends up `failed` while the server holds it.
THEOREM NothingStranded == Spec => []NotStranded
<1>1. Init => KeptInv
  BY QueueInit DEF Init, KeptInv, BatchesLive, RejectionsAreTrue,
                   AnswersInTime, NoneStranded, NoAnswer
<1>2. KeptInv /\ [Next]_vars => KeptInv'
  BY KeptStep
<1>3. KeptInv => NotStranded
  BY DEF KeptInv, NoneStranded, NotStranded, Kept
<1> QED
  BY <1>1, <1>2, <1>3, PTL DEF Spec

=============================================================================
