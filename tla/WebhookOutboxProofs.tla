-------------------------- MODULE WebhookOutboxProofs --------------------------
(***************************************************************************)
(* WebhookOutbox for every number of requests, endpoints, instances and    *)
(* attempts.  Two arguments that do not meet.  The fan-out: an item is     *)
(* accepted by one request only, that request enqueues a pair only while   *)
(* it is in its list, and the list is made from a registry that can only   *)
(* have moved on since the commit.  The drain: what an instance writes     *)
(* down was posted after its copy was made, and an entry that one instance *)
(* alone holds is still pending.                                           *)
(***************************************************************************)
EXTENDS WebhookOutbox, TLAPS

\* An item is accepted once.
Firsts ==
    /\ \A r \in Request : accepted[r] \subseteq held
    /\ \A q, r \in Request : q # r => accepted[q] \cap accepted[r] = {}
    /\ \A r \in Request : phase[r] = "unsent" => accepted[r] = {}

\* The registry only moves on.
RegistryMoves ==
    \A r \in Request, e \in Endpoint :
        /\ atCommit[r][e] = "deleted" => registry[e] = "deleted"
        /\ atCommit[r][e] = "active" => registry[e] # "absent"

\* What a fan-out still has to do.
TodoMatches ==
    /\ \A r \in Request : phase[r] # "fanning" => todo[r] = {}
    /\ \A r \in Request, i \in Item, e \in Endpoint :
          <<i, e>> \in todo[r] =>
              /\ i \in accepted[r] /\ i \in Wanted[e]
              /\ atCommit[r][e] # "deleted"
              /\ status[<<r, i, e>>] = "none"

\* What it has done.
EntryMatches ==
    \A r \in Request, i \in Item, e \in Endpoint :
        status[<<r, i, e>>] # "none" =>
            /\ i \in accepted[r] /\ i \in Wanted[e]
            /\ atCommit[r][e] # "deleted"
            /\ phase[r] \notin {"unsent", "pushed"}

\* It forgets nothing.
NoneMissing ==
    \A r \in Request, i \in Item, e \in Endpoint :
        /\ phase[r] \in {"fanning", "done"}
        /\ i \in accepted[r] /\ i \in Wanted[e]
        /\ atCommit[r][e] = "active" /\ registry[e] = "active"
        => status[<<r, i, e>>] # "none" \/ <<i, e>> \in todo[r]

\* An instance answers for what it holds; what it holds alone is pending.
Holders ==
    /\ \A s \in Server, d \in Entry :
          /\ reply[s][d] # "none" => d \in claim[s]
          /\ d \in claim[s] => status[d] # "none"
          /\ d \in claim[s] /\ d \notin shared => status[d] = "pending"
    /\ \A s, t \in Server, d \in Entry :
          d \in claim[s] /\ d \in claim[t] => s = t \/ d \in shared

\* Attempts were posted.
Counts ==
    /\ \A d \in Entry :
          /\ attempts[d] <= posts[d]
          /\ status[d] \in {"none", "pending"} => attempts[d] < MaxAttempts
          /\ status[d] = "dead_letter" => attempts[d] = MaxAttempts
    /\ \A s \in Server, d \in Entry :
          /\ d \in claim[s] => copy[s][d] <= posts[d]
          /\ reply[s][d] # "none" => copy[s][d] + 1 <= posts[d]

IInv ==
    /\ TypeOK
    /\ Firsts /\ RegistryMoves /\ TodoMatches /\ EntryMatches /\ NoneMissing
    /\ Holders /\ Counts

-----------------------------------------------------------------------------
\* Entries are triples, and two with the same parts are the same.
LEMMA Triples ==
    /\ \A r \in Request, i \in Item, e \in Endpoint : <<r, i, e>> \in Entry
    /\ \A d \in Entry : /\ d[1] \in Request /\ d[2] \in Item /\ d[3] \in Endpoint
                        /\ d = <<d[1], d[2], d[3]>>
  BY DEF Entry

\* A fault stays within the bound.
LEMMA FaultCounts ==
    ASSUME faults \in 0 .. MaxFaults, Fault
    PROVE  faults' \in 0 .. MaxFaults
  BY BoundsAssumption DEF Fault

\* Nothing is there at first.
LEMMA InvInit == Init => IInv
  <1> SUFFICES ASSUME Init PROVE IInv
    OBVIOUS
  <1> USE BoundsAssumption
  <1>1. TypeOK
    BY DEF Init, TypeOK
  <1>2. Firsts /\ RegistryMoves
    BY DEF Init, Firsts, RegistryMoves
  <1>3. TodoMatches /\ EntryMatches /\ NoneMissing
    BY Triples DEF Init, TodoMatches, EntryMatches, NoneMissing
  <1>4. Holders /\ Counts
    BY DEF Init, Holders, Counts
  <1> QED
    BY <1>1, <1>2, <1>3, <1>4 DEF IInv

-----------------------------------------------------------------------------
\* The type invariant, action by action.
LEMMA TypesStep == TypeOK /\ Holders /\ Counts /\ [Next]_vars => TypeOK'
  <1> SUFFICES ASSUME TypeOK, Holders, Counts, [Next]_vars PROVE TypeOK'
    OBVIOUS
  <1> USE BoundsAssumption DEF TypeOK
  <1>1. ASSUME NEW e \in Endpoint, Register(e) \/ Remove(e) PROVE TypeOK'
    BY <1>1 DEF Register, Remove, push, outbox, drain
  <1>2. ASSUME NEW r \in Request, Push(r) PROVE TypeOK'
    BY <1>2, BatchAssumption DEF Push, Fresh, outbox, drain
  <1>3. ASSUME NEW r \in Request, Lookup(r) PROVE TypeOK'
    <2> DEFINE pairs == {p \in accepted[r] \X Endpoint : Matches(p[2], p[1])}
    <2>1. pairs \in SUBSET (Item \X Endpoint)
      OBVIOUS
    <2>2. After(pairs) \in {"fanning", "done"}
      BY DEF After
    <2>3. /\ todo' = [todo EXCEPT ![r] = pairs]
          /\ phase' = [phase EXCEPT ![r] = After(pairs)]
      BY <1>3 DEF Lookup
    <2> HIDE DEF pairs
    <2> QED
      BY <1>3, <2>1, <2>2, <2>3 DEF Lookup, outbox, drain
  <1>4. ASSUME NEW r \in Request, NEW i \in Item, NEW e \in Endpoint,
               Enqueue(r, i, e)
        PROVE  TypeOK'
    <2> DEFINE left == todo[r] \ {<<i, e>>}
    <2>1. After(left) \in {"fanning", "done"}
      BY DEF After
    <2>2. /\ todo' = [todo EXCEPT ![r] = left]
          /\ phase' = [phase EXCEPT ![r] = After(left)]
      BY <1>4 DEF Enqueue
    <2>3. <<r, i, e>> \in Entry
      BY Triples
    <2> QED
      BY <1>4, <2>1, <2>2, <2>3 DEF Enqueue, drain
  <1>5. ASSUME NEW r \in Request, LoseFanout(r) PROVE TypeOK'
    BY <1>5, FaultCounts DEF LoseFanout, outbox, drain
  <1>6. ASSUME NEW s \in Server, Drain(s) PROVE TypeOK'
    <2>1. PICK batch \in SUBSET Due :
              /\ claim' = [claim EXCEPT ![s] = batch]
              /\ copy' = [copy EXCEPT ![s] =
                     [d \in Entry |-> IF d \in batch THEN attempts[d] ELSE 0]]
              /\ shared' = shared \cup
                     {d \in batch : \E t \in Server \ {s} : d \in claim[t]}
      BY <1>6 DEF Drain
    <2>2. batch \subseteq Entry
      BY DEF Due
    <2>3. \A d \in batch : attempts[d] \in 0 .. (MaxAttempts - 1)
      BY <2>2 DEF Due, Counts
    <2>4. copy' \in [Server -> [Entry -> 0 .. (MaxAttempts - 1)]]
      BY <2>1, <2>3
    <2> QED
      BY <1>6, <2>1, <2>2, <2>4 DEF Drain, push, outbox
  <1>7. ASSUME NEW s \in Server, NEW d \in Entry, Post(s, d) PROVE TypeOK'
    BY <1>7 DEF Post, push, outbox
  <1>8. ASSUME NEW s \in Server, NEW d \in Entry, Record(s, d) PROVE TypeOK'
    <2>1. copy[s][d] + 1 \in 0 .. MaxAttempts
      OBVIOUS
    <2> DEFINE outcome == IF reply[s][d] = "ok" THEN "delivered"
                          ELSE Failed(copy[s][d] + 1)
    <2>2. outcome \in {"pending", "delivered", "dead_letter"}
      BY DEF Failed
    <2>3. /\ attempts' = [attempts EXCEPT ![d] = copy[s][d] + 1]
          /\ status' = [status EXCEPT ![d] = outcome]
          /\ due' = [due EXCEPT ![d] = outcome # "pending"]
      BY <1>8 DEF Record
    <2> HIDE DEF outcome
    <2>4. copy' \in [Server -> [Entry -> 0 .. (MaxAttempts - 1)]]
      BY <1>8 DEF Record
    <2> QED
      BY <1>8, <2>1, <2>2, <2>3, <2>4 DEF Record, push
  <1>9. ASSUME NEW s \in Server, Abandon(s) PROVE TypeOK'
    BY <1>9, FaultCounts DEF Abandon, push, outbox
  <1>10. ASSUME NEW d \in Entry, Backoff(d) PROVE TypeOK'
    BY <1>10 DEF Backoff, push, drain
  <1>11. CASE UNCHANGED vars
    BY <1>11 DEF vars, push, outbox, drain
  <1> QED
    BY <1>1, <1>2, <1>3, <1>4, <1>5, <1>6, <1>7, <1>8, <1>9, <1>10, <1>11 DEF Next

-----------------------------------------------------------------------------
(* The fan-out                                                             *)

Fanout == Firsts /\ RegistryMoves /\ TodoMatches /\ EntryMatches /\ NoneMissing

\* Drainers rewrite entries: they neither make nor remove one.
LEMMA DrainKeepsFanout ==
    ASSUME Fanout, UNCHANGED <<registry, push>>,
           \A d \in Entry : status'[d] = "none" <=> status[d] = "none"
    PROVE  Fanout'
  <1> USE Triples DEF push
  <1>1. Firsts'
    BY DEF Fanout, Firsts
  <1>2. RegistryMoves'
    BY DEF Fanout, RegistryMoves
  <1>3. TodoMatches'
    BY DEF Fanout, TodoMatches
  <1>4. EntryMatches'
    BY DEF Fanout, EntryMatches
  <1>5. NoneMissing'
    BY DEF Fanout, NoneMissing
  <1> QED
    BY <1>1, <1>2, <1>3, <1>4, <1>5 DEF Fanout

\* An admin's step
LEMMA AdminKeepsFanout ==
    ASSUME TypeOK, Fanout, NEW a \in Endpoint, Register(a) \/ Remove(a)
    PROVE  Fanout'
  <1>1. Firsts'
    BY DEF Fanout, Firsts, Register, Remove, push
  <1>2. RegistryMoves'
    BY DEF TypeOK, Fanout, RegistryMoves, Register, Remove, push
  <1>3. TodoMatches' /\ EntryMatches'
    BY DEF Fanout, TodoMatches, EntryMatches, Register, Remove, push, outbox
  <1>4. NoneMissing'
    <2> SUFFICES ASSUME NEW r \in Request, NEW i \in Item, NEW e \in Endpoint,
                        phase[r] \in {"fanning", "done"},
                        i \in accepted[r], i \in Wanted[e],
                        atCommit[r][e] = "active", registry'[e] = "active"
                 PROVE  status[<<r, i, e>>] # "none" \/ <<i, e>> \in todo[r]
      BY DEF NoneMissing, Register, Remove, push, outbox
    <2>1. registry[e] = "active"
      BY DEF TypeOK, Fanout, RegistryMoves, Register, Remove
    <2> QED
      BY <2>1 DEF Fanout, NoneMissing
  <1> QED
    BY <1>1, <1>2, <1>3, <1>4 DEF Fanout

\* A commit accepts what nobody had, before the request has any entry.
LEMMA PushKeepsFanout ==
    ASSUME TypeOK, Fanout, NEW q \in Request, Push(q)
    PROVE  Fanout'
  <1> USE DEF TypeOK
  <1>1. Firsts'
    BY BatchAssumption DEF Fanout, Firsts, Push, Fresh
  <1>2. RegistryMoves'
    BY DEF Fanout, RegistryMoves, Push
  <1>3. TodoMatches'
    BY DEF Fanout, TodoMatches, Push, outbox
  <1>4. EntryMatches'
    BY DEF Fanout, EntryMatches, Push, outbox
  <1>5. NoneMissing'
    BY DEF Fanout, NoneMissing, Push, outbox
  <1> QED
    BY <1>1, <1>2, <1>3, <1>4, <1>5 DEF Fanout

\* The list is made of endpoints that are active, so not deleted before.
LEMMA LookupKeepsFanout ==
    ASSUME TypeOK, Fanout, NEW q \in Request, Lookup(q)
    PROVE  Fanout'
  <1> DEFINE pairs == {p \in accepted[q] \X Endpoint : Matches(p[2], p[1])}
  <1> USE DEF TypeOK
  <1>1. /\ phase[q] = "pushed"
        /\ todo' = [todo EXCEPT ![q] = pairs]
        /\ phase' = [phase EXCEPT ![q] = After(pairs)]
        /\ UNCHANGED <<registry, held, accepted, atCommit, status>>
    BY DEF Lookup, outbox
  <1>2. \A i \in Item, e \in Endpoint :
            <<i, e>> \in pairs <=> i \in accepted[q] /\ Matches(e, i)
    OBVIOUS
  <1>3. /\ pairs = {} => After(pairs) = "done"
        /\ pairs # {} => After(pairs) = "fanning"
    BY DEF After
  <1> HIDE DEF pairs
  <1>4. Firsts' /\ RegistryMoves'
    BY <1>1, <1>3 DEF Fanout, Firsts, RegistryMoves
  <1>5. \A i \in Item, e \in Endpoint : status[<<q, i, e>>] = "none"
    BY <1>1 DEF Fanout, EntryMatches
  <1>6. TodoMatches'
    <2>1. \A r \in Request : phase'[r] # "fanning" => todo'[r] = {}
      BY <1>1, <1>3 DEF Fanout, TodoMatches
    <2>2. ASSUME NEW r \in Request, NEW i \in Item, NEW e \in Endpoint,
                 <<i, e>> \in todo'[r]
          PROVE  /\ i \in accepted[r] /\ i \in Wanted[e]
                 /\ atCommit[r][e] # "deleted"
                 /\ status[<<r, i, e>>] = "none"
      <3>1. CASE r = q
        BY <3>1, <2>2, <1>1, <1>2, <1>5 DEF Matches, Fanout, RegistryMoves
      <3>2. CASE r # q
        BY <3>2, <2>2, <1>1 DEF Fanout, TodoMatches
      <3> QED
        BY <3>1, <3>2
    <2> QED
      BY <2>1, <2>2, <1>1 DEF TodoMatches
  <1>7. EntryMatches'
    BY <1>1, <1>3, <1>5 DEF Fanout, EntryMatches
  <1>8. NoneMissing'
    BY <1>1, <1>2 DEF Fanout, NoneMissing, Matches
  <1> QED
    BY <1>4, <1>6, <1>7, <1>8 DEF Fanout

\* One pair leaves the list and becomes an entry.
LEMMA EnqueueKeepsFanout ==
    ASSUME TypeOK, Fanout, NEW q \in Request, NEW j \in Item, NEW a \in Endpoint,
           Enqueue(q, j, a)
    PROVE  Fanout'
  <1> DEFINE left == todo[q] \ {<<j, a>>}
  <1> USE Triples DEF TypeOK
  <1>1. /\ phase[q] = "fanning"
        /\ <<j, a>> \in todo[q]
        /\ todo' = [todo EXCEPT ![q] = left]
        /\ phase' = [phase EXCEPT ![q] = After(left)]
        /\ status' = [status EXCEPT ![<<q, j, a>>] = "pending"]
        /\ UNCHANGED <<registry, held, accepted, atCommit>>
    BY DEF Enqueue
  <1>2. /\ left = {} => After(left) = "done"
        /\ left # {} => After(left) = "fanning"
    BY DEF After
  <1>3. \A i \in Item, e \in Endpoint :
            <<i, e>> \in left <=> <<i, e>> \in todo[q] /\ (i # j \/ e # a)
    OBVIOUS
  <1>4. \A r \in Request, i \in Item, e \in Endpoint :
            status'[<<r, i, e>>] = IF r = q /\ i = j /\ e = a THEN "pending"
                                   ELSE status[<<r, i, e>>]
    BY <1>1
  <1> HIDE DEF left
  <1>5. Firsts' /\ RegistryMoves'
    BY <1>1, <1>2 DEF Fanout, Firsts, RegistryMoves
  <1>6. TodoMatches'
    BY <1>1, <1>2, <1>3, <1>4 DEF Fanout, TodoMatches
  <1>7. EntryMatches'
    BY <1>1, <1>2, <1>4 DEF Fanout, EntryMatches, TodoMatches
  <1>8. NoneMissing'
    <2> SUFFICES ASSUME NEW r \in Request, NEW i \in Item, NEW e \in Endpoint,
                        phase'[r] \in {"fanning", "done"},
                        i \in accepted[r], i \in Wanted[e],
                        atCommit[r][e] = "active", registry[e] = "active",
                        status'[<<r, i, e>>] = "none"
                 PROVE  <<i, e>> \in todo'[r]
      BY <1>1 DEF NoneMissing
    <2>1. phase[r] \in {"fanning", "done"}
      BY <1>1
    <2>2. <<i, e>> \in todo[r] /\ ~(r = q /\ i = j /\ e = a)
      BY <2>1, <1>4 DEF Fanout, NoneMissing
    <2>3. CASE r = q
      BY <2>2, <2>3, <1>1, <1>3
    <2>4. CASE r # q
      BY <2>2, <2>4, <1>1
    <2> QED
      BY <2>3, <2>4
  <1> QED
    BY <1>5, <1>6, <1>7, <1>8 DEF Fanout

\* A fan-out that is lost promises nothing.
LEMMA LoseKeepsFanout ==
    ASSUME TypeOK, Fanout, NEW q \in Request, LoseFanout(q)
    PROVE  Fanout'
  <1> USE DEF TypeOK, LoseFanout, outbox
  <1>1. Firsts' /\ RegistryMoves'
    BY DEF Fanout, Firsts, RegistryMoves
  <1>2. TodoMatches'
    BY DEF Fanout, TodoMatches
  <1>3. EntryMatches'
    BY DEF Fanout, EntryMatches
  <1>4. NoneMissing'
    BY DEF Fanout, NoneMissing
  <1> QED
    BY <1>1, <1>2, <1>3, <1>4 DEF Fanout

\* An instance holds only entries that exist, so writing one down makes none.
LEMMA RecordRewrites ==
    ASSUME TypeOK, Holders, NEW s \in Server, NEW c \in Entry, Record(s, c)
    PROVE  /\ c \in claim[s]
           /\ status'[c] \in {"pending", "delivered", "dead_letter"}
           /\ \A d \in Entry : d # c => status'[d] = status[d]
           /\ \A d \in Entry : status'[d] = "none" <=> status[d] = "none"
  <1>1. c \in claim[s] /\ status[c] # "none"
    BY DEF Record, Holders
  <1>2. status' = [status EXCEPT ![c] =
            IF reply[s][c] = "ok" THEN "delivered" ELSE Failed(copy[s][c] + 1)]
    BY DEF Record
  <1>3. Failed(copy[s][c] + 1) \in {"pending", "dead_letter"}
    BY DEF Failed
  <1> QED
    BY <1>1, <1>2, <1>3 DEF TypeOK

LEMMA FanoutStep == TypeOK /\ Fanout /\ Holders /\ [Next]_vars => Fanout'
  <1> SUFFICES ASSUME TypeOK, Fanout, Holders, [Next]_vars PROVE Fanout'
    OBVIOUS
  <1>1. ASSUME NEW e \in Endpoint, Register(e) \/ Remove(e) PROVE Fanout'
    BY <1>1, AdminKeepsFanout
  <1>2. ASSUME NEW r \in Request, Push(r) \/ Lookup(r) \/ LoseFanout(r)
        PROVE  Fanout'
    BY <1>2, PushKeepsFanout, LookupKeepsFanout, LoseKeepsFanout
  <1>3. ASSUME NEW r \in Request, NEW i \in Item, NEW e \in Endpoint,
               Enqueue(r, i, e)
        PROVE  Fanout'
    BY <1>3, EnqueueKeepsFanout
  <1>4. ASSUME NEW s \in Server, Drain(s) \/ Abandon(s) PROVE Fanout'
    BY <1>4, DrainKeepsFanout DEF Drain, Abandon, outbox
  <1>5. ASSUME NEW s \in Server, NEW d \in Entry, Post(s, d) PROVE Fanout'
    BY <1>5, DrainKeepsFanout DEF Post, outbox
  <1>6. ASSUME NEW s \in Server, NEW d \in Entry, Record(s, d) PROVE Fanout'
    BY <1>6, DrainKeepsFanout, RecordRewrites DEF Record
  <1>7. ASSUME NEW d \in Entry, Backoff(d) PROVE Fanout'
    BY <1>7, DrainKeepsFanout DEF Backoff
  <1>8. CASE UNCHANGED vars
    BY <1>8, DrainKeepsFanout DEF vars, outbox
  <1> QED
    BY <1>1, <1>2, <1>3, <1>4, <1>5, <1>6, <1>7, <1>8 DEF Next

-----------------------------------------------------------------------------
(* The drain                                                               *)

\* An entry is enqueued before anybody holds it.
LEMMA EnqueueKeepsDrain ==
    ASSUME TypeOK, Fanout, Holders, Counts,
           NEW r \in Request, NEW i \in Item, NEW e \in Endpoint, Enqueue(r, i, e)
    PROVE  Holders' /\ Counts'
  <1> DEFINE c == <<r, i, e>>
  <1>1. c \in Entry /\ status[c] = "none"
    BY Triples DEF Enqueue, Fanout, TodoMatches
  <1>2. /\ status' = [status EXCEPT ![c] = "pending"]
        /\ UNCHANGED <<attempts, claim, copy, reply, shared, posts>>
    BY DEF Enqueue, drain
  <1> HIDE DEF c
  <1>3. Holders'
    BY <1>1, <1>2 DEF TypeOK, Holders
  <1>4. Counts'
    BY <1>1, <1>2 DEF TypeOK, Counts
  <1> QED
    BY <1>3, <1>4

\* A claim takes pending entries; those another instance holds are shared now.
LEMMA DrainKeepsDrain ==
    ASSUME TypeOK, Holders, Counts, NEW s \in Server, Drain(s)
    PROVE  Holders' /\ Counts'
  <1>1. PICK batch \in SUBSET Due :
            /\ claim' = [claim EXCEPT ![s] = batch]
            /\ copy' = [copy EXCEPT ![s] =
                   [d \in Entry |-> IF d \in batch THEN attempts[d] ELSE 0]]
            /\ shared' = shared \cup
                   {d \in batch : \E t \in Server \ {s} : d \in claim[t]}
    BY DEF Drain
  <1>2. /\ claim[s] = {}
        /\ UNCHANGED <<status, attempts, reply, posts>>
    BY DEF Drain, outbox
  <1>3. \A d \in batch : d \in Entry /\ status[d] = "pending"
    BY DEF Due
  <1>4. \A d \in Entry : reply[s][d] = "none"
    BY <1>2 DEF Holders
  <1>5. /\ claim'[s] = batch
        /\ \A t \in Server : t # s => claim'[t] = claim[t] /\ copy'[t] = copy[t]
        /\ \A d \in batch : copy'[s][d] = attempts[d]
    BY <1>1, <1>3 DEF TypeOK
  <1>6. Holders'
    <2>1. \A t \in Server, d \in Entry :
              /\ reply'[t][d] # "none" => d \in claim'[t]
              /\ d \in claim'[t] => status'[d] # "none"
              /\ d \in claim'[t] /\ d \notin shared' => status'[d] = "pending"
      <3> SUFFICES ASSUME NEW t \in Server, NEW d \in Entry
                   PROVE  /\ reply'[t][d] # "none" => d \in claim'[t]
                          /\ d \in claim'[t] => status'[d] # "none"
                          /\ d \in claim'[t] /\ d \notin shared'
                             => status'[d] = "pending"
        OBVIOUS
      <3>1. CASE t = s
        BY <3>1, <1>2, <1>3, <1>4, <1>5
      <3>2. CASE t # s
        BY <3>2, <1>1, <1>2, <1>5 DEF Holders
      <3> QED
        BY <3>1, <3>2
    <2>2. \A t, u \in Server, d \in Entry :
              d \in claim'[t] /\ d \in claim'[u] => t = u \/ d \in shared'
      BY <1>1, <1>5 DEF Holders
    <2> QED
      BY <2>1, <2>2 DEF Holders
  <1>7. Counts'
    <2>1. \A d \in Entry :
              /\ attempts'[d] <= posts'[d]
              /\ status'[d] \in {"none", "pending"} => attempts'[d] < MaxAttempts
              /\ status'[d] = "dead_letter" => attempts'[d] = MaxAttempts
      BY <1>2 DEF Counts
    <2>2. \A t \in Server, d \in Entry :
              /\ d \in claim'[t] => copy'[t][d] <= posts'[d]
              /\ reply'[t][d] # "none" => copy'[t][d] + 1 <= posts'[d]
      <3> SUFFICES ASSUME NEW t \in Server, NEW d \in Entry
                   PROVE  /\ d \in claim'[t] => copy'[t][d] <= posts'[d]
                          /\ reply'[t][d] # "none" => copy'[t][d] + 1 <= posts'[d]
        OBVIOUS
      <3>1. CASE t = s
        BY <3>1, <1>2, <1>3, <1>4, <1>5 DEF Counts
      <3>2. CASE t # s
        BY <3>2, <1>2, <1>5 DEF Counts
      <3> QED
        BY <3>1, <3>2
    <2> QED
      BY <2>1, <2>2 DEF Counts
  <1> QED
    BY <1>6, <1>7

\* A post is counted when it is in hand, within the bound of the observer.
LEMMA PostKeepsDrain ==
    ASSUME TypeOK, Holders, Counts, NEW s \in Server, NEW c \in Entry, Post(s, c)
    PROVE  Holders' /\ Counts'
  <1> USE BoundsAssumption DEF TypeOK
  <1>1. PICK answer \in {"ok", "error"} : reply' = [reply EXCEPT ![s][c] = answer]
    BY DEF Post
  <1>2. /\ c \in claim[s]
        /\ posts' = [posts EXCEPT ![c] = IF @ < MaxAttempts THEN @ + 1 ELSE @]
        /\ UNCHANGED <<status, attempts, claim, copy, shared>>
    BY DEF Post, outbox
  <1>3. Holders'
    BY <1>1, <1>2 DEF Holders
  <1>4. \A d \in Entry : posts[d] <= posts'[d] /\ posts'[d] \in 0 .. MaxAttempts
    BY <1>2
  <1>5. copy[s][c] + 1 <= posts'[c]
    <2>1. copy[s][c] <= posts[c] /\ copy[s][c] \in 0 .. (MaxAttempts - 1)
      BY <1>2 DEF Counts
    <2>2. posts[c] \in 0 .. MaxAttempts
      OBVIOUS
    <2>3. posts'[c] = IF posts[c] < MaxAttempts THEN posts[c] + 1 ELSE posts[c]
      BY <1>2
    <2> QED
      BY <2>1, <2>2, <2>3
  <1>6. \A t \in Server, d \in Entry :
            /\ d \in claim'[t] => copy'[t][d] <= posts'[d]
            /\ reply'[t][d] # "none" => copy'[t][d] + 1 <= posts'[d]
    <2> SUFFICES ASSUME NEW t \in Server, NEW d \in Entry
                 PROVE  /\ d \in claim'[t] => copy'[t][d] <= posts'[d]
                        /\ reply'[t][d] # "none" => copy'[t][d] + 1 <= posts'[d]
      OBVIOUS
    <2>1. copy[t][d] \in Nat /\ posts[d] \in Nat /\ posts'[d] \in Nat
      BY <1>4
    <2>2. d \in claim'[t] => copy'[t][d] <= posts'[d]
      BY <2>1, <1>2, <1>4 DEF Counts
    <2>3. CASE t = s /\ d = c
      BY <2>2, <2>3, <1>2, <1>5
    <2>4. CASE ~(t = s /\ d = c)
      <3>1. reply'[t][d] = reply[t][d]
        BY <2>4, <1>1
      <3> QED
        BY <2>1, <2>2, <3>1, <1>2, <1>4 DEF Counts
    <2> QED
      BY <2>3, <2>4
  <1>7. \A d \in Entry :
            /\ attempts'[d] <= posts'[d]
            /\ status'[d] \in {"none", "pending"} => attempts'[d] < MaxAttempts
            /\ status'[d] = "dead_letter" => attempts'[d] = MaxAttempts
    <2> SUFFICES ASSUME NEW d \in Entry PROVE attempts[d] <= posts'[d]
      BY <1>2 DEF Counts
    <2> QED
      BY <1>4 DEF Counts
  <1> QED
    BY <1>3, <1>6, <1>7 DEF Counts

\* What is written down was posted after its copy was made.
LEMMA RecordKeepsDrain ==
    ASSUME TypeOK, Holders, Counts, NEW s \in Server, NEW c \in Entry, Record(s, c)
    PROVE  Holders' /\ Counts'
  <1> USE BoundsAssumption DEF TypeOK
  <1> DEFINE n == copy[s][c] + 1
  <1>1. /\ reply[s][c] # "none"
        /\ attempts' = [attempts EXCEPT ![c] = n]
        /\ claim' = [claim EXCEPT ![s] = @ \ {c}]
        /\ copy' = [copy EXCEPT ![s][c] = 0]
        /\ reply' = [reply EXCEPT ![s][c] = "none"]
        /\ UNCHANGED <<shared, posts>>
    BY DEF Record
  <1>2. status' = [status EXCEPT ![c] =
            IF reply[s][c] = "ok" THEN "delivered" ELSE Failed(n)]
    BY DEF Record
  <1>3. n \in 1 .. MaxAttempts /\ n <= posts[c]
    BY <1>1 DEF Counts
  <1>4. /\ status'[c] \in {"pending", "delivered", "dead_letter"}
        /\ status'[c] = "pending" => n < MaxAttempts
        /\ status'[c] = "dead_letter" => n = MaxAttempts
    <2>1. CASE reply[s][c] = "ok"
      BY <1>2, <2>1
    <2>2. CASE reply[s][c] # "ok"
      BY <1>2, <1>3, <2>2 DEF Failed
    <2> QED
      BY <2>1, <2>2
  <1> HIDE DEF n
  <1>5. \A d \in Entry : d # c => status'[d] = status[d]
    BY <1>2
  <1>6. Holders'
    <2>1. \A t \in Server, d \in Entry : d \in claim'[t] => d \in claim[t]
      BY <1>1
    <2>2. \A t \in Server, d \in Entry :
              d \in claim'[t] /\ d \in claim'[s] => t = s \/ d \in shared
      BY <2>1 DEF Holders
    <2>3. c \in claim[s] /\ c \notin claim'[s]
      BY <1>1 DEF Holders
    <2>4. ASSUME NEW t \in Server, NEW d \in Entry
          PROVE  /\ reply'[t][d] # "none" => d \in claim'[t]
                 /\ d \in claim'[t] => status'[d] # "none"
                 /\ d \in claim'[t] /\ d \notin shared' => status'[d] = "pending"
      <3>1. CASE d = c
        <4>1. CASE t = s
          BY <3>1, <4>1, <1>1, <2>3
        <4>2. CASE t # s
          BY <3>1, <4>2, <1>1, <1>4, <2>3 DEF Holders
        <4> QED
          BY <4>1, <4>2
      <3>2. CASE d # c
        <4>1. reply'[t][d] = reply[t][d] /\ (d \in claim'[t] <=> d \in claim[t])
          BY <3>2, <1>1
        <4> QED
          BY <3>2, <4>1, <1>1, <1>5 DEF Holders
      <3> QED
        BY <3>1, <3>2
    <2>5. \A t, u \in Server, d \in Entry :
              d \in claim'[t] /\ d \in claim'[u] => t = u \/ d \in shared'
      BY <2>1, <1>1 DEF Holders
    <2> QED
      BY <2>4, <2>5 DEF Holders
  <1>7. ASSUME NEW d \in Entry
        PROVE  /\ attempts'[d] <= posts'[d]
               /\ status'[d] \in {"none", "pending"} => attempts'[d] < MaxAttempts
               /\ status'[d] = "dead_letter" => attempts'[d] = MaxAttempts
    <2>1. CASE d = c
      BY <2>1, <1>1, <1>3, <1>4
    <2>2. CASE d # c
      BY <2>2, <1>1, <1>5 DEF Counts
    <2> QED
      BY <2>1, <2>2
  <1>8. ASSUME NEW t \in Server, NEW d \in Entry
        PROVE  /\ d \in claim'[t] => copy'[t][d] <= posts'[d]
               /\ reply'[t][d] # "none" => copy'[t][d] + 1 <= posts'[d]
    <2>1. CASE t = s /\ d = c
      BY <2>1, <1>1
    <2>2. CASE ~(t = s /\ d = c)
      BY <2>2, <1>1 DEF Counts
    <2> QED
      BY <2>1, <2>2
  <1> QED
    BY <1>6, <1>7, <1>8 DEF Counts

LEMMA DrainStep ==
    TypeOK /\ Fanout /\ Holders /\ Counts /\ [Next]_vars => Holders' /\ Counts'
  <1> SUFFICES ASSUME TypeOK, Fanout, Holders, Counts, [Next]_vars
               PROVE  Holders' /\ Counts'
    OBVIOUS
  <1>1. ASSUME UNCHANGED <<status, attempts, drain, posts>>
        PROVE  Holders' /\ Counts'
    BY <1>1 DEF Holders, Counts, drain
  <1>2. ASSUME NEW e \in Endpoint, Register(e) \/ Remove(e)
        PROVE  Holders' /\ Counts'
    BY <1>1, <1>2 DEF Register, Remove, outbox
  <1>3. ASSUME NEW r \in Request, Push(r) \/ Lookup(r) \/ LoseFanout(r)
        PROVE  Holders' /\ Counts'
    BY <1>1, <1>3 DEF Push, Lookup, LoseFanout, outbox
  <1>4. ASSUME NEW r \in Request, NEW i \in Item, NEW e \in Endpoint,
               Enqueue(r, i, e)
        PROVE  Holders' /\ Counts'
    BY <1>4, EnqueueKeepsDrain
  <1>5. ASSUME NEW s \in Server, Drain(s) PROVE Holders' /\ Counts'
    BY <1>5, DrainKeepsDrain
  <1>6. ASSUME NEW s \in Server, Abandon(s) PROVE Holders' /\ Counts'
    <2>1. /\ claim' = [claim EXCEPT ![s] = {}]
          /\ copy' = [copy EXCEPT ![s] = [d \in Entry |-> 0]]
          /\ reply' = [reply EXCEPT ![s] = [d \in Entry |-> "none"]]
          /\ UNCHANGED <<status, attempts, shared, posts>>
      BY <1>6 DEF Abandon, outbox
    <2>2. Holders'
      BY <2>1 DEF TypeOK, Holders
    <2>3. Counts'
      BY <2>1 DEF TypeOK, Counts
    <2> QED
      BY <2>2, <2>3
  <1>7. ASSUME NEW s \in Server, NEW d \in Entry, Post(s, d)
        PROVE  Holders' /\ Counts'
    BY <1>7, PostKeepsDrain
  <1>8. ASSUME NEW s \in Server, NEW d \in Entry, Record(s, d)
        PROVE  Holders' /\ Counts'
    BY <1>8, RecordKeepsDrain
  <1>9. ASSUME NEW d \in Entry, Backoff(d) PROVE Holders' /\ Counts'
    BY <1>1, <1>9 DEF Backoff
  <1>10. CASE UNCHANGED vars
    BY <1>1, <1>10 DEF vars, outbox
  <1> QED
    BY <1>2, <1>3, <1>4, <1>5, <1>6, <1>7, <1>8, <1>9, <1>10 DEF Next

-----------------------------------------------------------------------------
\* The invariant is inductive.
LEMMA InvStep == IInv /\ [Next]_vars => IInv'
  BY TypesStep, FanoutStep, DrainStep DEF IInv, Fanout

THEOREM InvHolds == Spec => []IInv
  BY InvInit, InvStep, PTL DEF Spec

\* Requests, entries and claims hold only what the handlers and drainers can
\* write; no entry's attempts pass max_attempts.
THEOREM TypesHold == Spec => []TypeOK
  <1>1. IInv => TypeOK
    BY DEF IInv
  <1> QED
    BY <1>1, InvHolds, PTL

\* fanout writes one entry for every accepted event and endpoint that wants
\* it, whatever other requests and the admin do meanwhile.
THEOREM FanoutHolds == Spec => []FanoutIsExact
  <1>1. IInv => FanoutIsExact
    <2> SUFFICES ASSUME IInv PROVE FanoutIsExact
      OBVIOUS
    <2> USE Triples DEF IInv, TypeOK
    <2>1. ASSUME NEW d \in Entry, Exists(d)
          PROVE  /\ d[2] \in accepted[d[1]] /\ d[2] \in Wanted[d[3]]
                 /\ atCommit[d[1]][d[3]] # "deleted"
      BY <2>1 DEF Exists, EntryMatches
    <2>2. ASSUME NEW c \in Entry, NEW d \in Entry,
                 Exists(c), Exists(d), c[2] = d[2], c[3] = d[3]
          PROVE  c = d
      <3>1. c[2] \in accepted[c[1]] \cap accepted[d[1]]
        BY <2>1, <2>2
      <3>2. c[1] = d[1]
        BY <3>1 DEF Firsts
      <3> QED
        BY <2>2, <3>2
    <2>3. ASSUME NEW d \in Entry, phase[d[1]] = "done",
                 d[2] \in accepted[d[1]] \cap Wanted[d[3]],
                 atCommit[d[1]][d[3]] = "active", registry[d[3]] = "active"
          PROVE  Exists(d)
      <3>1. todo[d[1]] = {}
        BY <2>3 DEF TodoMatches
      <3> QED
        BY <2>3, <3>1 DEF NoneMissing, Exists
    <2> QED
      BY <2>1, <2>2, <2>3 DEF FanoutIsExact
  <1> QED
    BY <1>1, InvHolds, PTL

\* drain_pg dead-letters an entry only after max_attempts posts, however many
\* instances overwrite each other's counts.
THEOREM DeadLettersWereTried == Spec => []DeadLetterWasTried
  <1>1. IInv => DeadLetterWasTried
    <2> SUFFICES ASSUME IInv, NEW d \in Entry
                 PROVE  /\ attempts[d] <= posts[d]
                        /\ status[d] = "dead_letter" => posts[d] = MaxAttempts
      BY DEF DeadLetterWasTried
    <2> USE BoundsAssumption DEF IInv, TypeOK, Counts
    <2>1. posts[d] \in 0 .. MaxAttempts /\ attempts[d] \in 0 .. MaxAttempts
      OBVIOUS
    <2> QED
      BY <2>1
  <1> QED
    BY <1>1, InvHolds, PTL

\* What keeps a final state final is that one instance holds the entry: the
\* claim's commit leaves the row pending, and the update asks for the id only.
LEMMA SettledStep ==
    ASSUME IInv, [Next]_vars, NEW d \in Entry, Settled(d)
    PROVE  status'[d] = status[d] \/ d \in shared
  <1>1. status[d] \notin {"none", "pending"}
    BY DEF Settled
  <1>2. ASSUME NEW r \in Request, NEW i \in Item, NEW e \in Endpoint,
               Enqueue(r, i, e)
        PROVE  status'[d] = status[d]
    <2>1. status[<<r, i, e>>] = "none"
      BY <1>2 DEF IInv, TodoMatches, Enqueue
    <2> QED
      BY <1>1, <1>2, <2>1 DEF Enqueue, IInv, TypeOK
  <1>3. ASSUME NEW s \in Server, NEW c \in Entry, Record(s, c)
        PROVE  status'[d] = status[d] \/ d \in shared
    <2>1. CASE d = c
      BY <1>1, <1>3, <2>1, RecordRewrites DEF IInv, Holders
    <2>2. CASE d # c
      BY <1>3, <2>2, RecordRewrites DEF IInv
    <2> QED
      BY <2>1, <2>2
  <1>4. CASE UNCHANGED status
    BY <1>4
  <1> QED
    BY <1>2, <1>3, <1>4
    DEF Next, vars, outbox, Register, Remove, Push, Lookup, LoseFanout, Drain,
        Abandon, Post, Backoff

THEOREM SettledEntriesStay == Spec => SettledStays
  <1>1. IInv /\ [Next]_vars
        => [\A d \in Entry : Settled(d) => status'[d] = status[d] \/ d \in shared]_vars
    BY SettledStep
  <1> QED
    BY <1>1, InvHolds, PTL DEF Spec, SettledStays

\* It takes two instances to share an entry: with one, as on the SQLite
\* branch, what is settled is settled for good.
SharedByTwo == shared # {} => \E s, t \in Server : s # t

THEOREM OneInstanceSharesNothing == Spec => []SharedByTwo
  <1>1. Init => SharedByTwo
    BY DEF Init, SharedByTwo
  <1>2. SharedByTwo /\ [Next]_vars => SharedByTwo'
    <2> SUFFICES ASSUME SharedByTwo, [Next]_vars PROVE SharedByTwo'
      OBVIOUS
    <2>1. ASSUME NEW s \in Server, Drain(s) PROVE SharedByTwo'
      <3>1. CASE \E t \in Server : t # s
        BY <3>1 DEF SharedByTwo
      <3>2. CASE ~\E t \in Server : t # s
        <4>1. Server \ {s} = {}
          BY <3>2
        <4>2. shared' = shared
          BY <2>1, <4>1 DEF Drain
        <4> QED
          BY <4>2 DEF SharedByTwo
      <3> QED
        BY <3>1, <3>2
    <2>2. CASE UNCHANGED shared
      BY <2>2 DEF SharedByTwo
    <2> QED
      BY <2>1, <2>2
      DEF Next, vars, drain, Register, Remove, Push, Lookup, LoseFanout, Enqueue,
          Abandon, Post, Record, Backoff
  <1> QED
    BY <1>1, <1>2, PTL DEF Spec

=============================================================================
