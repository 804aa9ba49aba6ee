----------------------------- MODULE WebhookOutbox -----------------------------
(***************************************************************************)
(* Outbound webhooks of the cloud server.  A push commits its items; in    *)
(* transactions of their own the same handler then looks up the active     *)
(* endpoints and writes one outbox entry for every accepted event an       *)
(* endpoint subscribed to.  Each server instance drains the outbox: it     *)
(* claims due entries and commits, posts them one by one, and writes down  *)
(* what came of each from the copy it claimed.  An admin registers and     *)
(* deletes endpoints meanwhile.                                            *)
(*                                                                         *)
(* One tenant.  Priorities are all zero and the order of a batch is open:  *)
(* "ordering is not guaranteed".  An entry carries url and secret, so a    *)
(* delivery reads no registry.  The email_report topic, which only the     *)
(* single-instance SQLite branch has, is left out.                         *)
(***************************************************************************)
EXTENDS Naturals, FiniteSets

CONSTANTS
    Request,     \* push requests; a retry is another request
    Item,        \* offline-queue items
    Endpoint,    \* endpoint ids, never reused
    Server,      \* instances that drain the outbox
    Batch,       \* Batch[r]: the items of request r
    Wanted,      \* Wanted[e]: items whose action is an event e subscribed to
    MaxAttempts, \* max_attempts of an entry
    BatchSize,   \* DRAIN_BATCH_SIZE
    MaxFaults    \* bound on lost fan-outs and broken drain cycles

ASSUME BatchAssumption  == Batch \in [Request -> SUBSET Item]
ASSUME WantedAssumption == Wanted \in [Endpoint -> SUBSET Item]
ASSUME BoundsAssumption == /\ MaxAttempts \in Nat \ {0}
                           /\ BatchSize \in Nat \ {0}
                           /\ MaxFaults \in Nat

\* An outbox entry: what request r wrote for item i and endpoint e
Entry == Request \X Item \X Endpoint

VARIABLES
    registry, \* absent, active or deleted endpoints
    held,     \* items in the server's offline_queue
    phase,    \* unsent, pushed, fanning, done or lost requests
    accepted, \* items a request was first to push
    todo,     \* (item, endpoint) pairs a fan-out still has to enqueue
    atCommit, \* observer: the registry when the request committed
    status,   \* outbox.status; "none" without a row
    attempts, \* outbox.attempts
    due,      \* next_attempt_at has passed
    claim,    \* entries a server's drain cycle still has to finish
    copy,     \* outbox.attempts when it claimed them
    reply,    \* what the post of an entry in hand came to: none, ok or error
    posts,    \* observer: how often an entry was posted, up to MaxAttempts
    shared,   \* observer: entries two servers held at once
    faults

push     == <<held, phase, accepted, todo, atCommit>>
outbox   == <<status, attempts, due>>
drain    == <<claim, copy, reply, shared>>
vars     == <<registry, push, outbox, drain, posts, faults>>

Fault == faults < MaxFaults /\ faults' = faults + 1

Init ==
    /\ registry = [e \in Endpoint |-> "absent"]
    /\ held = {}
    /\ phase = [r \in Request |-> "unsent"]
    /\ accepted = [r \in Request |-> {}]
    /\ todo = [r \in Request |-> {}]
    /\ atCommit = [r \in Request |-> registry]
    /\ status = [d \in Entry |-> "none"]
    /\ attempts = [d \in Entry |-> 0]
    /\ due = [d \in Entry |-> FALSE]
    /\ claim = [s \in Server |-> {}]
    /\ copy = [s \in Server |-> [d \in Entry |-> 0]]
    /\ reply = [s \in Server |-> [d \in Entry |-> "none"]]
    /\ posts = [d \in Entry |-> 0]
    /\ shared = {}
    /\ faults = 0

-----------------------------------------------------------------------------
(* The registry                                                            *)

Register(e) ==
    /\ registry[e] = "absent"
    /\ registry' = [registry EXCEPT ![e] = "active"]
    /\ UNCHANGED <<push, outbox, drain, posts, faults>>

Remove(e) ==
    /\ registry[e] = "active"
    /\ registry' = [registry EXCEPT ![e] = "deleted"]
    /\ UNCHANGED <<push, outbox, drain, posts, faults>>

-----------------------------------------------------------------------------
(* push_handler                                                            *)

\* Mutant of Fresh: duplicates count as accepted
Anything(r) == Batch[r]

\* The items of a request that are not in the queue yet; the others are
\* rejected as duplicates
Fresh(r) == Batch[r] \ held

\* push_batch commits; the outcomes are still in memory only
Push(r) ==
    /\ phase[r] = "unsent"
    /\ held' = held \cup Batch[r]
    /\ accepted' = [accepted EXCEPT ![r] = Fresh(r)]
    /\ atCommit' = [atCommit EXCEPT ![r] = registry]
    /\ phase' = [phase EXCEPT ![r] = "pushed"]
    /\ UNCHANGED <<registry, todo, outbox, drain, posts, faults>>

Matches(e, i) == registry[e] = "active" /\ i \in Wanted[e]

\* A fan-out with nothing left to do is over
After(pairs) == IF pairs = {} THEN "done" ELSE "fanning"

\* fanout: the active endpoints, in a read of its own
Lookup(r) ==
    /\ phase[r] = "pushed"
    /\ LET pairs == {p \in accepted[r] \X Endpoint : Matches(p[2], p[1])}
       IN  /\ todo' = [todo EXCEPT ![r] = pairs]
           /\ phase' = [phase EXCEPT ![r] = After(pairs)]
    /\ UNCHANGED <<registry, held, accepted, atCommit, outbox, drain, posts,
                   faults>>

\* fanout_inner: one entry, in a transaction of its own
Enqueue(r, i, e) ==
    /\ phase[r] = "fanning"
    /\ <<i, e>> \in todo[r]
    /\ LET left == todo[r] \ {<<i, e>>}
       IN  /\ todo' = [todo EXCEPT ![r] = left]
           /\ phase' = [phase EXCEPT ![r] = After(left)]
    /\ status' = [status EXCEPT ![<<r, i, e>>] = "pending"]
    /\ due' = [due EXCEPT ![<<r, i, e>>] = TRUE]
    /\ UNCHANGED <<registry, held, accepted, atCommit, attempts, drain, posts,
                   faults>>

\* The server stops, or the lookup or an enqueue fails: the error is logged
\* and the rest of the fan-out is gone, though the push stands
LoseFanout(r) ==
    /\ Fault
    /\ phase[r] \in {"pushed", "fanning"}
    /\ phase' = [phase EXCEPT ![r] = "lost"]
    /\ todo' = [todo EXCEPT ![r] = {}]
    /\ UNCHANGED <<registry, held, accepted, atCommit, outbox, drain, posts>>

-----------------------------------------------------------------------------
(* drain_pg                                                                *)

\* Mutant of Due: the status is not asked for
DueAnyStatus == {d \in Entry : status[d] # "none" /\ due[d]}

Due == {d \in Entry : status[d] = "pending" /\ due[d]}

\* The claim: at most a batch of due entries, fewer when another instance is
\* claiming just then.  It commits, and the rows stay pending.
Drain(s) ==
    /\ claim[s] = {}
    /\ \E batch \in SUBSET Due :
          /\ batch # {} /\ Cardinality(batch) <= BatchSize
          /\ claim' = [claim EXCEPT ![s] = batch]
          /\ copy' = [copy EXCEPT ![s] =
                 [d \in Entry |-> IF d \in batch THEN attempts[d] ELSE 0]]
          /\ shared' = shared \cup
                 {d \in batch : \E t \in Server \ {s} : d \in claim[t]}
    /\ UNCHANGED <<registry, push, outbox, reply, posts, faults>>

InHand(s) == {d \in Entry : reply[s][d] # "none"}

\* deliver_webhook: answered with 2xx, or refused, or not answered in time,
\* processed or not
Post(s, d) ==
    /\ d \in claim[s]
    /\ InHand(s) = {}
    /\ \E answer \in {"ok", "error"} :
          reply' = [reply EXCEPT ![s][d] = answer]
    /\ posts' = [posts EXCEPT ![d] = IF @ < MaxAttempts THEN @ + 1 ELSE @]
    /\ UNCHANGED <<registry, push, outbox, claim, copy, shared, faults>>

\* Mutants of Failed: one attempt more; the state of the documented lifecycle,
\* which no drain asks for
FailedOneMore(n) == IF n > MaxAttempts THEN "dead_letter" ELSE "pending"
FailedAside(n) == IF n >= MaxAttempts THEN "dead_letter" ELSE "failed"

\* After n failed attempts: again later, or never
Failed(n) == IF n >= MaxAttempts THEN "dead_letter" ELSE "pending"

\* The UPDATE by id: counted from the claimed copy, whatever the row is now
Record(s, d) ==
    /\ reply[s][d] # "none"
    /\ LET n == copy[s][d] + 1
           outcome == IF reply[s][d] = "ok" THEN "delivered" ELSE Failed(n)
       IN  /\ attempts' = [attempts EXCEPT ![d] = n]
           /\ status' = [status EXCEPT ![d] = outcome]
           /\ due' = [due EXCEPT ![d] = outcome # "pending"]
    /\ claim' = [claim EXCEPT ![s] = @ \ {d}]
    /\ copy' = [copy EXCEPT ![s][d] = 0]
    /\ reply' = [reply EXCEPT ![s][d] = "none"]
    /\ UNCHANGED <<registry, push, shared, posts, faults>>

\* Mutant of Abandon: the batch counts as attempted
AbandonCounting(s) ==
    /\ Fault
    /\ claim[s] # {}
    /\ attempts' = [d \in Entry |->
           IF d \in claim[s] THEN copy[s][d] + 1 ELSE attempts[d]]
    /\ claim' = [claim EXCEPT ![s] = {}]
    /\ copy' = [copy EXCEPT ![s] = [d \in Entry |-> 0]]
    /\ reply' = [reply EXCEPT ![s] = [d \in Entry |-> "none"]]
    /\ UNCHANGED <<registry, push, status, due, shared, posts>>

\* The instance stops, or the pool or the UPDATE fails: what it claimed and
\* did not write down stays as it was
Abandon(s) ==
    /\ Fault
    /\ claim[s] # {}
    /\ claim' = [claim EXCEPT ![s] = {}]
    /\ copy' = [copy EXCEPT ![s] = [d \in Entry |-> 0]]
    /\ reply' = [reply EXCEPT ![s] = [d \in Entry |-> "none"]]
    /\ UNCHANGED <<registry, push, outbox, shared, posts>>

\* backoff_deadline passes
Backoff(d) ==
    /\ status[d] = "pending" /\ ~due[d]
    /\ due' = [due EXCEPT ![d] = TRUE]
    /\ UNCHANGED <<registry, push, status, attempts, drain, posts, faults>>

-----------------------------------------------------------------------------
Next ==
    \/ \E e \in Endpoint : Register(e) \/ Remove(e)
    \/ \E r \in Request :
          \/ Push(r) \/ Lookup(r) \/ LoseFanout(r)
          \/ \E i \in Item, e \in Endpoint : Enqueue(r, i, e)
    \/ \E s \in Server :
          \/ Drain(s) \/ Abandon(s)
          \/ \E d \in Entry : Post(s, d) \/ Record(s, d)
    \/ \E d \in Entry : Backoff(d)

Spec == Init /\ [][Next]_vars

\* Handlers run on, drainers poll and time passes; nobody has to push, and an
\* admin does as he likes.
FairSpec ==
    /\ Spec
    /\ \A r \in Request :
          /\ WF_vars(Lookup(r))
          /\ \A i \in Item, e \in Endpoint : WF_vars(Enqueue(r, i, e))
    /\ \A s \in Server :
          /\ WF_vars(Drain(s))
          /\ \A d \in Entry : WF_vars(Post(s, d)) /\ WF_vars(Record(s, d))
    /\ \A d \in Entry : WF_vars(Backoff(d))

-----------------------------------------------------------------------------
(* Properties                                                              *)

TypeOK ==
    /\ registry \in [Endpoint -> {"absent", "active", "deleted"}]
    /\ held \subseteq Item
    /\ phase \in [Request -> {"unsent", "pushed", "fanning", "done", "lost"}]
    /\ accepted \in [Request -> SUBSET Item]
    /\ todo \in [Request -> SUBSET (Item \X Endpoint)]
    /\ atCommit \in [Request -> [Endpoint -> {"absent", "active", "deleted"}]]
    /\ status \in [Entry -> {"none", "pending", "delivered", "dead_letter"}]
    /\ attempts \in [Entry -> 0 .. MaxAttempts]
    /\ due \in [Entry -> BOOLEAN]
    /\ claim \in [Server -> SUBSET Entry]
    /\ copy \in [Server -> [Entry -> 0 .. (MaxAttempts - 1)]]
    /\ reply \in [Server -> [Entry -> {"none", "ok", "error"}]]
    /\ posts \in [Entry -> 0 .. MaxAttempts]
    /\ shared \subseteq Entry
    /\ faults \in 0 .. MaxFaults

Exists(d) == status[d] # "none"
Settled(d) == status[d] \in {"delivered", "dead_letter"}

\* "One `webhook` outbox entry per (item, matching endpoint) pair": however
\* requests repeat and race, no event is queued twice for one endpoint, none
\* for an endpoint deleted before the event, and a fan-out that was not lost
\* leaves out no endpoint that was there from the commit on.
FanoutIsExact ==
    /\ \A c, d \in Entry :
          Exists(c) /\ Exists(d) /\ c[2] = d[2] /\ c[3] = d[3] => c = d
    /\ \A d \in Entry :
          Exists(d) => d[2] \in Wanted[d[3]] /\ atCommit[d[1]][d[3]] # "deleted"
    /\ \A d \in Entry :
          /\ phase[d[1]] = "done"
          /\ d[2] \in accepted[d[1]] \cap Wanted[d[3]]
          /\ atCommit[d[1]][d[3]] = "active" /\ registry[d[3]] = "active"
          => Exists(d)

\* "Entries that fail after `max_attempts` are moved to the dead-letter state":
\* the receiver of a dead letter was called that often, and the attempts an
\* operator reads were made, though drainers overwrite each other's updates
\* from old copies and forget what they did not write down.
DeadLetterWasTried ==
    \A d \in Entry :
        /\ attempts[d] <= posts[d]
        /\ status[d] = "dead_letter" => posts[d] = MaxAttempts

\* "pending -> delivering -> delivered | dead_letter": an entry leaves a final
\* state only if two instances once held it at the same time.
SettledStays ==
    [][\A d \in Entry : Settled(d) => status'[d] = status[d] \/ d \in shared]_vars

\* Nothing waits forever: every entry ends delivered or dead and stays so,
\* through refusals, lost answers, crashes and stale updates.
EventuallySettled ==
    <>[](\A d \in Entry : Exists(d) => Settled(d))

=============================================================================
