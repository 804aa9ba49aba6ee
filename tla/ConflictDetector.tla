---------------------------- MODULE ConflictDetector ----------------------------
(***************************************************************************)
(* Conflict detection on the server, for one entity that several terminals *)
(* push mutations of.  A terminal stamps each item it pushes with a vector *)
(* of one entry, {own terminal: counter}; before it queues a batch the     *)
(* server compares each stamp with the vector it keeps for the entity, may *)
(* record a conflict for a manager and saves the pointwise maximum.        *)
(*                                                                         *)
(* The vector is read and saved under separate locks, so requests overlap, *)
(* also two of one terminal: a request whose answer is lost runs on while  *)
(* the terminal sends the next.  A vector or a counter that cannot be read *)
(* counts as none.  Detection never decides what is queued (PushQueue's    *)
(* business), and pushes without a stamp - sync_now, the PostgreSQL        *)
(* daemon, a terminal whose id cannot be read - do not reach it.           *)
(***************************************************************************)
EXTENDS Naturals, FiniteSets

CONSTANTS
    Terminal,
    Request,    \* pushes over HTTP, each sent once
    NoRequest,
    MaxItems,   \* bound on the items pushed, all pushes together
    MaxClock,   \* bound on the counter
    MaxFaults   \* bound on lost answers, lost requests, failed steps and reads

ASSUME DetectorAssumption ==
    /\ Terminal # {} /\ NoRequest \notin Request
    /\ MaxItems \in Nat /\ MaxClock \in Nat /\ MaxFaults \in Nat

VARIABLES
    kind,     \* what the entity is, which picks the merge policy
    clock,    \* settings sync.clock.counter of each terminal
    awaits,   \* the request each terminal's tick waits for
    request,  \* the pushes and how far the server is with them
    vector,   \* sync_entity_vectors.vector
    rows,     \* sync_conflicts
    items,    \* items pushed so far
    faults    \* faults so far

vars == <<kind, clock, awaits, request, vector, rows, items, faults>>

-----------------------------------------------------------------------------
(* Version vectors                                                         *)

Counter == 0 .. MaxClock
Vector  == [Terminal -> Counter]

Zero == [t \in Terminal |-> 0]

\* stamp_payload: the single-entry vector of an item
Stamp(t, n) == [Zero EXCEPT ![t] = n]

Leq(v, w) == \A t \in Terminal : v[t] <= w[t]

\* CausalOrder::Concurrent
Concurrent(v, w) == ~Leq(v, w) /\ ~Leq(w, v)

\* CausalOrder::After, v being the stored side: the incoming one is stale
After(v, w) == Leq(w, v) /\ v # w

\* Mutant of Observe: counters are added up
AddUp(v, w) == [t \in Terminal |-> v[t] + w[t]]

\* VersionVector::observe, the pointwise maximum
Observe(v, w) == [t \in Terminal |-> IF v[t] < w[t] THEN w[t] ELSE v[t]]

-----------------------------------------------------------------------------
\* stock and catalog never wait for review: they go as "other"
Kind == {"money", "customer", "other"}

Phase == {"unsent", "load", "judge", "save", "done", "lost"}

Unsent(t) == [phase |-> "unsent", from |-> t, n |-> 0, last |-> 0, read |-> Zero]

TypeOK ==
    /\ kind \in Kind
    /\ clock \in [Terminal -> Counter]
    /\ awaits \in [Terminal -> Request \cup {NoRequest}]
    /\ request \in [Request -> [phase : Phase, from : Terminal, n : Counter,
                                last : Counter, read : Vector]]
    /\ vector \in Vector
    /\ rows \subseteq [id : Request \X Counter, from : Terminal, stored : Vector,
                       incoming : Counter,
                       resolution : {"open", "keep_stored", "keep_incoming"}]
    /\ items \in 0 .. MaxItems /\ faults \in 0 .. MaxFaults

Init ==
    /\ kind \in Kind
    /\ clock = [t \in Terminal |-> 0]
    /\ awaits = [t \in Terminal |-> NoRequest]
    /\ request \in [Request -> {Unsent(t) : t \in Terminal}]
    /\ vector = Zero
    /\ rows = {}
    /\ items = 0 /\ faults = 0

\* Something goes wrong
Fault == faults < MaxFaults /\ faults' = faults + 1

-----------------------------------------------------------------------------
(* The terminal: one tick at a time                                        *)

\* push_items stamps k items with the counters after seed
PushItems(t, r, k, seed) ==
    /\ awaits[t] = NoRequest
    /\ request[r].phase = "unsent" /\ request[r].from = t
    /\ seed + k <= MaxClock
    /\ request' = [request EXCEPT ![r].phase = "load",
                                  ![r].n = seed + 1,
                                  ![r].last = seed + k]
    /\ awaits' = [awaits EXCEPT ![t] = r]
    /\ items + k <= MaxItems /\ items' = items + k
    /\ UNCHANGED <<kind, clock, vector, rows>>

\* The counter is seeded from the persisted clock ...
Send(t, r, k) == PushItems(t, r, k, clock[t]) /\ UNCHANGED faults

\* ... or from nothing, when the clock cannot be read or parsed
SendUnseeded(t, r, k) == PushItems(t, r, k, 0) /\ Fault

\* Mutant of Answered: the next counter is persisted, not the last one used
PersistNext(t) ==
    /\ awaits[t] # NoRequest
    /\ request[awaits[t]].phase = "done"
    /\ clock' = [clock EXCEPT ![t] = request[awaits[t]].last + 1]
    /\ awaits' = [awaits EXCEPT ![t] = NoRequest]
    /\ UNCHANGED <<kind, request, vector, rows, items, faults>>

\* The answer arrives and the counter is persisted ...
Answered(t) ==
    /\ awaits[t] # NoRequest
    /\ request[awaits[t]].phase = "done"
    /\ clock' = [clock EXCEPT ![t] = request[awaits[t]].last]
    /\ awaits' = [awaits EXCEPT ![t] = NoRequest]
    /\ UNCHANGED <<kind, request, vector, rows, items, faults>>

\* ... or the answer is lost, the till stops or the write fails: the next
\* push is stamped from the same counter
Unanswered(t) ==
    /\ Fault
    /\ awaits[t] # NoRequest
    /\ awaits' = [awaits EXCEPT ![t] = NoRequest]
    /\ UNCHANGED <<kind, clock, request, vector, rows, items>>

-----------------------------------------------------------------------------
(* The server: push_batch, then detect_conflict for each item              *)

\* The network drops a request
Drop(r) ==
    /\ Fault
    /\ request[r].phase = "load"
    /\ request' = [request EXCEPT ![r].phase = "lost"]
    /\ UNCHANGED <<kind, clock, awaits, vector, rows, items>>

\* The request after its current item
NextItem(q) ==
    IF q.n < q.last
    THEN [q EXCEPT !.phase = "load", !.n = @ + 1, !.read = Zero]
    ELSE [q EXCEPT !.phase = "done", !.read = Zero]

\* load_entity_vector.  (The stored body is read next, in a step of its own;
\* of it only matters whether its fields overlap, which Judge leaves open.)
Load(r) ==
    /\ request[r].phase = "load"
    /\ request' = [request EXCEPT ![r].phase = "judge", ![r].read = vector]
    /\ UNCHANGED <<kind, clock, awaits, vector, rows, items, faults>>

\* A vector that cannot be read or parsed counts as unseen.
Misread(r) ==
    /\ Fault
    /\ request[r].phase = "load"
    /\ request' = [request EXCEPT ![r].phase = "judge", ![r].read = Zero]
    /\ UNCHANGED <<kind, clock, awaits, vector, rows, items>>

Incoming(r) == Stamp(request[r].from, request[r].n)

\* policy_for on a concurrent pair: may it go through without review?
Mergeable == kind \in {"customer", "other"}

\* NeverAutoMerge, or fields of a customer that overlap
Reviewable == kind \in {"money", "customer"}

\* A stale item adds nothing
JudgeStale(r) ==
    /\ request[r].phase = "judge"
    /\ After(request[r].read, Incoming(r))
    /\ request' = [request EXCEPT ![r] = NextItem(@)]
    /\ UNCHANGED <<kind, clock, awaits, vector, rows, items, faults>>

\* Ordered, identical, or concurrent and merged or won by the tie break
JudgeApply(r) ==
    /\ request[r].phase = "judge"
    /\ ~After(request[r].read, Incoming(r))
    /\ ~Concurrent(request[r].read, Incoming(r)) \/ Mergeable
    /\ request' = [request EXCEPT ![r].phase = "save"]
    /\ UNCHANGED <<kind, clock, awaits, vector, rows, items, faults>>

\* Mutant of JudgeFlag: the conflict is counted, not recorded
FlagUnrecorded(r) ==
    /\ request[r].phase = "judge"
    /\ Concurrent(request[r].read, Incoming(r))
    /\ Reviewable
    /\ request' = [request EXCEPT ![r].phase = "save"]
    /\ UNCHANGED <<kind, clock, awaits, vector, rows, items, faults>>

\* Decision::Flag: the row is inserted before the vector advances
JudgeFlag(r) ==
    /\ request[r].phase = "judge"
    /\ Concurrent(request[r].read, Incoming(r))
    /\ Reviewable
    /\ rows' = rows \cup
           {[id |-> <<r, request[r].n>>, from |-> request[r].from,
             stored |-> request[r].read, incoming |-> request[r].n,
             resolution |-> "open"]}
    /\ request' = [request EXCEPT ![r].phase = "save"]
    /\ UNCHANGED <<kind, clock, awaits, vector, items, faults>>

\* save_entity_vector: the maximum of what was read and what came in
Save(r) ==
    /\ request[r].phase = "save"
    /\ vector' = Observe(request[r].read, Incoming(r))
    /\ request' = [request EXCEPT ![r] = NextItem(@)]
    /\ UNCHANGED <<kind, clock, awaits, rows, items, faults>>

\* An error of the detector is logged and swallowed
Fail(r) ==
    /\ Fault
    /\ request[r].phase \in {"load", "judge", "save"}
    /\ request' = [request EXCEPT ![r] = NextItem(@)]
    /\ UNCHANGED <<kind, clock, awaits, vector, rows, items>>

Decided(x, decision) == [x EXCEPT !.resolution = decision]

\* A manager resolves an open row
Resolve(x, decision) ==
    /\ x.resolution = "open"
    /\ rows' = (rows \ {x}) \cup {Decided(x, decision)}
    /\ UNCHANGED <<kind, clock, awaits, request, vector, items, faults>>

-----------------------------------------------------------------------------
Next ==
    \/ \E t \in Terminal :
          \/ \E r \in Request, k \in 1 .. MaxItems :
                Send(t, r, k) \/ SendUnseeded(t, r, k)
          \/ Answered(t) \/ Unanswered(t)
    \/ \E r \in Request :
          \/ Drop(r) \/ Load(r) \/ Misread(r)
          \/ JudgeStale(r) \/ JudgeApply(r) \/ JudgeFlag(r)
          \/ Save(r) \/ Fail(r)
    \/ \E x \in rows, decision \in {"keep_stored", "keep_incoming"} :
          Resolve(x, decision)

Spec == Init /\ [][Next]_vars

-----------------------------------------------------------------------------
(* Properties                                                              *)

\* t's movement of counter n is the incoming side of a row
Flagged(t, n) == \E x \in rows : x.from = t /\ x.incoming = n

\* Of the terminals whose money movements the server's vector holds, the latest
\* movement of all but one is a row for human review: whatever the vector joins
\* has been flagged, although requests overlap, repeat, misread the vector and
\* fail half way.  It does not speak of movements the vector does not hold.
LateComersAreFlagged ==
    kind = "money" =>
        \E first \in Terminal :
            \A t \in Terminal \ {first} : vector[t] > 0 => Flagged(t, vector[t])

\* "a divergent money movement is always a row for human review": of two pushes
\* by different terminals, none of which has seen the other's, one is in a row
\* by the time both are through the detector.
DivergentMoneyIsARow ==
    kind = "money" =>
        \A q, r \in Request :
            /\ request[q].from # request[r].from
            /\ request[q].phase = "done" /\ request[r].phase = "done"
            => \E x \in rows : x.id[1] \in {q, r}

\* What t has stamped
Stamped(t, n) == \E r \in Request : request[r].from = t /\ n <= request[r].last

\* "inventing one would fabricate a causal history": no counter in the
\* stored vector or in a row on a manager's screen exceeds what that terminal
\* has stamped.
NothingInvented ==
    \A t \in Terminal :
        /\ vector[t] > 0 => Stamped(t, vector[t])
        /\ \A x \in rows : x.stored[t] > 0 => Stamped(t, x.stored[t])

\* "resolving twice must not silently overwrite the first decision": a row
\* stays, and so does what was decided about it.
DecisionStands ==
    [][\A x \in rows : \E y \in rows' :
          y.id = x.id /\ (x.resolution = "open" \/ y = x)]_vars

\* "a counter that rewinds on restart" would make every later push stale: no
\* step moves a persisted counter back.
ClockNeverRewinds == [][\A t \in Terminal : clock[t] <= clock'[t]]_vars

\* The circumstances in which none does: every push is seeded from the clock.
SeedsAreRead ==
    [][\A t \in Terminal, r \in Request, k \in 1 .. MaxItems :
           ~SendUnseeded(t, r, k)]_vars

\* "the stored vector is advanced to the pointwise maximum of both, so the
\* next comparison sees everything observed so far".
VectorNeverGoesBack == [][Leq(vector, vector')]_vars

\* A push of which the server holds a reading of the vector
Reading(r) == request[r].phase \in {"judge", "save"}

\* The circumstances in which it does not: no two requests overlap between
\* their load and their save ...
OneAtATime == \A q, r \in Request : Reading(q) /\ Reading(r) => q = r

\* ... and no read of the vector fails.
VectorsAreRead == [][\A r \in Request : ~Misread(r)]_vars
=============================================================================
