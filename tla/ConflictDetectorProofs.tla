------------------------ MODULE ConflictDetectorProofs -------------------------
(***************************************************************************)
(* Proofs about ConflictDetector for any terminals and any number of       *)
(* overlapping requests.  The argument: what a request read is either the  *)
(* vector or an older value of it, and saving may move the vector back; so *)
(* what is claimed of the vector is claimed of every such reading as well, *)
(* and must only depend on what never shrinks: the rows and the stamps.    *)
(* The predicates take both as parameters, so that one lemma (GoodKept)    *)
(* carries a reading across every step.                                    *)
(***************************************************************************)
EXTENDS ConflictDetector, TLAPS

Push == [phase : Phase, from : Terminal, n : Counter, last : Counter, read : Vector]

\* t's item of counter n is the incoming side of a row in rs.
InRow(rs, t, n) == \E x \in rs : x.from = t /\ x.incoming = n

\* Of the terminals in v, the counters of all but one are in a row of rs.
OneUnflagged(rs, v) ==
    \E first \in Terminal :
        \A t \in Terminal \ {first} : v[t] > 0 => InRow(rs, t, v[t])

\* Every counter in v was stamped by a push in req.
Known(req, v) ==
    \A t \in Terminal :
        v[t] > 0 => \E r \in Request : req[r].from = t /\ v[t] <= req[r].last

\* A push is at one of the items it carries.
InsideItems(q) ==
    /\ q.phase \in {"load", "judge", "save"} => 1 <= q.n
    /\ q.phase = "unsent" => q.last = 0
    /\ q.n <= q.last

\* What a push has read, and is about to save, is accounted for.
Good(req, rs, k, q) ==
    /\ InsideItems(q)
    /\ Known(req, q.read)
    /\ k = "money" =>
        /\ OneUnflagged(rs, q.read)
        /\ q.phase = "save" => OneUnflagged(rs, Observe(q.read, Stamp(q.from, q.n)))

\* The tick waits for a push of its own.
AwaitsOwn ==
    \A t \in Terminal : awaits[t] # NoRequest => request[awaits[t]].from = t

StoredGood ==
    /\ Known(request, vector)
    /\ kind = "money" => OneUnflagged(rows, vector)
    /\ \A x \in rows : Known(request, x.stored)

Inv ==
    /\ TypeOK
    /\ AwaitsOwn
    /\ StoredGood
    /\ \A r \in Request : Good(request, rows, kind, request[r])

\* Stamps and rows do not shrink.
Grows(req, rs, req2, rs2) ==
    /\ \A r \in Request : req2[r].from = req[r].from /\ req[r].last <= req2[r].last
    /\ \A x \in rs : \E y \in rs2 : y.from = x.from /\ y.incoming = x.incoming

-----------------------------------------------------------------------------
(* Vectors                                                                 *)

LEMMA VectorTypes ==
    /\ 0 \in Counter /\ Counter \subseteq Nat
    /\ Zero \in Vector
    /\ \A t \in Terminal, n \in Counter : Stamp(t, n) \in Vector
    /\ \A v, w \in Vector : Observe(v, w) \in Vector
<1>1. 0 \in Counter /\ Counter \subseteq Nat
  BY DetectorAssumption DEF Counter
<1>2. Zero \in Vector
  BY <1>1 DEF Zero, Vector
<1>3. \A t \in Terminal, n \in Counter : Stamp(t, n) \in Vector
  BY <1>2 DEF Stamp, Vector
<1>4. \A v, w \in Vector : Observe(v, w) \in Vector
  BY DEF Observe, Vector
<1> QED BY <1>1, <1>2, <1>3, <1>4

\* A stamp speaks for its own terminal only.
LEMMA StampAt ==
    ASSUME NEW t \in Terminal, NEW n \in Counter, NEW u \in Terminal
    PROVE  Stamp(t, n)[u] = IF u = t THEN n ELSE 0
BY DEF Stamp, Zero

LEMMA ObserveAt ==
    ASSUME NEW v, NEW w, NEW u \in Terminal
    PROVE  Observe(v, w)[u] = IF v[u] < w[u] THEN w[u] ELSE v[u]
BY DEF Observe

LEMMA ZeroIsFine ==
    \A req, rs : Known(req, Zero) /\ OneUnflagged(rs, Zero)
BY DetectorAssumption DEF Known, OneUnflagged, Zero

\* The request after its item: same sender, same stamps, nothing read.
LEMMA NextItemShape ==
    ASSUME NEW q \in Push, InsideItems(q), q.phase \in {"load", "judge", "save"}
    PROVE  /\ NextItem(q) \in Push
           /\ NextItem(q).from = q.from /\ NextItem(q).last = q.last
           /\ NextItem(q).read = Zero
           /\ NextItem(q).phase \in {"load", "done"}
           /\ InsideItems(NextItem(q))
<1>1. Zero \in Vector
  BY VectorTypes
<1>2. CASE q.n < q.last
  <2>1. q.n + 1 \in Counter
    BY <1>2, DetectorAssumption DEF Counter, Push
  <2>2. NextItem(q) = [q EXCEPT !.phase = "load", !.n = q.n + 1, !.read = Zero]
    BY <1>2 DEF NextItem
  <2>3. NextItem(q) \in Push
    BY <1>1, <2>1, <2>2 DEF Push, Phase
  <2>4. /\ NextItem(q).phase = "load" /\ NextItem(q).n = q.n + 1
        /\ NextItem(q).last = q.last /\ NextItem(q).from = q.from
        /\ NextItem(q).read = Zero
    BY <2>2 DEF Push
  <2>5. q.n \in Nat /\ q.last \in Nat /\ 1 <= q.n
    BY VectorTypes DEF InsideItems, Push
  <2>6. InsideItems(NextItem(q))
    BY <1>2, <2>4, <2>5 DEF InsideItems
  <2> QED BY <2>3, <2>4, <2>6
<1>3. CASE ~(q.n < q.last)
  <2>1. NextItem(q) = [q EXCEPT !.phase = "done", !.read = Zero]
    BY <1>3 DEF NextItem
  <2> QED BY <1>1, <1>3, <2>1 DEF InsideItems, Push, Phase
<1> QED BY <1>2, <1>3

-----------------------------------------------------------------------------
(* What depends only on rows and stamps outlives every step.               *)

LEMMA KnownKept ==
    ASSUME NEW req \in [Request -> Push], NEW req2 \in [Request -> Push],
           NEW rs, NEW rs2, Grows(req, rs, req2, rs2),
           NEW v \in Vector, Known(req, v)
    PROVE  Known(req2, v)
<1> SUFFICES ASSUME NEW t \in Terminal, v[t] > 0
             PROVE  \E r \in Request : req2[r].from = t /\ v[t] <= req2[r].last
  BY DEF Known
<1>1. PICK r \in Request : req[r].from = t /\ v[t] <= req[r].last
  BY DEF Known
<1>2. req[r].last \in Nat /\ req2[r].last \in Nat /\ v[t] \in Nat
  BY VectorTypes DEF Push, Vector
<1>3. req2[r].from = t /\ req[r].last <= req2[r].last
  BY <1>1 DEF Grows
<1> QED BY <1>1, <1>2, <1>3

LEMMA OneUnflaggedKept ==
    ASSUME NEW req, NEW req2, NEW rs, NEW rs2, Grows(req, rs, req2, rs2),
           NEW v, OneUnflagged(rs, v)
    PROVE  OneUnflagged(rs2, v)
<1>1. PICK first \in Terminal :
         \A t \in Terminal \ {first} : v[t] > 0 => InRow(rs, t, v[t])
  BY DEF OneUnflagged
<1>2. ASSUME NEW t \in Terminal \ {first}, v[t] > 0 PROVE InRow(rs2, t, v[t])
  BY <1>1, <1>2 DEF Grows, InRow
<1> QED BY <1>2 DEF OneUnflagged

LEMMA GoodKept ==
    ASSUME NEW req \in [Request -> Push], NEW req2 \in [Request -> Push],
           NEW rs, NEW rs2, Grows(req, rs, req2, rs2),
           NEW k, NEW q \in Push, Good(req, rs, k, q)
    PROVE  Good(req2, rs2, k, q)
<1>1. q.read \in Vector
  BY DEF Push
<1>2. Known(req2, q.read)
  BY <1>1, KnownKept DEF Good
<1>3. \A v : OneUnflagged(rs, v) => OneUnflagged(rs2, v)
  BY OneUnflaggedKept
<1> QED BY <1>2, <1>3 DEF Good

\* The maximum of known vectors is known.
LEMMA ObserveKnown ==
    ASSUME NEW req, NEW v \in Vector, NEW w \in Vector, Known(req, v), Known(req, w)
    PROVE  Known(req, Observe(v, w))
<1> SUFFICES ASSUME NEW t \in Terminal, Observe(v, w)[t] > 0
             PROVE  \E r \in Request : req[r].from = t /\ Observe(v, w)[t] <= req[r].last
  BY DEF Known
<1>1. Observe(v, w)[t] = v[t] \/ Observe(v, w)[t] = w[t]
  BY ObserveAt
<1> QED BY <1>1 DEF Known

\* The item a push is at was stamped.
LEMMA IncomingKnown ==
    ASSUME NEW req \in [Request -> Push], NEW r \in Request, InsideItems(req[r])
    PROVE  /\ Stamp(req[r].from, req[r].n) \in Vector
           /\ Known(req, Stamp(req[r].from, req[r].n))
<1> DEFINE w == Stamp(req[r].from, req[r].n)
<1>1. req[r].from \in Terminal /\ req[r].n \in Counter
  BY DEF Push
<1>2. ASSUME NEW t \in Terminal, w[t] > 0
      PROVE  req[r].from = t /\ w[t] <= req[r].last
  <2>1. w[t] = IF t = req[r].from THEN req[r].n ELSE 0
    BY <1>1, StampAt
  <2> QED BY <1>2, <2>1 DEF InsideItems
<1>3. Known(req, w)
  BY <1>2 DEF Known
<1> QED BY <1>1, <1>3, VectorTypes

-----------------------------------------------------------------------------
(* Judging                                                                 *)

\* What is neither stale nor concurrent leaves one terminal in the maximum.
LEMMA OrderedIsOne ==
    ASSUME NEW v \in Vector, NEW t \in Terminal, NEW n \in Counter, NEW rs,
           ~After(v, Stamp(t, n)), ~Concurrent(v, Stamp(t, n))
    PROVE  OneUnflagged(rs, Observe(v, Stamp(t, n)))
<1> DEFINE w == Stamp(t, n)
<1>1. w \in Vector
  BY VectorTypes
<1>2. Leq(v, w)
  <2>1. Leq(v, v)
    <3>1. \A u \in Terminal : v[u] \in Nat
      BY VectorTypes DEF Vector
    <3> QED BY <3>1 DEF Leq
  <2> QED BY <2>1 DEF After, Concurrent
<1>3. ASSUME NEW u \in Terminal \ {t} PROVE Observe(v, w)[u] = 0
  <2>1. w[u] = 0
    BY StampAt
  <2>2. v[u] <= w[u]
    BY <1>2 DEF Leq
  <2>3. v[u] \in Nat
    BY VectorTypes DEF Vector
  <2> QED BY <2>1, <2>2, <2>3, ObserveAt
<1> QED BY <1>3 DEF OneUnflagged

\* A concurrent item is newer than what v holds of its sender.
LEMMA ConcurrentIsNewer ==
    ASSUME NEW v \in Vector, NEW t \in Terminal, NEW n \in Counter,
           Concurrent(v, Stamp(t, n))
    PROVE  v[t] < n /\ Observe(v, Stamp(t, n))[t] = n
<1>1. PICK u \in Terminal : ~(Stamp(t, n)[u] <= v[u])
  BY DEF Concurrent, Leq
<1>2. v[u] \in Nat /\ n \in Nat
  BY VectorTypes DEF Vector
<1>3. u = t /\ Stamp(t, n)[t] = n
  BY <1>1, <1>2, StampAt
<1> QED BY <1>1, <1>2, <1>3, ObserveAt

\* Once it is in a row, a concurrent item adds no unflagged terminal.
LEMMA FlaggedJoins ==
    ASSUME NEW v \in Vector, NEW t \in Terminal, NEW n \in Counter, NEW rs,
           OneUnflagged(rs, v), Concurrent(v, Stamp(t, n)), InRow(rs, t, n)
    PROVE  OneUnflagged(rs, Observe(v, Stamp(t, n)))
<1>1. PICK first \in Terminal :
         \A u \in Terminal \ {first} : v[u] > 0 => InRow(rs, u, v[u])
  BY DEF OneUnflagged
<1>2. ASSUME NEW u \in Terminal \ {first}, Observe(v, Stamp(t, n))[u] > 0
      PROVE  InRow(rs, u, Observe(v, Stamp(t, n))[u])
  <2>1. CASE u = t
    BY <2>1, ConcurrentIsNewer
  <2>2. CASE u # t
    <3>1. Stamp(t, n)[u] = 0
      BY <2>2, StampAt
    <3>2. v[u] \in Nat
      BY VectorTypes DEF Vector
    <3>3. Observe(v, Stamp(t, n))[u] = v[u]
      BY <3>1, <3>2, ObserveAt
    <3> QED BY <3>3, <1>1, <1>2
  <2> QED BY <2>1, <2>2
<1> QED BY <1>2 DEF OneUnflagged

-----------------------------------------------------------------------------
(* Initially                                                               *)

LEMMA InitInv == Init => Inv
<1> SUFFICES ASSUME Init PROVE Inv
  OBVIOUS
<1>1. \A t \in Terminal : Unsent(t) \in Push /\ Unsent(t).read = Zero
                          /\ Unsent(t).phase = "unsent" /\ InsideItems(Unsent(t))
  BY VectorTypes DEF Unsent, Push, Phase, InsideItems
<1>2. \A r \in Request : \E t \in Terminal : request[r] = Unsent(t)
  BY DEF Init
<1>3. TypeOK
  <2>1. request \in [Request -> Push]
    BY <1>1 DEF Init
  <2> QED BY <2>1, VectorTypes, DetectorAssumption DEF Init, TypeOK, Push
<1>4. AwaitsOwn
  BY DEF Init, AwaitsOwn
<1>5. StoredGood
  BY ZeroIsFine DEF Init, StoredGood
<1>6. \A r \in Request : Good(request, rows, kind, request[r])
  BY <1>1, <1>2, ZeroIsFine DEF Good
<1> QED BY <1>3, <1>4, <1>5, <1>6 DEF Inv

-----------------------------------------------------------------------------
(* Steps of one push                                                       *)

\* A push turns into q2, nothing shrinks: the others stay good.
LEMMA OneMoves ==
    ASSUME NEW req \in [Request -> Push], NEW rs, NEW rs2, NEW k,
           NEW r \in Request, NEW q2 \in Push,
           q2.from = req[r].from, req[r].last <= q2.last,
           \A x \in rs : \E y \in rs2 : y.from = x.from /\ y.incoming = x.incoming,
           \A s \in Request : Good(req, rs, k, req[s]),
           Good([req EXCEPT ![r] = q2], rs2, k, q2)
    PROVE  LET req2 == [req EXCEPT ![r] = q2]
           IN  /\ req2 \in [Request -> Push]
               /\ Grows(req, rs, req2, rs2)
               /\ \A s \in Request : Good(req2, rs2, k, req2[s])
<1> DEFINE req2 == [req EXCEPT ![r] = q2]
<1>1. req2 \in [Request -> Push]
  OBVIOUS
<1>2. \A s \in Request : req[s].last \in Nat
  BY VectorTypes DEF Push
<1>3. Grows(req, rs, req2, rs2)
  BY <1>2 DEF Grows
<1>4. ASSUME NEW s \in Request PROVE Good(req2, rs2, k, req2[s])
  <2>1. CASE s = r
    BY <2>1
  <2>2. CASE s # r
    <3>1. req2[s] = req[s] /\ req[s] \in Push /\ Good(req, rs, k, req[s])
      BY <2>2
    <3> HIDE DEF req2
    <3> QED BY <3>1, <1>1, <1>3, GoodKept
  <2> QED BY <2>1, <2>2
<1> QED BY <1>1, <1>3, <1>4

\* A push that has read nothing is good if it is inside its items.
LEMMA NothingRead ==
    ASSUME NEW req, NEW rs, NEW k, NEW q,
           InsideItems(q), q.read = Zero, q.phase # "save"
    PROVE  Good(req, rs, k, q)
BY ZeroIsFine DEF Good

\* The tick's own push moves, and stays its own.
LEMMA AwaitsKept ==
    ASSUME TypeOK, request' \in [Request -> Push], AwaitsOwn,
           Grows(request, rows, request', rows'),
           \A t \in Terminal : awaits'[t] \in {awaits[t], NoRequest}
    PROVE  AwaitsOwn'
<1> SUFFICES ASSUME NEW t \in Terminal, awaits'[t] # NoRequest
             PROVE  request'[awaits'[t]].from = t
  BY DEF AwaitsOwn
<1>1. awaits'[t] = awaits[t] /\ awaits[t] \in Request
  BY DEF TypeOK
<1>2. request[awaits[t]].from = t
  BY <1>1 DEF AwaitsOwn
<1> QED BY <1>1, <1>2 DEF Grows

\* What is stored is kept where the step does not write it.
LEMMA StoredKept ==
    ASSUME TypeOK, StoredGood, request' \in [Request -> Push],
           Grows(request, rows, request', rows'),
           kind' = kind, vector' = vector,
           \A x \in rows' : x.stored \in {y.stored : y \in rows}
    PROVE  StoredGood'
<1>1. request \in [Request -> Push] /\ vector \in Vector
      /\ \A x \in rows : x.stored \in Vector
  BY DEF TypeOK, Push
<1>2. \A v \in Vector : Known(request, v) => Known(request', v)
  BY <1>1, KnownKept
<1>3. \A v : OneUnflagged(rows, v) => OneUnflagged(rows', v)
  BY OneUnflaggedKept
<1>4. \A x \in rows' : Known(request', x.stored)
  BY <1>1, <1>2 DEF StoredGood
<1> QED BY <1>1, <1>2, <1>3, <1>4 DEF StoredGood

\* A push moves and nothing but requests and tick state changes.
LEMMA QuietMove ==
    ASSUME Inv, NEW r \in Request, NEW q2 \in Push,
           q2.from = request[r].from, request[r].last <= q2.last,
           Good([request EXCEPT ![r] = q2], rows, kind, q2),
           request' = [request EXCEPT ![r] = q2],
           kind' = kind, clock' = clock, awaits' = awaits,
           vector' = vector, rows' = rows,
           items' \in 0 .. MaxItems, faults' \in 0 .. MaxFaults
    PROVE  Inv'
<1>1. request \in [Request -> Push] /\ TypeOK
  BY DEF Inv, TypeOK, Push
<1>2. \A x \in rows : \E y \in rows : y.from = x.from /\ y.incoming = x.incoming
  OBVIOUS
<1>3. \A s \in Request : Good(request, rows, kind, request[s])
  BY DEF Inv
<1>4. /\ request' \in [Request -> Push]
      /\ Grows(request, rows, request', rows')
      /\ \A s \in Request : Good(request', rows', kind', request'[s])
  BY <1>1, <1>2, <1>3, OneMoves
<1>5. TypeOK'
  BY <1>1, <1>4 DEF TypeOK, Push
<1>6. AwaitsOwn'
  BY <1>1, <1>4, AwaitsKept DEF Inv, TypeOK
<1>7. StoredGood'
  BY <1>1, <1>4, StoredKept DEF Inv
<1> QED BY <1>4, <1>5, <1>6, <1>7 DEF Inv

-----------------------------------------------------------------------------
(* The terminal's steps                                                    *)

LEMMA SendInv ==
    ASSUME Inv, NEW t \in Terminal, NEW r \in Request, NEW k \in 1 .. MaxItems,
           NEW seed \in Counter, PushItems(t, r, k, seed), faults' \in 0 .. MaxFaults
    PROVE  Inv'
<1> DEFINE q2 == [request[r] EXCEPT !.phase = "load", !.n = seed + 1,
                                    !.last = seed + k]
<1>1. request \in [Request -> Push] /\ TypeOK
  BY DEF Inv, TypeOK, Push
<1>2. /\ request[r].phase = "unsent" /\ request[r].from = t
      /\ request' = [request EXCEPT ![r] = q2]
      /\ kind' = kind /\ clock' = clock /\ vector' = vector /\ rows' = rows
      /\ items' = items + k
      /\ awaits' = [awaits EXCEPT ![t] = r]
  BY <1>1 DEF PushItems
<1>3. seed \in Nat /\ seed + 1 \in Counter /\ seed + k \in Counter
  BY <1>1, DetectorAssumption DEF PushItems, Counter
<1>4. request[r] \in Push /\ Good(request, rows, kind, request[r])
  BY <1>1 DEF Inv
<1>5. q2 \in Push
  BY <1>3, <1>4 DEF Push, Phase
<1>6. /\ q2.phase = "load" /\ q2.from = t /\ q2.read = request[r].read
      /\ q2.n = seed + 1 /\ q2.last = seed + k
  BY <1>2, <1>4 DEF Push
<1>7. request[r].last = 0 /\ request[r].last <= q2.last
  BY <1>2, <1>3, <1>4, <1>6 DEF Good, InsideItems
<1>8. \A x \in rows : \E y \in rows' : y.from = x.from /\ y.incoming = x.incoming
  BY <1>2
<1>9. [request EXCEPT ![r] = q2] \in [Request -> Push]
  BY <1>1, <1>5
<1>10. Grows(request, rows, request', rows')
  <2>1. \A s \in Request : request[s].last \in Nat
    BY <1>1, VectorTypes DEF Push
  <2> QED BY <1>1, <1>2, <1>6, <1>7, <1>8, <2>1 DEF Grows
<1>11. Good(request', rows', kind', q2)
  <2>1. Good(request', rows', kind, request[r])
    BY <1>1, <1>2, <1>4, <1>9, <1>10, GoodKept
  <2>2. InsideItems(q2)
    BY <1>3, <1>6 DEF InsideItems
  <2> HIDE DEF q2
  <2> QED BY <1>2, <1>6, <2>1, <2>2 DEF Good
<1>12. /\ request' \in [Request -> Push]
       /\ \A s \in Request : Good(request', rows', kind', request'[s])
  <2>1. \A s \in Request : Good(request, rows, kind, request[s])
    BY DEF Inv
  <2>2. request \in [Request -> Push] /\ q2 \in Push
    BY <1>1, <1>5
  <2>3. q2.from = request[r].from /\ request[r].last <= q2.last
    BY <1>2, <1>6, <1>7
  <2>4. Good([request EXCEPT ![r] = q2], rows, kind, q2)
    BY <1>2, <1>11
  <2>5. \A x \in rows : \E y \in rows : y.from = x.from /\ y.incoming = x.incoming
    OBVIOUS
  <2> HIDE DEF q2
  <2>6. /\ [request EXCEPT ![r] = q2] \in [Request -> Push]
        /\ \A s \in Request :
              Good([request EXCEPT ![r] = q2], rows, kind, [request EXCEPT ![r] = q2][s])
    BY <2>1, <2>2, <2>3, <2>4, <2>5, OneMoves, Zenon
  <2> QED BY <1>2, <2>6, Zenon
<1>13. TypeOK'
  <2>1. items' \in 0 .. MaxItems
    BY <1>1, <1>2, DetectorAssumption DEF PushItems, TypeOK
  <2>2. awaits' \in [Terminal -> Request \cup {NoRequest}]
    BY <1>1, <1>2 DEF TypeOK
  <2> QED BY <1>1, <1>2, <1>12, <2>1, <2>2 DEF TypeOK, Push
<1>14. AwaitsOwn'
  <2> SUFFICES ASSUME NEW u \in Terminal, awaits'[u] # NoRequest
               PROVE  request'[awaits'[u]].from = u
    BY DEF AwaitsOwn
  <2>1. CASE u = t
    <3>1. awaits'[u] = r /\ request'[r] = q2
      BY <2>1, <1>1, <1>2 DEF TypeOK
    <3> HIDE DEF q2
    <3> QED BY <2>1, <3>1, <1>2, <1>3, <1>6
  <2>2. CASE u # t
    <3>1. awaits'[u] = awaits[u] /\ awaits[u] \in Request
      BY <2>2, <1>1, <1>2 DEF TypeOK
    <3>2. request[awaits[u]].from = u
      BY <3>1 DEF Inv, AwaitsOwn
    <3>3. awaits[u] # r
      BY <3>2, <2>2, <1>2
    <3> QED BY <3>1, <3>2, <3>3, <1>1, <1>2
  <2> QED BY <2>1, <2>2
<1>15. StoredGood'
  BY <1>1, <1>2, <1>10, <1>12, StoredKept DEF Inv
<1> QED BY <1>12, <1>13, <1>14, <1>15 DEF Inv

\* Hearing an answer, or giving up on one, leaves the server alone.
LEMMA TickInv ==
    ASSUME Inv, NEW t \in Terminal, Answered(t) \/ Unanswered(t)
    PROVE  Inv'
<1>1. request \in [Request -> Push] /\ TypeOK /\ awaits[t] \in Request
  BY DEF Inv, TypeOK, Push, Answered, Unanswered
<1>2. /\ request' = request /\ rows' = rows /\ vector' = vector /\ kind' = kind
      /\ items' = items
      /\ awaits' = [awaits EXCEPT ![t] = NoRequest]
      /\ \A u \in Terminal \ {t} : clock'[u] = clock[u]
  BY <1>1 DEF Answered, Unanswered, TypeOK
<1>3. StoredGood' /\ \A r \in Request : Good(request', rows', kind', request'[r])
  BY <1>2 DEF Inv, StoredGood
<1>4. AwaitsOwn'
  BY <1>1, <1>2 DEF Inv, AwaitsOwn, TypeOK
<1>5. clock' \in [Terminal -> Counter]
  <2>1. CASE Answered(t)
    <3>1. request[awaits[t]].last \in Counter
      BY <1>1 DEF Push
    <3> QED BY <1>1, <2>1, <3>1 DEF Answered, TypeOK
  <2>2. CASE Unanswered(t)
    BY <1>1, <2>2 DEF Unanswered, TypeOK
  <2> QED BY <2>1, <2>2
<1>6. faults' \in 0 .. MaxFaults
  BY <1>1, DetectorAssumption DEF Answered, Unanswered, Fault, TypeOK
<1>7. awaits' \in [Terminal -> Request \cup {NoRequest}]
  BY <1>1, <1>2 DEF TypeOK
<1>8. TypeOK'
  BY <1>1, <1>2, <1>5, <1>6, <1>7 DEF TypeOK
<1> QED BY <1>3, <1>4, <1>8 DEF Inv

-----------------------------------------------------------------------------
(* The server's steps                                                      *)

\* A request loses its place or its item, and has read nothing.
LEMMA ForgetInv ==
    ASSUME Inv, NEW r \in Request, Drop(r) \/ JudgeStale(r) \/ Fail(r)
    PROVE  Inv'
<1>1. request \in [Request -> Push] /\ TypeOK /\ request[r] \in Push
  BY DEF Inv, TypeOK, Push
<1>2. Good(request, rows, kind, request[r]) /\ InsideItems(request[r])
  BY DEF Inv, Good
<1>3. faults' \in 0 .. MaxFaults
  BY <1>1, DetectorAssumption DEF Drop, JudgeStale, Fail, Fault, TypeOK
<1>4. /\ kind' = kind /\ clock' = clock /\ awaits' = awaits /\ vector' = vector
      /\ rows' = rows /\ items' \in 0 .. MaxItems
  BY <1>1 DEF Drop, JudgeStale, Fail, TypeOK
<1>5. CASE Drop(r)
  <2> DEFINE q2 == [request[r] EXCEPT !.phase = "lost"]
  <2>1. request' = [request EXCEPT ![r] = q2]
    BY <1>1, <1>5 DEF Drop
  <2>2. q2 \in Push
    BY <1>1 DEF Push, Phase
  <2>3. /\ q2.phase = "lost" /\ q2.from = request[r].from /\ q2.n = request[r].n
        /\ q2.last = request[r].last /\ q2.read = request[r].read
    BY <1>1 DEF Push
  <2>4. request[r].last <= q2.last
    BY <1>1, <2>3, VectorTypes DEF Push
  <2>5. Good([request EXCEPT ![r] = q2], rows, kind, q2)
    <3>1. [request EXCEPT ![r] = q2] \in [Request -> Push]
      BY <1>1, <2>2
    <3>2. Grows(request, rows, [request EXCEPT ![r] = q2], rows)
      BY <1>1, <2>3, <2>4, VectorTypes DEF Grows, Push
    <3>3. Good([request EXCEPT ![r] = q2], rows, kind, request[r])
      BY <1>1, <1>2, <3>1, <3>2, GoodKept
    <3>4. InsideItems(q2)
      BY <1>2, <2>3 DEF InsideItems
    <3> HIDE DEF q2
    <3> QED BY <2>3, <3>3, <3>4 DEF Good
  <2> HIDE DEF q2
  <2> QED BY <1>3, <1>4, <2>1, <2>2, <2>3, <2>4, <2>5, QuietMove
<1>6. CASE JudgeStale(r) \/ Fail(r)
  <2> DEFINE q2 == NextItem(request[r])
  <2>1. request' = [request EXCEPT ![r] = q2]
        /\ request[r].phase \in {"load", "judge", "save"}
    BY <1>1, <1>6 DEF JudgeStale, Fail
  <2>2. /\ q2 \in Push /\ q2.from = request[r].from /\ q2.last = request[r].last
        /\ q2.read = Zero /\ q2.phase # "save" /\ InsideItems(q2)
    BY <1>1, <1>2, <2>1, NextItemShape
  <2> HIDE DEF q2
  <2>3. request[r].last <= q2.last
    <3>1. request[r].last \in Nat
      BY <1>1, VectorTypes DEF Push
    <3> QED BY <3>1, <2>2
  <2>4. Good([request EXCEPT ![r] = q2], rows, kind, q2)
    BY <2>2, NothingRead
  <2> QED BY <1>3, <1>4, <2>1, <2>2, <2>3, <2>4, QuietMove
<1> QED BY <1>5, <1>6

\* Reading the stored vector, or failing to
LEMMA LoadInv ==
    ASSUME Inv, NEW r \in Request, NEW v \in {vector, Zero},
           request[r].phase = "load",
           request' = [request EXCEPT ![r].phase = "judge", ![r].read = v],
           UNCHANGED <<kind, clock, awaits, vector, rows, items>>,
           faults' \in 0 .. MaxFaults
    PROVE  Inv'
<1> DEFINE q2 == [request[r] EXCEPT !.phase = "judge", !.read = v]
<1> DEFINE req2 == [request EXCEPT ![r] = q2]
<1>1. request \in [Request -> Push] /\ TypeOK /\ request[r] \in Push
  BY DEF Inv, TypeOK, Push
<1>2. InsideItems(request[r]) /\ StoredGood
  BY DEF Inv, Good
<1>3. /\ request' = req2 /\ request[r].phase = "load"
      /\ kind' = kind /\ clock' = clock /\ awaits' = awaits /\ vector' = vector
      /\ rows' = rows /\ items' \in 0 .. MaxItems /\ faults' \in 0 .. MaxFaults
  BY <1>1 DEF TypeOK
<1>4. q2 \in Push
  BY <1>1, VectorTypes DEF Push, Phase, TypeOK
<1>5. /\ q2.phase = "judge" /\ q2.from = request[r].from /\ q2.n = request[r].n
      /\ q2.last = request[r].last /\ q2.read = v
  BY <1>1 DEF Push
<1>6. request[r].last <= q2.last
  BY <1>1, <1>5, VectorTypes DEF Push
<1>7. Good(req2, rows, kind, q2)
  <2>1. req2 \in [Request -> Push]
    BY <1>1, <1>4
  <2>2. Grows(request, rows, req2, rows)
    BY <1>1, <1>5, <1>6, VectorTypes DEF Grows, Push
  <2>3. vector \in Vector
    BY <1>1 DEF TypeOK
  <2>4. Known(req2, v)
    BY <1>1, <1>2, <2>1, <2>2, <2>3, KnownKept, ZeroIsFine DEF StoredGood
  <2>5. InsideItems(q2)
    BY <1>2, <1>3, <1>5 DEF InsideItems
  <2>6. kind = "money" => OneUnflagged(rows, v)
    BY <1>2, ZeroIsFine DEF StoredGood
  <2> HIDE DEF q2, req2
  <2> QED BY <1>5, <2>4, <2>5, <2>6 DEF Good
<1> HIDE DEF q2
<1> QED BY <1>3, <1>4, <1>5, <1>6, <1>7, QuietMove

\* A pair that is judged not to need a row goes on to be saved.
LEMMA ApplyInv ==
    ASSUME Inv, NEW r \in Request, JudgeApply(r)
    PROVE  Inv'
<1> DEFINE q2 == [request[r] EXCEPT !.phase = "save"]
<1> DEFINE req2 == [request EXCEPT ![r] = q2]
<1>1. request \in [Request -> Push] /\ TypeOK /\ request[r] \in Push
  BY DEF Inv, TypeOK, Push
<1>2. Good(request, rows, kind, request[r])
  BY DEF Inv
<1>3. /\ request' = req2 /\ request[r].phase = "judge"
      /\ kind' = kind /\ clock' = clock /\ awaits' = awaits /\ vector' = vector
      /\ rows' = rows /\ items' \in 0 .. MaxItems /\ faults' \in 0 .. MaxFaults
  BY <1>1 DEF JudgeApply, TypeOK
<1>4. q2 \in Push
  BY <1>1 DEF Push, Phase
<1>5. /\ q2.phase = "save" /\ q2.from = request[r].from /\ q2.n = request[r].n
      /\ q2.last = request[r].last /\ q2.read = request[r].read
  BY <1>1 DEF Push
<1>6. request[r].last <= q2.last
  BY <1>1, <1>5, VectorTypes DEF Push
<1>7. Good(req2, rows, kind, q2)
  <2>1. req2 \in [Request -> Push]
    BY <1>1, <1>4
  <2>2. Grows(request, rows, req2, rows)
    BY <1>1, <1>5, <1>6, VectorTypes DEF Grows, Push
  <2>3. Good(req2, rows, kind, request[r])
    BY <1>1, <1>2, <2>1, <2>2, GoodKept
  <2>4. InsideItems(q2)
    BY <1>2, <1>3, <1>5 DEF Good, InsideItems
  <2>5. kind = "money" =>
            OneUnflagged(rows, Observe(request[r].read, Stamp(request[r].from, request[r].n)))
    <3>1. request[r].read \in Vector /\ request[r].from \in Terminal
          /\ request[r].n \in Counter
      BY <1>1 DEF Push
    <3> QED BY <3>1, OrderedIsOne DEF JudgeApply, Mergeable, Incoming
  <2> HIDE DEF q2, req2
  <2> QED BY <1>5, <2>3, <2>4, <2>5 DEF Good
<1> HIDE DEF q2
<1> QED BY <1>3, <1>4, <1>5, <1>6, <1>7, QuietMove

\* A row is written before the vector can advance.
LEMMA FlagInv ==
    ASSUME Inv, NEW r \in Request, JudgeFlag(r)
    PROVE  Inv'
<1> DEFINE q2 == [request[r] EXCEPT !.phase = "save"]
<1> DEFINE req2 == [request EXCEPT ![r] = q2]
<1> DEFINE row == [id |-> <<r, request[r].n>>, from |-> request[r].from,
                   stored |-> request[r].read, incoming |-> request[r].n,
                   resolution |-> "open"]
<1>1. request \in [Request -> Push] /\ TypeOK /\ request[r] \in Push
  BY DEF Inv, TypeOK, Push
<1>2. Good(request, rows, kind, request[r]) /\ StoredGood /\ AwaitsOwn
      /\ \A s \in Request : Good(request, rows, kind, request[s])
  BY DEF Inv
<1>3. /\ request' = req2 /\ request[r].phase = "judge"
      /\ kind' = kind /\ clock' = clock /\ awaits' = awaits /\ vector' = vector
      /\ rows' = rows \cup {row} /\ items' = items /\ faults' = faults
  BY <1>1 DEF JudgeFlag
<1>4. q2 \in Push
  BY <1>1 DEF Push, Phase
<1>5. /\ q2.phase = "save" /\ q2.from = request[r].from /\ q2.n = request[r].n
      /\ q2.last = request[r].last /\ q2.read = request[r].read
  BY <1>1 DEF Push
<1>6. request[r].last <= q2.last
  BY <1>1, <1>5, VectorTypes DEF Push
<1>7. req2 \in [Request -> Push]
  BY <1>1, <1>4
<1>8. (\A x \in rows : \E y \in rows' : y.from = x.from /\ y.incoming = x.incoming)
      /\ InRow(rows', request[r].from, request[r].n)
  <2>1. row.from = request[r].from /\ row.incoming = request[r].n
    OBVIOUS
  <2> HIDE DEF row
  <2>2. row \in rows' /\ rows \subseteq rows'
    BY <1>3
  <2> QED BY <2>1, <2>2 DEF InRow
<1>9. Grows(request, rows, req2, rows')
  BY <1>1, <1>5, <1>6, <1>8, VectorTypes DEF Grows, Push
<1>10. Good(req2, rows', kind, q2)
  <2>1. Good(req2, rows', kind, request[r])
    BY <1>1, <1>2, <1>7, <1>9, GoodKept
  <2>2. InsideItems(q2)
    BY <1>2, <1>3, <1>5 DEF Good, InsideItems
  <2>3. kind = "money" =>
            OneUnflagged(rows', Observe(request[r].read, Stamp(request[r].from, request[r].n)))
    <3>1. request[r].read \in Vector /\ request[r].from \in Terminal
          /\ request[r].n \in Counter
      BY <1>1 DEF Push
    <3>2. Concurrent(request[r].read, Stamp(request[r].from, request[r].n))
      BY DEF JudgeFlag, Incoming
    <3> QED BY <3>1, <3>2, <2>1, <1>8, FlaggedJoins DEF Good
  <2> HIDE DEF q2, req2
  <2> QED BY <1>5, <2>1, <2>2, <2>3 DEF Good
<1>11. \A s \in Request : Good(req2, rows', kind, req2[s])
  <2> HIDE DEF q2
  <2> QED BY <1>1, <1>2, <1>4, <1>5, <1>6, <1>8, <1>10, OneMoves
<1>12. TypeOK'
  <2>1. row \in [id : Request \X Counter, from : Terminal, stored : Vector,
                 incoming : Counter,
                 resolution : {"open", "keep_stored", "keep_incoming"}]
    BY <1>1 DEF Push
  <2> HIDE DEF q2, req2, row
  <2> QED BY <1>1, <1>3, <1>7, <2>1 DEF TypeOK, Push
<1>13. AwaitsOwn'
  <2> HIDE DEF q2, req2, row
  <2> QED BY <1>1, <1>2, <1>3, <1>7, <1>9, AwaitsKept DEF TypeOK
<1>14. StoredGood'
  <2>1. \A v \in Vector : Known(request, v) => Known(req2, v)
    BY <1>1, <1>7, <1>9, KnownKept
  <2>2. OneUnflagged(rows, vector) => OneUnflagged(rows', vector)
    BY <1>9, OneUnflaggedKept
  <2>3. vector \in Vector /\ row.stored = request[r].read
        /\ request[r].read \in Vector /\ \A x \in rows : x.stored \in Vector
    BY <1>1 DEF TypeOK, Push
  <2>4. Known(request, request[r].read)
    BY <1>2 DEF Good
  <2> HIDE DEF q2, req2, row
  <2>5. \A x \in rows' : Known(req2, x.stored)
    BY <1>2, <1>3, <2>1, <2>3, <2>4 DEF StoredGood
  <2> QED BY <1>2, <1>3, <2>1, <2>2, <2>3, <2>5 DEF StoredGood
<1> QED BY <1>3, <1>11, <1>12, <1>13, <1>14 DEF Inv

\* Saving may move the vector back, never to something unaccounted for.
LEMMA SaveInv ==
    ASSUME Inv, NEW r \in Request, Save(r)
    PROVE  Inv'
<1> DEFINE q2 == NextItem(request[r])
<1> DEFINE v2 == Observe(request[r].read, Stamp(request[r].from, request[r].n))
<1>1. request \in [Request -> Push] /\ TypeOK /\ request[r] \in Push
  BY DEF Inv, TypeOK, Push
<1>2. Good(request, rows, kind, request[r]) /\ StoredGood /\ AwaitsOwn
      /\ InsideItems(request[r])
      /\ \A s \in Request : Good(request, rows, kind, request[s])
  BY DEF Inv, Good
<1>3. /\ request' = [request EXCEPT ![r] = q2] /\ request[r].phase = "save"
      /\ kind' = kind /\ clock' = clock /\ awaits' = awaits /\ vector' = v2
      /\ rows' = rows /\ items' = items /\ faults' = faults
  BY <1>1 DEF Save, Incoming
<1>4. /\ q2 \in Push /\ q2.from = request[r].from /\ q2.last = request[r].last
      /\ q2.read = Zero /\ q2.phase # "save" /\ InsideItems(q2)
  BY <1>1, <1>2, <1>3, NextItemShape
<1> HIDE DEF q2
<1>5. request[r].last <= q2.last
  <2>1. request[r].last \in Nat
    BY <1>1, VectorTypes DEF Push
  <2> QED BY <2>1, <1>4
<1>6. \A x \in rows : \E y \in rows' : y.from = x.from /\ y.incoming = x.incoming
  BY <1>3
<1>7. Good([request EXCEPT ![r] = q2], rows', kind, q2)
  BY <1>4, NothingRead
<1>8. /\ request' \in [Request -> Push]
      /\ Grows(request, rows, request', rows')
      /\ \A s \in Request : Good(request', rows', kind', request'[s])
  BY <1>1, <1>2, <1>3, <1>4, <1>5, <1>6, <1>7, OneMoves
<1>9. v2 \in Vector /\ Known(request, v2)
  <2>1. request[r].read \in Vector /\ Known(request, request[r].read)
    BY <1>1, <1>2 DEF Push, Good
  <2>2. /\ Stamp(request[r].from, request[r].n) \in Vector
        /\ Known(request, Stamp(request[r].from, request[r].n))
    BY <1>1, <1>2, IncomingKnown
  <2> QED BY <2>1, <2>2, VectorTypes, ObserveKnown
<1>10. kind = "money" => OneUnflagged(rows, v2)
  BY <1>2, <1>3 DEF Good
<1> HIDE DEF v2
<1>11. TypeOK'
  BY <1>1, <1>3, <1>8, <1>9 DEF TypeOK, Push
<1>12. AwaitsOwn'
  BY <1>1, <1>2, <1>3, <1>8, AwaitsKept DEF TypeOK
<1>13. StoredGood'
  <2>1. \A v \in Vector : Known(request, v) => Known(request', v)
    BY <1>1, <1>8, KnownKept
  <2>2. \A x \in rows : x.stored \in Vector
    BY <1>1 DEF TypeOK
  <2> QED BY <1>2, <1>3, <1>9, <1>10, <2>1, <2>2 DEF StoredGood
<1> QED BY <1>8, <1>11, <1>12, <1>13 DEF Inv

\* A decision changes a row's resolution and nothing else of it.
LEMMA DecidedShape ==
    ASSUME TypeOK, NEW x \in rows, NEW decision \in {"keep_stored", "keep_incoming"}
    PROVE  /\ Decided(x, decision).id = x.id
           /\ Decided(x, decision).from = x.from
           /\ Decided(x, decision).stored = x.stored
           /\ Decided(x, decision).incoming = x.incoming
           /\ Decided(x, decision) \in
                [id : Request \X Counter, from : Terminal, stored : Vector,
                 incoming : Counter,
                 resolution : {"open", "keep_stored", "keep_incoming"}]
BY DEF Decided, TypeOK

LEMMA ResolveInv ==
    ASSUME Inv, NEW x \in rows, NEW decision \in {"keep_stored", "keep_incoming"},
           Resolve(x, decision)
    PROVE  Inv'
<1> DEFINE y == Decided(x, decision)
<1>1. request \in [Request -> Push] /\ TypeOK /\ StoredGood /\ AwaitsOwn
      /\ \A s \in Request : Good(request, rows, kind, request[s])
  BY DEF Inv, TypeOK, Push
<1>2. /\ rows' = (rows \ {x}) \cup {y} /\ request' = request
      /\ kind' = kind /\ clock' = clock /\ awaits' = awaits /\ vector' = vector
      /\ items' = items /\ faults' = faults
  BY DEF Resolve
<1>3. y.from = x.from /\ y.incoming = x.incoming /\ y.stored = x.stored
      /\ y \in [id : Request \X Counter, from : Terminal, stored : Vector,
                incoming : Counter,
                resolution : {"open", "keep_stored", "keep_incoming"}]
  BY <1>1, DecidedShape
<1> HIDE DEF y
<1>4. TypeOK'
  BY <1>1, <1>2, <1>3 DEF TypeOK
<1>5. Grows(request, rows, request', rows')
  <2>1. \A z \in rows : \E w \in rows' : w.from = z.from /\ w.incoming = z.incoming
    BY <1>2, <1>3
  <2>2. \A r \in Request : request[r].last <= request[r].last
    <3>1. \A r \in Request : request[r].last \in Nat
      BY <1>1, VectorTypes DEF Push
    <3> QED BY <3>1
  <2> QED BY <1>2, <2>1, <2>2 DEF Grows
<1>6. StoredGood'
  <2>1. \A z \in rows' : z.stored \in {w.stored : w \in rows}
    BY <1>2, <1>3
  <2> QED BY <1>1, <1>2, <1>5, <2>1, StoredKept
<1>7. AwaitsOwn'
  BY <1>1, <1>2 DEF AwaitsOwn
<1>8. \A s \in Request : Good(request', rows', kind', request'[s])
  <2> TAKE s \in Request
  <2>1. request[s] \in Push /\ Good(request, rows, kind, request[s])
    BY <1>1
  <2> QED BY <1>1, <1>2, <1>5, <2>1, GoodKept
<1> QED BY <1>4, <1>6, <1>7, <1>8 DEF Inv

-----------------------------------------------------------------------------
(* The theorems                                                            *)

LEMMA StepInv == Inv /\ [Next]_vars => Inv'
<1> SUFFICES ASSUME Inv, [Next]_vars PROVE Inv'
  OBVIOUS
<1>1. ASSUME NEW t \in Terminal, NEW r \in Request, NEW k \in 1 .. MaxItems,
             Send(t, r, k) \/ SendUnseeded(t, r, k)
      PROVE  Inv'
  <2>1. clock[t] \in Counter /\ 0 \in Counter /\ faults \in 0 .. MaxFaults
    BY VectorTypes DEF Inv, TypeOK
  <2>2. CASE Send(t, r, k)
    BY <2>1, <2>2, SendInv DEF Send
  <2>3. CASE SendUnseeded(t, r, k)
    <3>1. faults' \in 0 .. MaxFaults
      BY <2>1, <2>3, DetectorAssumption DEF SendUnseeded, Fault
    <3> QED BY <2>1, <2>3, <3>1, SendInv DEF SendUnseeded
  <2> QED BY <1>1, <2>2, <2>3
<1>2. ASSUME NEW t \in Terminal, Answered(t) \/ Unanswered(t) PROVE Inv'
  BY <1>2, TickInv
<1>3. ASSUME NEW r \in Request, Drop(r) \/ JudgeStale(r) \/ Fail(r) PROVE Inv'
  BY <1>3, ForgetInv
<1>4. ASSUME NEW r \in Request, Load(r) \/ Misread(r) PROVE Inv'
  <2>1. faults' \in 0 .. MaxFaults
    BY <1>4, DetectorAssumption DEF Load, Misread, Fault, Inv, TypeOK
  <2>2. CASE Load(r)
    BY <2>1, <2>2, LoadInv DEF Load
  <2>3. CASE Misread(r)
    BY <2>1, <2>3, LoadInv DEF Misread
  <2> QED BY <1>4, <2>2, <2>3
<1>5. ASSUME NEW r \in Request, JudgeApply(r) PROVE Inv'
  BY <1>5, ApplyInv
<1>6. ASSUME NEW r \in Request, JudgeFlag(r) PROVE Inv'
  BY <1>6, FlagInv
<1>7. ASSUME NEW r \in Request, Save(r) PROVE Inv'
  BY <1>7, SaveInv
<1>8. ASSUME NEW x \in rows, NEW decision \in {"keep_stored", "keep_incoming"},
             Resolve(x, decision)
      PROVE  Inv'
  BY <1>8, ResolveInv
<1>9. CASE UNCHANGED vars
  BY <1>9 DEF vars, Inv, TypeOK, AwaitsOwn, StoredGood
<1> QED BY <1>1, <1>2, <1>3, <1>4, <1>5, <1>6, <1>7, <1>8, <1>9 DEF Next

LEMMA Invariance == Spec => []Inv
BY InitInv, StepInv, PTL DEF Spec

\* The types of the tables and of the pushes under way.
THEOREM TypesHold == Spec => []TypeOK
<1>1. Inv => TypeOK
  BY DEF Inv
<1> QED BY <1>1, Invariance, PTL

\* detect_conflict puts every money movement that joins another terminal's in
\* the vector before a manager, however many requests read the vector before one
\* of them saves it, and however many of them fail to read it.
THEOREM DivergentMoneyIsFlagged == Spec => []LateComersAreFlagged
<1>1. Inv => LateComersAreFlagged
  BY DEF Inv, StoredGood, OneUnflagged, InRow, LateComersAreFlagged, Flagged
<1> QED BY <1>1, Invariance, PTL

\* Merging and overwriting vectors never yields a counter nobody stamped.
THEOREM HistoryIsReal == Spec => []NothingInvented
<1>1. Inv => NothingInvented
  BY DEF Inv, StoredGood, Known, NothingInvented, Stamped
<1> QED BY <1>1, Invariance, PTL

\* resolve_conflict decides an open row once.
THEOREM DecisionsAreFinal == Spec => DecisionStands
<1>1. Inv /\ [Next]_vars =>
        [\A x \in rows : \E y \in rows' :
            y.id = x.id /\ (x.resolution = "open" \/ y = x)]_vars
  <2> SUFFICES ASSUME Inv, Next, NEW x \in rows
               PROVE  \E y \in rows' : y.id = x.id /\ (x.resolution = "open" \/ y = x)
    OBVIOUS
  <2>1. ASSUME NEW z \in rows, NEW decision \in {"keep_stored", "keep_incoming"},
               Resolve(z, decision)
        PROVE  \E y \in rows' : y.id = x.id /\ (x.resolution = "open" \/ y = x)
    <3>1. Decided(z, decision).id = z.id
      BY DecidedShape DEF Inv
    <3>2. /\ z.resolution = "open" /\ Decided(z, decision) \in rows'
          /\ x # z => x \in rows'
      BY <2>1 DEF Resolve
    <3> QED BY <3>1, <3>2
  <2>2. ASSUME rows \subseteq rows'
        PROVE  \E y \in rows' : y.id = x.id /\ (x.resolution = "open" \/ y = x)
    BY <2>2
  <2>3. ASSUME NEW t \in Terminal,
               \/ \E r \in Request, k \in 1 .. MaxItems :
                     Send(t, r, k) \/ SendUnseeded(t, r, k)
               \/ Answered(t) \/ Unanswered(t)
        PROVE  rows \subseteq rows'
    <3>1. ASSUME NEW r \in Request, NEW k \in 1 .. MaxItems,
                 Send(t, r, k) \/ SendUnseeded(t, r, k)
          PROVE  rows' = rows
      BY <3>1 DEF Send, SendUnseeded, PushItems
    <3>2. CASE Answered(t) \/ Unanswered(t)
      BY <3>2 DEF Answered, Unanswered
    <3> QED BY <2>3, <3>1, <3>2
  <2>4. CASE \E r \in Request :
              \/ Drop(r) \/ Load(r) \/ Misread(r) \/ JudgeStale(r) \/ JudgeApply(r)
              \/ JudgeFlag(r) \/ Save(r) \/ Fail(r)
    BY <2>2, <2>4
       DEF Drop, Load, Misread, JudgeStale, JudgeApply, JudgeFlag, Save, Fail
  <2> QED BY <2>1, <2>2, <2>3, <2>4 DEF Next
<1> QED BY <1>1, Invariance, PTL DEF Spec, DecisionStands

\* The push a tick waits for was stamped from its clock on.
Seeded ==
    \A t \in Terminal : awaits[t] # NoRequest => clock[t] <= request[awaits[t]].last

\* A step that stamps nothing from a lost seed keeps it so, and moves no clock
\* back.
LEMMA SeededStep ==
    ASSUME Inv, Inv', Seeded, [Next]_vars,
           \A t \in Terminal, r \in Request, k \in 1 .. MaxItems : ~SendUnseeded(t, r, k)
    PROVE  Seeded' /\ \A t \in Terminal : clock[t] <= clock'[t]
<1>1. /\ request \in [Request -> Push] /\ request' \in [Request -> Push]
      /\ clock \in [Terminal -> Counter] /\ awaits \in [Terminal -> Request \cup {NoRequest}]
      /\ \A t \in Terminal : clock[t] \in Nat
      /\ \A r \in Request : request[r].last \in Nat /\ request'[r].last \in Nat
      /\ NoRequest \notin Request
  BY VectorTypes, DetectorAssumption DEF Inv, TypeOK, Push
<1>2. ASSUME clock' = clock, awaits' = awaits,
             \A r \in Request : request[r].last <= request'[r].last
      PROVE  Seeded' /\ \A t \in Terminal : clock[t] <= clock'[t]
  BY <1>1, <1>2 DEF Seeded
<1>3. ASSUME clock' = clock, awaits' = awaits, NEW r \in Request, NEW q2,
             request' = [request EXCEPT ![r] = q2], q2.last = request[r].last
      PROVE  Seeded' /\ \A t \in Terminal : clock[t] <= clock'[t]
  <2>1. \A s \in Request : request'[s].last = request[s].last
    BY <1>1, <1>3
  <2> QED BY <1>1, <1>2, <1>3, <2>1
<1>4. ASSUME NEW t \in Terminal, NEW r \in Request, NEW k \in 1 .. MaxItems, Send(t, r, k)
      PROVE  Seeded' /\ \A u \in Terminal : clock[u] <= clock'[u]
  <2> DEFINE q2 == [request[r] EXCEPT !.phase = "load", !.n = clock[t] + 1,
                                      !.last = clock[t] + k]
  <2>1. /\ request' = [request EXCEPT ![r] = q2] /\ request[r].from = t
        /\ clock' = clock /\ awaits' = [awaits EXCEPT ![t] = r]
    BY <1>1, <1>4 DEF Send, PushItems
  <2>2. request'[r].last = clock[t] + k
    BY <1>1, <2>1 DEF Push
  <2>3. \A s \in Request \ {r} : request'[s] = request[s]
    BY <1>1, <2>1
  <2> HIDE DEF q2
  <2>4. ASSUME NEW u \in Terminal, awaits'[u] # NoRequest
        PROVE  clock'[u] <= request'[awaits'[u]].last
    <3>1. CASE u = t
      BY <1>1, <2>1, <2>2, <3>1
    <3>2. CASE u # t
      <4>1. awaits'[u] = awaits[u] /\ awaits[u] \in Request /\ request[awaits[u]].from = u
        BY <1>1, <2>1, <2>4, <3>2 DEF Inv, AwaitsOwn
      <4>2. awaits[u] # r
        BY <2>1, <3>2, <4>1
      <4> QED BY <2>1, <2>3, <2>4, <4>1, <4>2 DEF Seeded
    <3> QED BY <3>1, <3>2
  <2> QED BY <1>1, <2>1, <2>4 DEF Seeded
<1>5. ASSUME NEW t \in Terminal, Answered(t) \/ Unanswered(t)
      PROVE  Seeded' /\ \A u \in Terminal : clock[u] <= clock'[u]
  <2>1. /\ awaits[t] # NoRequest /\ awaits[t] \in Request /\ request' = request
        /\ awaits' = [awaits EXCEPT ![t] = NoRequest]
        /\ clock[t] <= request[awaits[t]].last
    BY <1>1, <1>5 DEF Answered, Unanswered, Seeded
  <2>2. \A u \in Terminal : clock[u] <= clock'[u]
    <3>1. CASE Answered(t)
      BY <1>1, <2>1, <3>1 DEF Answered
    <3>2. CASE Unanswered(t)
      BY <1>1, <3>2 DEF Unanswered
    <3> QED BY <1>5, <3>1, <3>2
  <2>3. \A u \in Terminal \ {t} : clock'[u] = clock[u] /\ awaits'[u] = awaits[u]
    BY <1>1, <1>5, <2>1 DEF Answered, Unanswered
  <2>4. awaits'[t] = NoRequest
    BY <1>1, <2>1
  <2> QED BY <2>1, <2>2, <2>3, <2>4 DEF Seeded
<1>6. ASSUME NEW r \in Request,
             Drop(r) \/ Load(r) \/ Misread(r) \/ JudgeApply(r) \/ JudgeFlag(r)
      PROVE  Seeded' /\ \A t \in Terminal : clock[t] <= clock'[t]
  <2>1. \A s \in Request : request'[s].last = request[s].last
    BY <1>1, <1>6 DEF Drop, Load, Misread, JudgeApply, JudgeFlag, Push
  <2>2. clock' = clock /\ awaits' = awaits
    BY <1>6 DEF Drop, Load, Misread, JudgeApply, JudgeFlag
  <2> QED BY <1>1, <1>2, <2>1, <2>2
<1>7. ASSUME NEW r \in Request, JudgeStale(r) \/ Save(r) \/ Fail(r)
      PROVE  Seeded' /\ \A t \in Terminal : clock[t] <= clock'[t]
  <2>1. request' = [request EXCEPT ![r] = NextItem(request[r])]
        /\ clock' = clock /\ awaits' = awaits
    BY <1>1, <1>7 DEF JudgeStale, Save, Fail
  <2>2. NextItem(request[r]).last = request[r].last
    BY <1>1 DEF NextItem, Push
  <2> QED BY <1>3, <2>1, <2>2
<1>8. ASSUME UNCHANGED <<clock, awaits, request>>
      PROVE  Seeded' /\ \A t \in Terminal : clock[t] <= clock'[t]
  BY <1>1, <1>8 DEF Seeded
<1>9. ASSUME NEW x \in rows, NEW decision \in {"keep_stored", "keep_incoming"},
             Resolve(x, decision)
      PROVE  Seeded' /\ \A t \in Terminal : clock[t] <= clock'[t]
  BY <1>8, <1>9 DEF Resolve
<1>10. CASE UNCHANGED vars
  BY <1>8, <1>10 DEF vars
<1> QED BY <1>4, <1>5, <1>6, <1>7, <1>9, <1>10, Zenon DEF Next

\* As long as every push is seeded from the persisted clock no order of answers,
\* lost answers and overlaps takes a clock back: only a seed that could not be
\* read does.
THEOREM ClocksAdvance == Spec /\ SeedsAreRead => ClockNeverRewinds
<1>1. Init => Seeded
  BY DEF Init, Seeded
<1>2. Inv /\ Inv' /\ Seeded /\ [Next]_vars
        /\ [\A t \in Terminal, r \in Request, k \in 1 .. MaxItems :
               ~SendUnseeded(t, r, k)]_vars
        => Seeded' /\ [\A t \in Terminal : clock[t] <= clock'[t]]_vars
  <2>1. CASE UNCHANGED vars
    BY <2>1 DEF vars, Seeded
  <2>2. CASE ~UNCHANGED vars
    BY <2>2, SeededStep, Zenon
  <2> QED BY <2>1, <2>2
<1> QED BY <1>1, <1>2, Invariance, PTL DEF Spec, SeedsAreRead, ClockNeverRewinds

-----------------------------------------------------------------------------
(* What the overlap costs                                                  *)

\* What the server holds of the vector is the vector.
Current == \A r \in Request : Reading(r) => request[r].read = vector

\* A saved reading that is current does not take the vector back.
LEMMA ObserveAdvances ==
    ASSUME NEW v \in Vector, NEW t \in Terminal, NEW n \in Counter
    PROVE  Leq(v, Observe(v, Stamp(t, n)))
<1>1. Stamp(t, n) \in Vector
  BY VectorTypes
<1>2. \A u \in Terminal : v[u] \in Nat /\ Stamp(t, n)[u] \in Nat
  BY <1>1, VectorTypes DEF Vector
<1>3. \A u \in Terminal : v[u] <= Observe(v, Stamp(t, n))[u]
  BY <1>2 DEF Observe
<1> QED BY <1>3 DEF Leq

\* A vector is at most itself.
LEMMA LeqSelf ==
    ASSUME NEW v \in Vector
    PROVE  Leq(v, v)
<1>1. \A t \in Terminal : v[t] \in Nat
  BY VectorTypes DEF Vector
<1> QED BY <1>1 DEF Leq

\* One push moves on and neither it nor another holds an older reading.
LEMMA CurrentMove ==
    ASSUME TypeOK, NEW r \in Request, NEW q2,
           request' = [request EXCEPT ![r] = q2],
           \A s \in Request \ {r} : Reading(s) => request[s].read = vector',
           q2.phase \in {"judge", "save"} => q2.read = vector'
    PROVE  Current'
<1>1. request'[r] = q2 /\ \A s \in Request \ {r} : request'[s] = request[s]
  BY DEF TypeOK
<1>2. \A s \in Request : request'[s].phase \in {"judge", "save"}
                            => request'[s].read = vector'
  BY <1>1 DEF Reading
<1> QED BY <1>2 DEF Current, Reading

\* After its item a push holds no reading.
LEMMA NextItemHoldsNothing ==
    ASSUME NEW q \in Push
    PROVE  NextItem(q).phase \in {"load", "done"}
BY DEF NextItem, Push

\* With one push at a time readings stay current and no save goes back.
LEMMA AdvanceStep ==
    ASSUME Inv, Current, OneAtATime, [Next]_vars, \A r \in Request : ~Misread(r)
    PROVE  Current' /\ Leq(vector, vector')
<1>1. /\ request \in [Request -> Push] /\ vector \in Vector
      /\ awaits \in [Terminal -> Request \cup {NoRequest}] /\ TypeOK
  BY DEF Inv, TypeOK, Push
<1>2. Leq(vector, vector)
  BY <1>1, LeqSelf
<1>3. \A q \in Push : NextItem(q).phase \in {"load", "done"}
  BY NextItemHoldsNothing
<1>4. ASSUME NEW r \in Request, NEW q2, vector' = vector,
             request' = [request EXCEPT ![r] = q2],
             q2.phase \in {"judge", "save"} => q2.read = vector
      PROVE  Current' /\ Leq(vector, vector')
  <2>1. Current'
    BY <1>1, <1>4, CurrentMove DEF Current
  <2> QED BY <2>1, <1>2, <1>4
<1>5. ASSUME UNCHANGED <<request, vector>>
      PROVE  Current' /\ Leq(vector, vector')
  BY <1>2, <1>5 DEF Current, Reading
<1>6. ASSUME NEW t \in Terminal, NEW r \in Request, NEW k \in 1 .. MaxItems,
             Send(t, r, k) \/ SendUnseeded(t, r, k)
      PROVE  Current' /\ Leq(vector, vector')
  <2> SUFFICES ASSUME NEW seed, PushItems(t, r, k, seed)
               PROVE  Current' /\ Leq(vector, vector')
    BY <1>6 DEF Send, SendUnseeded
  <2> DEFINE q2 == [request[r] EXCEPT !.phase = "load", !.n = seed + 1,
                                      !.last = seed + k]
  <2>1. request' = [request EXCEPT ![r] = q2] /\ vector' = vector
    BY <1>1 DEF PushItems
  <2>2. q2.phase = "load"
    BY <1>1 DEF Push
  <2> QED BY <2>1, <2>2, <1>4
<1>7. ASSUME NEW r \in Request, Drop(r) PROVE Current' /\ Leq(vector, vector')
  <2> DEFINE q2 == [request[r] EXCEPT !.phase = "lost"]
  <2>1. request' = [request EXCEPT ![r] = q2] /\ vector' = vector
    BY <1>1, <1>7 DEF Drop
  <2>2. q2.phase = "lost"
    BY <1>1 DEF Push
  <2> QED BY <2>1, <2>2, <1>4
<1>8. ASSUME NEW r \in Request, Load(r) PROVE Current' /\ Leq(vector, vector')
  <2> DEFINE q2 == [request[r] EXCEPT !.phase = "judge", !.read = vector]
  <2>1. request' = [request EXCEPT ![r] = q2] /\ vector' = vector
    BY <1>1, <1>8 DEF Load
  <2>2. q2.read = vector
    BY <1>1 DEF Push
  <2> QED BY <2>1, <2>2, <1>4
<1>9. ASSUME NEW r \in Request, JudgeStale(r) \/ Fail(r)
      PROVE  Current' /\ Leq(vector, vector')
  <2>1. request' = [request EXCEPT ![r] = NextItem(request[r])] /\ vector' = vector
    BY <1>1, <1>9 DEF JudgeStale, Fail
  <2>2. NextItem(request[r]).phase \in {"load", "done"}
    BY <1>1, <1>3
  <2> QED BY <2>1, <2>2, <1>4
<1>10. ASSUME NEW r \in Request, JudgeApply(r) \/ JudgeFlag(r)
       PROVE  Current' /\ Leq(vector, vector')
  <2> DEFINE q2 == [request[r] EXCEPT !.phase = "save"]
  <2>1. request' = [request EXCEPT ![r] = q2] /\ vector' = vector /\ Reading(r)
    BY <1>1, <1>10 DEF JudgeApply, JudgeFlag, Reading
  <2>2. q2.read = vector
    BY <1>1, <2>1 DEF Push, Current
  <2> QED BY <2>1, <2>2, <1>4
<1>11. ASSUME NEW r \in Request, Save(r) PROVE Current' /\ Leq(vector, vector')
  <2>1. /\ request' = [request EXCEPT ![r] = NextItem(request[r])]
        /\ vector' = Observe(request[r].read, Stamp(request[r].from, request[r].n))
        /\ Reading(r)
    BY <1>1, <1>11 DEF Save, Incoming, Reading
  <2>2. \A s \in Request \ {r} : ~Reading(s)
    BY <2>1 DEF OneAtATime
  <2>3. NextItem(request[r]).phase \in {"load", "done"}
    BY <1>1, <1>3
  <2>4. Current'
    BY <1>1, <2>1, <2>2, <2>3, CurrentMove
  <2>5. request[r].read = vector
    BY <2>1 DEF Current
  <2>6. request[r].from \in Terminal /\ request[r].n \in Counter
    BY <1>1 DEF Push
  <2> QED BY <1>1, <2>1, <2>4, <2>5, <2>6, ObserveAdvances
<1>12. ASSUME NEW t \in Terminal, Answered(t) \/ Unanswered(t)
       PROVE  Current' /\ Leq(vector, vector')
  BY <1>5, <1>12 DEF Answered, Unanswered
<1>13. ASSUME NEW x \in rows, NEW decision \in {"keep_stored", "keep_incoming"},
              Resolve(x, decision)
       PROVE  Current' /\ Leq(vector, vector')
  BY <1>5, <1>13 DEF Resolve
<1>14. CASE UNCHANGED vars
  BY <1>5, <1>14 DEF vars
<1> QED
  BY <1>6, <1>7, <1>8, <1>9, <1>10, <1>11, <1>12, <1>13, <1>14, Zenon DEF Next

\* detect_conflict loses an observed counter only to an overlap or to a read that
\* fails: while one push at a time is between its load and its save, and every
\* load succeeds, the stored vector advances with every save, whatever is lost,
\* repeated, stamped again from nothing or fails half way.
THEOREM OneAtATimeAdvances ==
    Spec /\ []OneAtATime /\ VectorsAreRead => VectorNeverGoesBack
<1>1. Init => Current
  <2>1. Init => \A r \in Request : request[r].phase = "unsent"
    BY DEF Init, Unsent
  <2> QED BY <2>1 DEF Current, Reading
<1>2. Inv /\ Current /\ OneAtATime /\ [Next]_vars /\ [\A r \in Request : ~Misread(r)]_vars
        => Current' /\ [Leq(vector, vector')]_vars
  <2>1. CASE UNCHANGED vars
    BY <2>1 DEF vars, Current, Reading
  <2>2. CASE ~UNCHANGED vars
    BY <2>2, AdvanceStep, Zenon
  <2> QED BY <2>1, <2>2
<1> QED BY <1>1, <1>2, Invariance, PTL DEF Spec, VectorNeverGoesBack, VectorsAreRead

\* A push that shares the detector with no other is at an item the vector does
\* not hold yet; what it is about to save unflagged joins nobody.
Fresh(r) ==
    LET q == request[r] IN
    /\ q.phase \in {"load", "judge", "save"} =>
          awaits[q.from] = r /\ vector[q.from] < q.n
    /\ q.phase = "done" => 0 < vector[q.from]
    /\ kind = "money" /\ q.phase = "save" =>
          \/ \E x \in rows : x.id[1] = r
          \/ \A u \in Terminal \ {q.from} : vector[u] = 0

\* The vector holds of a terminal what its clock accounts for, or will when the
\* answer it waits for arrives.
Accounted(t) ==
    /\ awaits[t] = NoRequest => vector[t] <= clock[t]
    /\ awaits[t] # NoRequest /\ request[awaits[t]].phase = "done" =>
          vector[t] <= request[awaits[t]].last

Alone ==
    /\ Current
    /\ \A r \in Request : Fresh(r)
    /\ \A t \in Terminal : Accounted(t)
    /\ DivergentMoneyIsARow

LEMMA AloneInit == Init => Alone
<1> SUFFICES ASSUME Init PROVE Alone
  OBVIOUS
<1>1. /\ \A r \in Request : request[r].phase = "unsent"
      /\ \A t \in Terminal : /\ awaits[t] = NoRequest /\ clock[t] = 0 /\ vector[t] = 0
  BY DEF Init, Unsent, Zero
<1>2. Current /\ DivergentMoneyIsARow /\ \A r \in Request : Fresh(r)
  BY <1>1 DEF Current, Reading, DivergentMoneyIsARow, Fresh
<1> QED BY <1>1, <1>2 DEF Alone, Accounted

\* What the steps below need of the types.
LEMMA AloneTypes ==
    ASSUME Inv
    PROVE  /\ request \in [Request -> Push] /\ vector \in Vector /\ TypeOK
           /\ awaits \in [Terminal -> Request \cup {NoRequest}]
           /\ clock \in [Terminal -> Counter] /\ NoRequest \notin Request
           /\ \A t \in Terminal : vector[t] \in Nat /\ clock[t] \in Nat
           /\ \A r \in Request : /\ request[r].from \in Terminal
                                 /\ request[r].n \in Nat /\ request[r].last \in Nat
                                 /\ request[r].n \in Counter
                                 /\ request[r].read \in Vector
                                 /\ InsideItems(request[r])
           /\ \A t \in Terminal : awaits[t] # NoRequest =>
                 awaits[t] \in Request /\ request[awaits[t]].from = t
<1>1. /\ request \in [Request -> Push] /\ vector \in Vector /\ TypeOK
      /\ awaits \in [Terminal -> Request \cup {NoRequest}]
      /\ clock \in [Terminal -> Counter] /\ NoRequest \notin Request
  BY DetectorAssumption DEF Inv, TypeOK, Push
<1>2. \A t \in Terminal : vector[t] \in Nat /\ clock[t] \in Nat
  BY <1>1, VectorTypes DEF Vector
<1>3. \A r \in Request : /\ request[r].from \in Terminal
                         /\ request[r].n \in Nat /\ request[r].last \in Nat
                         /\ request[r].n \in Counter
                         /\ request[r].read \in Vector
  BY <1>1, VectorTypes DEF Push
<1>4. \A r \in Request : InsideItems(request[r])
  BY DEF Inv, Good
<1>5. \A t \in Terminal : awaits[t] # NoRequest =>
         awaits[t] \in Request /\ request[awaits[t]].from = t
  BY <1>1 DEF Inv, AwaitsOwn
<1> QED BY <1>1, <1>2, <1>3, <1>4, <1>5

\* A push is sent: its first item is past what the clock accounts for.
LEMMA AloneSend ==
    ASSUME Inv, Alone, NEW t \in Terminal, NEW r \in Request, NEW k \in 1 .. MaxItems,
           Send(t, r, k)
    PROVE  Alone'
<1> DEFINE q2 == [request[r] EXCEPT !.phase = "load", !.n = clock[t] + 1,
                                    !.last = clock[t] + k]
<1>1. /\ request' = [request EXCEPT ![r] = q2]
      /\ request[r].phase = "unsent" /\ request[r].from = t
      /\ awaits[t] = NoRequest /\ awaits' = [awaits EXCEPT ![t] = r]
      /\ clock' = clock /\ vector' = vector /\ rows' = rows /\ kind' = kind
  BY DEF Send, PushItems
<1>2. request'[r] = q2 /\ \A s \in Request \ {r} : request'[s] = request[s]
  BY <1>1, AloneTypes
<1>3. q2.phase = "load" /\ q2.from = t /\ q2.n = clock[t] + 1
  BY <1>1, AloneTypes DEF Push
<1> HIDE DEF q2
<1>4. awaits'[t] = r /\ \A u \in Terminal \ {t} : awaits'[u] = awaits[u]
  BY <1>1, AloneTypes
<1>5. Current'
  BY <1>1, <1>2, <1>3 DEF Alone, Current, Reading
<1>6. ASSUME NEW s \in Request PROVE Fresh(s)'
  <2>1. CASE s = r
    <3>1. vector[t] < clock[t] + 1
      BY <1>1, AloneTypes DEF Alone, Accounted
    <3> QED BY <1>1, <1>2, <1>3, <1>4, <2>1, <3>1 DEF Fresh
  <2>2. CASE s # r
    <3>1. request'[s] = request[s] /\ Fresh(s)
      BY <1>2, <2>2 DEF Alone
    <3>2. request[s].phase \in {"load", "judge", "save"} => request[s].from # t
      BY <1>1, <3>1, AloneTypes DEF Fresh
    <3>3. request[s].from \in Terminal
      BY AloneTypes
    <3> QED BY <1>1, <1>4, <3>1, <3>2, <3>3 DEF Fresh
  <2> QED BY <2>1, <2>2
<1>7. ASSUME NEW u \in Terminal PROVE Accounted(u)'
  <2>1. CASE u = t
    BY <1>1, <1>2, <1>3, <1>4, <2>1, AloneTypes DEF Accounted
  <2>2. CASE u # t
    <3>1. awaits'[u] = awaits[u] /\ Accounted(u)
      BY <1>4, <2>2 DEF Alone
    <3>2. awaits[u] # NoRequest => request'[awaits[u]] = request[awaits[u]]
      BY <1>1, <1>2, <2>2, AloneTypes
    <3> QED BY <1>1, <3>1, <3>2 DEF Accounted
  <2> QED BY <2>1, <2>2
<1>8. DivergentMoneyIsARow'
  <2>1. \A s \in Request : request'[s].phase = "done" => request'[s] = request[s]
    BY <1>2, <1>3
  <2> QED BY <1>1, <2>1 DEF Alone, DivergentMoneyIsARow
<1> QED BY <1>5, <1>6, <1>7, <1>8 DEF Alone

\* The answer: the clock takes over what the push accounted for.
LEMMA AloneAnswered ==
    ASSUME Inv, Alone, NEW t \in Terminal, Answered(t)
    PROVE  Alone'
<1>1. /\ awaits[t] # NoRequest /\ request[awaits[t]].phase = "done"
      /\ clock'[t] = request[awaits[t]].last /\ awaits'[t] = NoRequest
      /\ \A u \in Terminal \ {t} : clock'[u] = clock[u] /\ awaits'[u] = awaits[u]
      /\ request' = request /\ vector' = vector /\ rows' = rows /\ kind' = kind
  BY AloneTypes DEF Answered
<1>2. Current' /\ DivergentMoneyIsARow'
  BY <1>1 DEF Alone, Current, Reading, DivergentMoneyIsARow
<1>3. ASSUME NEW s \in Request PROVE Fresh(s)'
  <2>1. Fresh(s) /\ request[s].from \in Terminal
    BY AloneTypes DEF Alone
  <2>2. request[s].phase \in {"load", "judge", "save"} => request[s].from # t
    BY <1>1, <2>1 DEF Fresh
  <2> QED BY <1>1, <2>1, <2>2 DEF Fresh
<1>4. ASSUME NEW u \in Terminal PROVE Accounted(u)'
  <2>1. Accounted(u)
    BY DEF Alone
  <2> QED BY <1>1, <2>1 DEF Accounted
<1> QED BY <1>2, <1>3, <1>4 DEF Alone

\* One push moves inside its item, reading the vector as it is.
LEMMA AloneMove ==
    ASSUME Inv, Alone, NEW r \in Request, NEW q2 \in Push,
           request[r].phase \in {"load", "judge", "save"},
           request' = [request EXCEPT ![r] = q2],
           q2.phase \in {"judge", "save"}, q2.read = vector,
           q2.from = request[r].from, q2.n = request[r].n,
           kind' = kind, clock' = clock, awaits' = awaits, vector' = vector,
           rows \subseteq rows',
           kind = "money" /\ q2.phase = "save" =>
               \/ \E x \in rows' : x.id[1] = r
               \/ \A u \in Terminal \ {q2.from} : vector[u] = 0
    PROVE  Alone'
<1>1. request'[r] = q2 /\ \A s \in Request \ {r} : request'[s] = request[s]
  BY AloneTypes
<1>2. Current'
  BY <1>1 DEF Alone, Current, Reading
<1>3. ASSUME NEW s \in Request PROVE Fresh(s)'
  <2>1. Fresh(s)
    BY DEF Alone
  <2>2. CASE s = r
    BY <1>1, <2>1, <2>2 DEF Fresh
  <2>3. CASE s # r
    BY <1>1, <2>1, <2>3 DEF Fresh
  <2> QED BY <2>2, <2>3
<1>4. ASSUME NEW u \in Terminal PROVE Accounted(u)'
  <2>1. \A s \in Request : request'[s].phase = "done" => request'[s] = request[s]
    BY <1>1
  <2>2. Accounted(u)
    BY DEF Alone
  <2>3. awaits[u] # NoRequest => awaits[u] \in Request
    BY AloneTypes
  <2> QED BY <2>1, <2>2, <2>3 DEF Accounted
<1>5. DivergentMoneyIsARow'
  <2>1. \A s \in Request : /\ request'[s].from = request[s].from
                           /\ request'[s].phase = "done" => request[s].phase = "done"
    BY <1>1
  <2> QED BY <2>1 DEF Alone, DivergentMoneyIsARow
<1> QED BY <1>2, <1>3, <1>4, <1>5 DEF Alone

LEMMA AloneLoad ==
    ASSUME Inv, Alone, NEW r \in Request, Load(r)
    PROVE  Alone'
<1> DEFINE q2 == [request[r] EXCEPT !.phase = "judge", !.read = vector]
<1>0. request[r] \in Push /\ vector \in Vector
  BY AloneTypes
<1>1. q2 \in Push /\ q2.phase = "judge" /\ q2.read = vector
      /\ q2.from = request[r].from /\ q2.n = request[r].n
  BY <1>0 DEF Push, Phase
<1>2. request' = [request EXCEPT ![r] = q2] /\ request[r].phase = "load"
      /\ kind' = kind /\ clock' = clock /\ awaits' = awaits /\ vector' = vector
      /\ rows' = rows
  BY AloneTypes DEF Load, Push
<1> HIDE DEF q2
<1> QED BY <1>1, <1>2, AloneMove

\* Nothing that comes in is stale.
LEMMA AloneStale ==
    ASSUME Inv, Alone, NEW r \in Request
    PROVE  ~JudgeStale(r)
<1> SUFFICES ASSUME JudgeStale(r) PROVE FALSE
  OBVIOUS
<1>1. request[r].phase = "judge" /\ Leq(Incoming(r), request[r].read)
  BY DEF JudgeStale, After
<1>2. request[r].read = vector /\ vector[request[r].from] < request[r].n
  BY <1>1 DEF Alone, Current, Reading, Fresh
<1>3. Incoming(r)[request[r].from] = request[r].n
  BY AloneTypes, StampAt DEF Incoming
<1>4. request[r].n <= vector[request[r].from]
  BY <1>1, <1>2, <1>3, AloneTypes DEF Leq
<1> QED BY <1>2, <1>4, AloneTypes

\* What is judged at all is a current reading; what is applied without a row
\* joins nobody.
LEMMA AloneJudge ==
    ASSUME Inv, Alone, NEW r \in Request, JudgeApply(r) \/ JudgeFlag(r)
    PROVE  Alone'
<1> DEFINE q2 == [request[r] EXCEPT !.phase = "save"]
<1>1. request[r].phase = "judge" /\ request[r].read = vector
      /\ vector[request[r].from] < request[r].n
  BY DEF JudgeApply, JudgeFlag, Alone, Current, Reading, Fresh
<1>2. q2 \in Push /\ q2.phase = "save" /\ q2.read = vector
      /\ q2.from = request[r].from /\ q2.n = request[r].n
  BY <1>1, AloneTypes DEF Push, Phase
<1>3. request' = [request EXCEPT ![r] = q2]
      /\ kind' = kind /\ clock' = clock /\ awaits' = awaits /\ vector' = vector
      /\ rows \subseteq rows'
  BY AloneTypes DEF JudgeApply, JudgeFlag, Push
<1>4. ASSUME kind = "money"
      PROVE  \/ \E x \in rows' : x.id[1] = r
             \/ \A u \in Terminal \ {request[r].from} : vector[u] = 0
  <2>1. CASE JudgeFlag(r)
    <3> DEFINE x == [id |-> <<r, request[r].n>>, from |-> request[r].from,
                     stored |-> request[r].read, incoming |-> request[r].n,
                     resolution |-> "open"]
    <3>1. x \in rows' /\ x.id[1] = r
      BY <2>1 DEF JudgeFlag
    <3> QED BY <3>1
  <2>2. CASE JudgeApply(r)
    <3>1. ~Concurrent(vector, Incoming(r))
      BY <1>1, <1>4, <2>2 DEF JudgeApply, Mergeable
    <3>2. Incoming(r)[request[r].from] = request[r].n
          /\ \A u \in Terminal \ {request[r].from} : Incoming(r)[u] = 0
      BY AloneTypes, StampAt DEF Incoming
    <3>3. ~Leq(Incoming(r), vector)
      BY <1>1, <3>2, AloneTypes DEF Leq
    <3>4. Leq(vector, Incoming(r))
      BY <3>1, <3>3 DEF Concurrent
    <3>5. \A u \in Terminal \ {request[r].from} : vector[u] <= 0
      BY <3>2, <3>4 DEF Leq
    <3> QED BY <3>5, AloneTypes
  <2> QED BY <2>1, <2>2
<1> HIDE DEF q2
<1> QED BY <1>1, <1>2, <1>3, <1>4, AloneMove

\* The save: the vector takes the item in and changes for nobody else.
LEMMA AloneSave ==
    ASSUME Inv, Alone, OneAtATime, NEW r \in Request, Save(r)
    PROVE  Alone'
<1> DEFINE f == request[r].from
           n == request[r].n
           q2 == NextItem(request[r])
<1>1. /\ request[r].phase = "save" /\ request' = [request EXCEPT ![r] = q2]
      /\ vector' = Observe(request[r].read, Incoming(r))
      /\ kind' = kind /\ clock' = clock /\ awaits' = awaits /\ rows' = rows
  BY AloneTypes DEF Save
<1>2. /\ request[r].read = vector /\ awaits[f] = r /\ vector[f] < n
      /\ kind = "money" => \/ \E x \in rows : x.id[1] = r
                           \/ \A u \in Terminal \ {f} : vector[u] = 0
  BY <1>1 DEF Alone, Current, Reading, Fresh
<1>3. f \in Terminal /\ n \in Nat /\ n \in Counter /\ request[r].last \in Nat
      /\ n <= request[r].last
  BY AloneTypes DEF InsideItems
<1>4. vector'[f] = n /\ \A u \in Terminal \ {f} : vector'[u] = vector[u]
  <2>1. Incoming(r)[f] = n /\ \A u \in Terminal \ {f} : Incoming(r)[u] = 0
    BY <1>3, StampAt DEF Incoming
  <2>2. \A u \in Terminal : vector'[u] = IF vector[u] < Incoming(r)[u]
                                         THEN Incoming(r)[u] ELSE vector[u]
    BY <1>1, <1>2, ObserveAt
  <2> QED BY <1>2, <1>3, <2>1, <2>2, AloneTypes
<1>5. /\ q2.from = f /\ q2.last = request[r].last
      /\ \/ q2.phase = "load" /\ q2.n = n + 1
         \/ q2.phase = "done" /\ n = q2.last
  <2>1. CASE n < request[r].last
    BY <2>1, AloneTypes DEF NextItem, Push
  <2>2. CASE ~(n < request[r].last)
    BY <1>3, <2>2, AloneTypes DEF NextItem, Push
  <2> QED BY <2>1, <2>2
<1>6. request'[r] = q2 /\ \A s \in Request \ {r} : request'[s] = request[s]
  BY <1>1, AloneTypes
<1> HIDE DEF q2
<1>7. \A s \in Request \ {r} : ~Reading(s)
  BY <1>1 DEF OneAtATime, Reading
<1>8. Current'
  BY <1>5, <1>6, <1>7 DEF Current, Reading
<1>9. ASSUME NEW s \in Request PROVE Fresh(s)'
  <2>1. CASE s = r
    BY <1>1, <1>2, <1>3, <1>4, <1>5, <1>6, <2>1, AloneTypes DEF Fresh
  <2>2. CASE s # r
    <3>1. request'[s] = request[s] /\ Fresh(s) /\ ~Reading(s) /\ request[s].from \in Terminal
      BY <1>6, <1>7, <2>2, AloneTypes DEF Alone
    <3>2. request[s].phase \notin {"judge", "save"}
      BY <3>1 DEF Reading
    <3>3. CASE request[s].phase = "load"
      <4>1. awaits[request[s].from] = s /\ request[s].from # f
        BY <1>2, <2>2, <3>1, <3>3 DEF Fresh
      <4> QED BY <1>1, <1>4, <3>1, <3>3, <4>1 DEF Fresh
    <3>4. CASE request[s].phase = "done"
      <4>1. 0 < vector'[request[s].from]
        BY <1>2, <1>3, <1>4, <3>1, <3>4, AloneTypes DEF Fresh
      <4> QED BY <3>1, <3>4, <4>1 DEF Fresh
    <3>5. CASE request[s].phase \notin {"load", "judge", "save", "done"}
      BY <3>1, <3>5 DEF Fresh
    <3> QED BY <3>2, <3>3, <3>4, <3>5
  <2> QED BY <2>1, <2>2
<1>10. ASSUME NEW u \in Terminal PROVE Accounted(u)'
  <2>1. CASE u = f
    BY <1>1, <1>2, <1>3, <1>4, <1>5, <1>6, <2>1, AloneTypes DEF Accounted
  <2>2. CASE u # f
    <3>1. Accounted(u) /\ vector'[u] = vector[u]
      BY <1>4, <2>2 DEF Alone
    <3>2. awaits[u] # NoRequest => request'[awaits[u]] = request[awaits[u]]
      BY <1>6, <2>2, AloneTypes
    <3> QED BY <1>1, <3>1, <3>2 DEF Accounted
  <2> QED BY <2>1, <2>2
<1>11. DivergentMoneyIsARow'
  <2> SUFFICES ASSUME kind = "money", NEW s1 \in Request, NEW s2 \in Request,
                      request'[s1].from # request'[s2].from,
                      request'[s1].phase = "done", request'[s2].phase = "done"
               PROVE  \E x \in rows : x.id[1] \in {s1, s2}
    BY <1>1 DEF DivergentMoneyIsARow
  <2>1. ASSUME NEW s \in Request \ {r}, request'[s].phase = "done",
               request'[s].from # f
        PROVE  \E x \in rows : x.id[1] = r
    <3>1. 0 < vector[request[s].from] /\ request[s].from \in Terminal \ {f}
      BY <1>6, <2>1, AloneTypes DEF Alone, Fresh
    <3> QED BY <1>2, <3>1
  <2>2. CASE s1 = r
    BY <1>5, <1>6, <2>1, <2>2
  <2>3. CASE s2 = r
    BY <1>5, <1>6, <2>1, <2>3
  <2>4. CASE s1 # r /\ s2 # r
    BY <1>6, <2>4 DEF Alone, DivergentMoneyIsARow
  <2> QED BY <2>2, <2>3, <2>4
<1> QED BY <1>8, <1>9, <1>10, <1>11 DEF Alone

\* A decision leaves every row where it is.
LEMMA AloneResolve ==
    ASSUME Inv, Alone, NEW x \in rows, NEW decision \in {"keep_stored", "keep_incoming"},
           Resolve(x, decision)
    PROVE  Alone'
<1>1. /\ kind' = kind /\ clock' = clock /\ awaits' = awaits
      /\ request' = request /\ vector' = vector
      /\ rows' = (rows \ {x}) \cup {Decided(x, decision)}
  BY DEF Resolve
<1>2. Decided(x, decision).id = x.id
  BY DecidedShape, AloneTypes
<1>3. \A y \in rows : \E z \in rows' : z.id = y.id
  BY <1>1, <1>2
<1>4. \A s \in Request : Fresh(s)'
  BY <1>1, <1>3 DEF Alone, Fresh
<1>5. Current' /\ \A t \in Terminal : Accounted(t)'
  BY <1>1 DEF Alone, Current, Reading, Accounted
<1>6. DivergentMoneyIsARow'
  BY <1>1, <1>3 DEF Alone, DivergentMoneyIsARow
<1> QED BY <1>4, <1>5, <1>6 DEF Alone

LEMMA AloneStep ==
    ASSUME Inv, Alone, OneAtATime, faults = 0, faults' = 0, [Next]_vars
    PROVE  Alone'
<1>1. ~Fault
  BY DEF Fault
<1>2. ASSUME NEW t \in Terminal, NEW r \in Request, NEW k \in 1 .. MaxItems,
             Send(t, r, k) \/ SendUnseeded(t, r, k)
      PROVE  Alone'
  BY <1>1, <1>2, AloneSend DEF SendUnseeded
<1>3. ASSUME NEW t \in Terminal, Answered(t) \/ Unanswered(t) PROVE Alone'
  BY <1>1, <1>3, AloneAnswered DEF Unanswered
<1>4. ASSUME NEW r \in Request, Drop(r) \/ Misread(r) \/ Fail(r) PROVE Alone'
  BY <1>1, <1>4 DEF Drop, Misread, Fail
<1>5. ASSUME NEW r \in Request, Load(r) PROVE Alone'
  BY <1>5, AloneLoad
<1>6. ASSUME NEW r \in Request, JudgeStale(r) PROVE Alone'
  BY <1>6, AloneStale
<1>7. ASSUME NEW r \in Request, JudgeApply(r) \/ JudgeFlag(r) PROVE Alone'
  BY <1>7, AloneJudge
<1>8. ASSUME NEW r \in Request, Save(r) PROVE Alone'
  BY <1>8, AloneSave
<1>9. ASSUME NEW x \in rows, NEW decision \in {"keep_stored", "keep_incoming"},
             Resolve(x, decision)
      PROVE  Alone'
  BY <1>9, AloneResolve
<1>10. CASE UNCHANGED vars
  BY <1>10 DEF vars, Alone, Current, Reading, Fresh, Accounted, DivergentMoneyIsARow
<1> QED
  BY <1>2, <1>3, <1>4, <1>5, <1>6, <1>7, <1>8, <1>9, <1>10, Zenon DEF Next

\* What the overlap costs the manager: as long as one push at a time is between
\* its load and its save and nothing fails, detect_conflict does put one of any
\* two pushes by different terminals that have not seen each other in a row.
THEOREM OneAtATimeFlags ==
    Spec /\ [](OneAtATime /\ faults = 0) => []DivergentMoneyIsARow
<1>1. Inv /\ Alone /\ (OneAtATime /\ faults = 0) /\ (OneAtATime /\ faults = 0)'
        /\ [Next]_vars => Alone'
  BY AloneStep
<1>2. Alone => DivergentMoneyIsARow
  BY DEF Alone
<1> QED BY AloneInit, <1>1, <1>2, Invariance, PTL DEF Spec
=============================================================================
