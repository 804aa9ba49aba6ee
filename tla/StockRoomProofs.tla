---------------------------- MODULE StockRoomProofs ----------------------------
(***************************************************************************)
(* Proofs about StockRoom for any number of locations, transfers, counts   *)
(* and orders: the stock the screens show, the aggregate, the movements    *)
(* and the goods agree.  The sums over locations are the library's folds;  *)
(* what they obey is proved first, from the smallest counterexample.       *)
(***************************************************************************)
EXTENDS StockRoom, FiniteSetTheorems, WellFoundedInduction, TLAPS

-----------------------------------------------------------------------------
(* Sums                                                                    *)

\* Of any non-empty collection of subsets of a finite set one is smallest: this
\* is how the proofs below do induction.
LEMMA SmallestSet ==
    ASSUME NEW D, IsFiniteSet(D), NEW B \in SUBSET (SUBSET D), B # {}
    PROVE  \E b \in B : \A c \in SUBSET b : c # b => c \notin B
<1>1. IsWellFoundedOn(StrictSubsetOrdering(D), FiniteSubsetsOf(D))
  BY FS_StrictSubsetOrderingWellFounded
<1>2. B \subseteq FiniteSubsetsOf(D)
  BY FS_Subset DEF FiniteSubsetsOf
<1>3. PICK b \in B : \A c \in B : ~ (<<c, b>> \in StrictSubsetOrdering(D))
  BY <1>1, <1>2, WFMin
<1> QED BY <1>2, <1>3 DEF StrictSubsetOrdering, FiniteSubsetsOf

\* Likewise for numbers, through their initial segments.
LEMMA SmallestNumber ==
    ASSUME NEW B \in SUBSET Nat, B # {}
    PROVE  \E b \in B : \A n \in B : b <= n
<1>1. PICK m \in B : TRUE
  OBVIOUS
<1> DEFINE Below == {0 .. n : n \in {k \in B : k <= m}}
<1>2. IsFiniteSet(0 .. m)
  BY FS_Interval
<1>3. Below \in SUBSET (SUBSET (0 .. m)) /\ 0 .. m \in Below /\ Below # {}
  OBVIOUS
<1> HIDE DEF Below
<1>4. \A X, Y : IsFiniteSet(X) /\ Y \in SUBSET (SUBSET X) /\ Y # {}
        => \E s \in Y : \A c \in SUBSET s : c # s => c \notin Y
  BY SmallestSet
<1>5. PICK s \in Below : \A c \in SUBSET s : c # s => c \notin Below
  <2>1. IsFiniteSet(0 .. m) /\ Below \in SUBSET (SUBSET (0 .. m)) /\ Below # {}
          => \E s \in Below : \A c \in SUBSET s : c # s => c \notin Below
    BY <1>4, Zenon
  <2> QED BY <1>2, <1>3, <2>1, Zenon
<1> USE DEF Below
<1>6. PICK b \in B : b <= m /\ s = 0 .. b
  BY <1>5
<1>7. ASSUME NEW n \in B PROVE b <= n
  <2>1. SUFFICES ASSUME n < b PROVE FALSE
    BY <1>6
  <2>2. 0 .. n \in Below
    BY <1>6, <2>1
  <2>3. 0 .. n \subseteq s /\ 0 .. n # s
    BY <1>6, <2>1
  <2> QED BY <1>5, <2>2, <2>3
<1> QED BY <1>7

\* The element the library's fold takes first
Pick(s) == CHOOSE x \in s : TRUE

\* One step of the fold, on a set s of the domain of f
Turn(f, g, s) == IF s = {} THEN 0 ELSE f[Pick(s)] + g[s \ {Pick(s)}]

\* The library's fold is some function that satisfies its equation, if there
\* is one.
LEMMA SumIsFold ==
    ASSUME NEW D, NEW f, DOMAIN f = D,
           NEW g, g = [s \in SUBSET D |-> Turn(f, g, s)]
    PROVE  \E h : h = [s \in SUBSET D |-> Turn(f, h, s)] /\ Sum(f) = h[D]
<1> DEFINE it == CHOOSE h : h = [s \in SUBSET D |->
                    IF s = {} THEN 0
                    ELSE f[CHOOSE x \in s : TRUE] + h[s \ {CHOOSE x \in s : TRUE}]]
<1>1. it = [s \in SUBSET D |->
              IF s = {} THEN 0
              ELSE f[CHOOSE x \in s : TRUE] + it[s \ {CHOOSE x \in s : TRUE}]]
  <2>1. \E h : h = [s \in SUBSET D |->
                 IF s = {} THEN 0
                 ELSE f[CHOOSE x \in s : TRUE] + h[s \ {CHOOSE x \in s : TRUE}]]
    BY DEF Turn, Pick
  <2> QED BY <2>1, Zenon
<1>2. Sum(f) = it[D]
  BY Zenon DEF Sum, MapThenSumSet, MapThenFoldSet
<1> HIDE DEF it
<1> QED BY <1>1, <1>2 DEF Turn, Pick

\* g satisfies the equation on the sets of at most n elements
Upto(f, D, g, n) ==
    /\ g \in [SUBSET D -> Int]
    /\ \A s \in SUBSET D : Cardinality(s) <= n => g[s] = Turn(f, g, s)

\* There is such a function for every bound.
LEMMA FoldExists ==
    ASSUME NEW D, IsFiniteSet(D), NEW f \in [D -> Int], NEW n \in Nat
    PROVE  \E g : Upto(f, D, g, n)
<1> DEFINE Bad == {k \in Nat : ~ \E g : Upto(f, D, g, k)}
<1>1. SUFFICES ASSUME Bad # {} PROVE FALSE
  OBVIOUS
<1> HIDE DEF Bad
<1>2. PICK k \in Bad : \A j \in Bad : k <= j
  <2>1. Bad \in SUBSET Nat
    BY DEF Bad
  <2> QED BY <1>1, <2>1, SmallestNumber
<1> USE DEF Bad
<1>3. \A s \in SUBSET D : IsFiniteSet(s) /\ Cardinality(s) \in Nat
  BY FS_Subset, FS_CardinalityType
<1>4. \A s \in SUBSET D : s # {} =>
         /\ Pick(s) \in s /\ s \ {Pick(s)} \in SUBSET D
         /\ Cardinality(s \ {Pick(s)}) = Cardinality(s) - 1
         /\ Cardinality(s) # 0
  BY <1>3, FS_RemoveElement, FS_EmptySet DEF Pick
<1>5. CASE k = 0
  <2>1. Upto(f, D, [s \in SUBSET D |-> 0], 0)
    <3> DEFINE z == [s \in SUBSET D |-> 0]
    <3>1. ASSUME NEW s \in SUBSET D, Cardinality(s) <= 0 PROVE z[s] = Turn(f, z, s)
      <4>1. s = {}
        BY <1>3, <1>4, <3>1, FS_EmptySet
      <4> QED BY <4>1 DEF Turn
    <3> QED BY <3>1 DEF Upto
  <2> QED BY <1>5, <2>1
<1>6. CASE k # 0
  <2>1. k - 1 \in Nat /\ k - 1 \notin Bad
    BY <1>2, <1>6
  <2>2. PICK g : Upto(f, D, g, k - 1)
    BY <2>1
  <2> DEFINE h == [s \in SUBSET D |-> IF Cardinality(s) <= k - 1 THEN g[s] ELSE Turn(f, g, s)]
  <2>3. \A s \in SUBSET D : Turn(f, g, s) \in Int
    <3> TAKE s \in SUBSET D
    <3>1. CASE s = {}
      BY <3>1 DEF Turn
    <3>2. CASE s # {}
      <4>1. f[Pick(s)] \in Int /\ g[s \ {Pick(s)}] \in Int
        BY <1>4, <2>2, <3>2 DEF Upto
      <4> QED BY <3>2, <4>1 DEF Turn
    <3> QED BY <3>1, <3>2
  <2>4. h \in [SUBSET D -> Int]
    BY <2>2, <2>3 DEF Upto
  <2>5. ASSUME NEW s \in SUBSET D, Cardinality(s) <= k PROVE h[s] = Turn(f, h, s)
    <3>1. h[s] = Turn(f, g, s)
      BY <2>2 DEF Upto
    <3>2. s # {} => h[s \ {Pick(s)}] = g[s \ {Pick(s)}]
      BY <1>3, <1>4, <2>5
    <3> HIDE DEF h
    <3> QED BY <3>1, <3>2 DEF Turn
  <2>6. Upto(f, D, h, k)
    BY <2>4, <2>5 DEF Upto
  <2> QED BY <2>6
<1> QED BY <1>5, <1>6

\* g totals f over every subset of its domain, whatever element goes first
Totals(f, D, g) ==
    /\ g \in [SUBSET D -> Int]
    /\ g[{}] = 0
    /\ \A s \in SUBSET D : \A x \in s : g[s] = f[x] + g[s \ {x}]

\* Sum(f) totals f, in whatever order: what "sum of the rows" means.
LEMMA SumIsTotal ==
    ASSUME NEW D, IsFiniteSet(D), NEW f \in [D -> Int]
    PROVE  \E g : Totals(f, D, g) /\ Sum(f) = g[D]
<1>1. \A s \in SUBSET D : IsFiniteSet(s) /\ Cardinality(s) \in Nat
                          /\ Cardinality(s) <= Cardinality(D)
  BY FS_Subset, FS_CardinalityType
<1>2. PICK g0 : Upto(f, D, g0, Cardinality(D))
  BY <1>1, FoldExists
<1>3. g0 = [s \in SUBSET D |-> Turn(f, g0, s)]
  BY <1>1, <1>2 DEF Upto
<1>4. PICK g : g = [s \in SUBSET D |-> Turn(f, g, s)] /\ Sum(f) = g[D]
  BY <1>3, SumIsFold
<1>5. \A s \in SUBSET D : s # {} => Pick(s) \in s /\ g[s] = f[Pick(s)] + g[s \ {Pick(s)}]
  BY <1>4 DEF Turn, Pick
<1>6. g[{}] = 0
  BY <1>4 DEF Turn
<1>7. \A s \in SUBSET D : g[s] \in Int
  <2> DEFINE Bad == {s \in SUBSET D : g[s] \notin Int}
  <2>1. SUFFICES ASSUME Bad # {} PROVE FALSE
    OBVIOUS
  <2>2. PICK b \in Bad : \A c \in SUBSET b : c # b => c \notin Bad
    <3>1. Bad \in SUBSET (SUBSET D)
      OBVIOUS
    <3> HIDE DEF Bad
    <3> QED BY <2>1, <3>1, SmallestSet
  <2>3. b # {}
    BY <1>6
  <2>4. b \ {Pick(b)} \notin Bad /\ b \ {Pick(b)} \in SUBSET D
    BY <1>5, <2>2, <2>3
  <2> QED BY <1>5, <2>2, <2>3, <2>4
<1>8. \A s \in SUBSET D : \A x \in s : g[s] = f[x] + g[s \ {x}]
  <2> DEFINE Bad == {s \in SUBSET D : \E x \in s : g[s] # f[x] + g[s \ {x}]}
  <2>1. SUFFICES ASSUME Bad # {} PROVE FALSE
    OBVIOUS
  <2>2. PICK b \in Bad : \A c \in SUBSET b : c # b => c \notin Bad
    <3>1. Bad \in SUBSET (SUBSET D)
      OBVIOUS
    <3> HIDE DEF Bad
    <3> QED BY <2>1, <3>1, SmallestSet
  <2>3. PICK x \in b : g[b] # f[x] + g[b \ {x}]
    OBVIOUS
  <2> DEFINE y == Pick(b)
  <2>4. y \in b /\ g[b] = f[y] + g[b \ {y}]
    BY <1>5
  <2> HIDE DEF y
  <2>5. x # y
    BY <2>3, <2>4
  <2>6. /\ b \ {y} \in SUBSET D /\ b \ {y} \notin Bad /\ x \in b \ {y}
        /\ b \ {x} \in SUBSET D /\ b \ {x} \notin Bad /\ y \in b \ {x}
    BY <2>2, <2>4, <2>5
  <2> DEFINE rest == g[(b \ {x}) \ {y}]
  <2>7. (b \ {y}) \ {x} = (b \ {x}) \ {y} /\ (b \ {x}) \ {y} \in SUBSET D
    OBVIOUS
  <2>8. g[b \ {y}] = f[x] + rest /\ g[b \ {x}] = f[y] + rest
    BY <2>6, <2>7
  <2>9. f[x] \in Int /\ f[y] \in Int /\ rest \in Int
    BY <1>7, <2>4, <2>7
  <2> HIDE DEF rest, Bad
  <2>10. f[y] + (f[x] + rest) = f[x] + (f[y] + rest)
    BY <2>9
  <2> QED BY <2>3, <2>4, <2>8, <2>10
<1>9. g \in [SUBSET D -> Int]
  BY <1>4, <1>7
<1> QED BY <1>4, <1>6, <1>8, <1>9 DEF Totals

\* A sum of integers is an integer.
LEMMA SumType ==
    ASSUME NEW D, IsFiniteSet(D), NEW f \in [D -> Int]
    PROVE  Sum(f) \in Int
<1>1. PICK F : Totals(f, D, F) /\ Sum(f) = F[D]
  BY SumIsTotal
<1>2. D \in SUBSET D
  OBVIOUS
<1> QED BY <1>1, <1>2 DEF Totals

\* Sums add up row by row.
LEMMA SumOfSums ==
    ASSUME NEW D, IsFiniteSet(D), NEW f \in [D -> Int], NEW h \in [D -> Int],
           NEW k \in [D -> Int], \A x \in D : k[x] = f[x] + h[x]
    PROVE  Sum(k) = Sum(f) + Sum(h)
<1>1. PICK F : Totals(f, D, F) /\ Sum(f) = F[D]
  BY SumIsTotal
<1>2. PICK H : Totals(h, D, H) /\ Sum(h) = H[D]
  BY SumIsTotal
<1>3. PICK K : Totals(k, D, K) /\ Sum(k) = K[D]
  BY SumIsTotal
<1> DEFINE Bad == {s \in SUBSET D : K[s] # F[s] + H[s]}
<1>4. SUFFICES ASSUME Bad # {} PROVE FALSE
  BY <1>1, <1>2, <1>3
<1>5. PICK b \in Bad : \A c \in SUBSET b : c # b => c \notin Bad
  <2>1. Bad \in SUBSET (SUBSET D)
    OBVIOUS
  <2> HIDE DEF Bad
  <2> QED BY <1>4, <2>1, SmallestSet
<1>6. PICK x \in b : TRUE
  <2>1. K[{}] = F[{}] + H[{}]
    BY <1>1, <1>2, <1>3 DEF Totals
  <2>2. b # {}
    BY <2>1, Zenon
  <2> QED BY <2>2
<1>7. b \ {x} \in SUBSET D /\ b \ {x} \notin Bad
  BY <1>5, <1>6
<1>8. /\ K[b] = k[x] + K[b \ {x}] /\ F[b] = f[x] + F[b \ {x}]
      /\ H[b] = h[x] + H[b \ {x}] /\ K[b \ {x}] = F[b \ {x}] + H[b \ {x}]
      /\ F[b \ {x}] \in Int /\ H[b \ {x}] \in Int
      /\ f[x] \in Int /\ h[x] \in Int /\ k[x] = f[x] + h[x]
  BY <1>1, <1>2, <1>3, <1>6, <1>7 DEF Totals
<1> QED BY <1>8

\* No units anywhere, none in all.
LEMMA SumOfZeros ==
    ASSUME NEW D, IsFiniteSet(D), NEW f \in [D -> Int], \A x \in D : f[x] = 0
    PROVE  Sum(f) = 0
<1>1. Sum(f) = Sum(f) + Sum(f)
  BY SumOfSums
<1>2. Sum(f) \in Int
  BY SumType
<1>3. \A n \in Int : n = n + n => n = 0
  OBVIOUS
<1> QED BY <1>1, <1>2, <1>3, Zenon

\* One row that is not zero is the whole sum.
LEMMA SumOfOne ==
    ASSUME NEW D, IsFiniteSet(D), NEW f \in [D -> Int], NEW x \in D,
           \A y \in D \ {x} : f[y] = 0
    PROVE  Sum(f) = f[x]
<1>1. PICK F : Totals(f, D, F) /\ Sum(f) = F[D]
  BY SumIsTotal
<1>2. F[D \ {x}] = 0
  <2> DEFINE Bad == {s \in SUBSET (D \ {x}) : F[s] # 0}
  <2>1. SUFFICES ASSUME Bad # {} PROVE FALSE
    OBVIOUS
  <2>2. PICK b \in Bad : \A c \in SUBSET b : c # b => c \notin Bad
    <3>1. Bad \in SUBSET (SUBSET D)
      OBVIOUS
    <3> HIDE DEF Bad
    <3> QED BY <2>1, <3>1, SmallestSet
  <2>3. PICK y \in b : TRUE
    BY <1>1 DEF Totals
  <2>4. b \ {y} \in SUBSET (D \ {x}) /\ b \ {y} \notin Bad
    BY <2>2, <2>3
  <2>5. F[b] = f[y] + F[b \ {y}] /\ f[y] = 0 /\ F[b \ {y}] = 0
    BY <1>1, <2>3, <2>4 DEF Totals
  <2> QED BY <2>5
<1>3. F[D] = f[x] + F[D \ {x}] /\ f[x] \in Int
  BY <1>1 DEF Totals
<1> QED BY <1>1, <1>2, <1>3

\* Writing one row moves the sum by as much.
LEMMA SumExcept ==
    ASSUME NEW D, IsFiniteSet(D), NEW f \in [D -> Int], NEW x \in D, NEW v \in Int
    PROVE  Sum([f EXCEPT ![x] = v]) = Sum(f) + (v - f[x])
<1> DEFINE h == [y \in D |-> IF y = x THEN v - f[x] ELSE 0]
           k == [f EXCEPT ![x] = v]
<1>1. /\ h \in [D -> Int] /\ k \in [D -> Int]
      /\ \A y \in D : k[y] = f[y] + h[y]
      /\ \A y \in D \ {x} : h[y] = 0
      /\ h[x] = v - f[x]
  OBVIOUS
<1> HIDE DEF h, k
<1>2. Sum(h) = v - f[x]
  BY <1>1, SumOfOne
<1>3. Sum(k) = Sum(f) + Sum(h)
  BY <1>1, SumOfSums
<1> QED BY <1>2, <1>3 DEF k

-----------------------------------------------------------------------------
(* The invariant                                                           *)

\* What `inventory` holds, or will when the remote movements have met a rebuild,
\* that no movement explains: the legacy units before the heal of a rebuild,
\* nothing after it
Gap == (inventory + late) - LedgerSum(backfill)

Booked == Holds(shelf) => Sum(shelf) = inventory

Explained == Gap = 0 \/ (Gap = Legacy /\ backfill = 0)

\* The aggregate, the road and the remote movements still to come are the goods.
Counted == inventory + InTransit + late = goods

Accounts == ~stamped => Booked /\ Explained /\ (~undone => Counted)

Rows == ~moved => /\ Sum(shelf) = inventory
                  /\ \A l \in Location : shelf[l] + LateAt(l) = Moved(l, backfill)

\* Nothing has arrived of a transfer whose status says so.
Fresh == \A t \in Transfer : transfer[t].status = "in_transit" => transfer[t].got = 0

Inv == TypeOK /\ Fresh /\ Accounts /\ Rows

\* A step leaves the gap alone or, as a rebuild does, closes it and writes the
\* rows from the ledger.
Heals ==
    ~stamped' => /\ ~stamped
                 /\ \/ Gap' = 0 /\ ~moved'
                    \/ Gap' = Gap /\ (backfill = 0 => backfill' = 0)

\* Units are integers, and so are their sums.
LEMMA Numbers ==
    /\ Units \subseteq Int /\ 0 .. MaxUnits \subseteq Units /\ 0 \in Units
    /\ Main \in Location /\ IsFiniteSet(Location) /\ IsFiniteSet(Transfer)
    /\ Legacy \in Nat
    /\ \A f \in [Location -> Units] : f \in [Location -> Int] /\ Sum(f) \in Int
<1>1. Units \subseteq Int /\ 0 .. MaxUnits \subseteq Units /\ 0 \in Units /\ Legacy \in Nat
  BY RoomAssumption DEF Units
<1>2. ASSUME NEW f \in [Location -> Units] PROVE f \in [Location -> Int] /\ Sum(f) \in Int
  <2>1. f \in [Location -> Int]
    BY <1>1
  <2> QED BY <2>1, RoomAssumption, SumType
<1> QED BY <1>1, <1>2, RoomAssumption

\* The numbers a state holds.
LEMMA StateNumbers ==
    ASSUME TypeOK
    PROVE  /\ inventory \in Int /\ backfill \in Int /\ goods \in Int
           /\ late \in Int /\ \A l \in Location : LateAt(l) \in Int
           /\ shelf \in [Location -> Int] /\ Sum(shelf) \in Int
           /\ recent \in [Location -> Int] /\ Sum(recent) \in Int
           /\ aged \in [Location -> Int] /\ Sum(aged) \in Int
           /\ kept \in [Location -> Int] /\ Sum(kept) \in Int
           /\ LedgerSum(backfill) \in Int /\ Gap \in Int
<1>1. /\ shelf \in [Location -> Units] /\ recent \in [Location -> Units]
      /\ aged \in [Location -> Units] /\ kept \in [Location -> Units]
      /\ inventory \in 0 .. MaxUnits /\ goods \in 0 .. MaxUnits /\ backfill \in Nat
  BY DEF TypeOK
<1>2. /\ inventory \in Int /\ backfill \in Int /\ goods \in Int
      /\ late \in Int /\ \A l \in Location : LateAt(l) \in Int
  BY <1>1, RoomAssumption DEF TypeOK, LateAt
<1>3. /\ shelf \in [Location -> Int] /\ Sum(shelf) \in Int
      /\ recent \in [Location -> Int] /\ Sum(recent) \in Int
      /\ aged \in [Location -> Int] /\ Sum(aged) \in Int
      /\ kept \in [Location -> Int] /\ Sum(kept) \in Int
  BY <1>1, Numbers
<1> QED BY <1>2, <1>3 DEF LedgerSum, Gap

\* Without a row every location holds nothing.
LEMMA NoRows ==
    ASSUME NEW s \in [Location -> Int], ~Holds(s)
    PROVE  Sum(s) = 0 /\ \A l \in Location : s[l] = 0
<1>1. \A l \in Location : s[l] = 0
  BY DEF Holds
<1> QED BY <1>1, RoomAssumption, SumOfZeros

\* Bridging the legacy aggregate gives the default location a row of it and
\* loses no unit.
LEMMA Bridging ==
    ASSUME TypeOK
    PROVE  /\ Bridged \in [Location -> Units] /\ Bridged \in [Location -> Int]
           /\ Booked => Sum(Bridged) = inventory
           /\ Sum(shelf) = inventory => Bridged = shelf
<1>1. /\ shelf \in [Location -> Units] /\ inventory \in 0 .. MaxUnits
  BY DEF TypeOK
<1>2. Bridged \in [Location -> Units]
  BY <1>1, Numbers DEF Bridged
<1>3. CASE Holds(shelf)
  BY <1>2, <1>3, Numbers DEF Bridged, Booked
<1>4. CASE ~Holds(shelf)
  <2>1. Sum(shelf) = 0 /\ \A l \in Location : shelf[l] = 0
    BY <1>1, <1>4, Numbers, NoRows
  <2>2. Bridged = [shelf EXCEPT ![Main] = inventory]
    BY <1>4 DEF Bridged
  <2>3. Sum(Bridged) = Sum(shelf) + (inventory - shelf[Main])
    <3>1. /\ IsFiniteSet(Location) /\ Main \in Location
          /\ shelf \in [Location -> Int] /\ inventory \in Int
      BY Numbers, StateNumbers
    <3>2. Sum([shelf EXCEPT ![Main] = inventory]) = Sum(shelf) + (inventory - shelf[Main])
      BY <3>1, SumExcept
    <3> QED BY <2>2, <3>2
  <2>4. Sum(Bridged) = inventory
    BY <2>1, <2>3, Numbers, StateNumbers
  <2>5. inventory = 0 => Bridged = shelf
    BY <1>1, <2>1, <2>2, Numbers
  <2> QED BY <1>2, <2>1, <2>4, <2>5, Numbers
<1> QED BY <1>3, <1>4

\* The canonical writer books d units: the rows add up to the aggregate, and
\* both move by d.
LEMMA CanonBooks ==
    ASSUME NEW s \in [Location -> Units], NEW l \in Location, NEW d \in Int,
           inventory \in Int, Canon(s, l, d)
    PROVE  /\ shelf' \in [Location -> Units] /\ inventory' \in 0 .. MaxUnits
           /\ Sum(shelf') = inventory'
           /\ (Holds(s) => Sum(s) = inventory) => inventory' = inventory + d
           /\ Holds(s) \/ inventory = 0 => shelf' = [s EXCEPT ![l] = @ + d]
<1> DEFINE n == Current(s, l) + d
<1>1. /\ n \in 0 .. MaxUnits /\ shelf' = [s EXCEPT ![l] = n]
      /\ inventory' = Sum(shelf') /\ inventory' \in 0 .. MaxUnits
  BY DEF Canon
<1>2. s \in [Location -> Int] /\ Sum(s) \in Int /\ s[l] \in Int /\ n \in Int
  BY <1>1, Numbers
<1>3. shelf' \in [Location -> Units]
  BY <1>1, Numbers
<1>4. Sum(shelf') = Sum(s) + (n - s[l])
  BY <1>1, <1>2, Numbers, SumExcept
<1>5. CASE Holds(s)
  <2>1. Current(s, l) = s[l]
    BY <1>5 DEF Current
  <2> QED BY <1>1, <1>2, <1>3, <1>4, <1>5, <2>1
<1>6. CASE ~Holds(s)
  <2>1. Current(s, l) = inventory /\ Sum(s) = 0 /\ s[l] = 0
    BY <1>2, <1>6, NoRows DEF Current
  <2>2. inventory' = inventory + d
    BY <1>1, <1>2, <1>4, <2>1
  <2>3. inventory = 0 => shelf' = [s EXCEPT ![l] = @ + d]
    BY <1>1, <1>2, <2>1
  <2> QED BY <1>1, <1>3, <1>6, <2>2, <2>3
<1> QED BY <1>5, <1>6

\* SumOfSums on locations.
LEMMA SumOfRows ==
    \A f, h, k \in [Location -> Int] :
        (\A l \in Location : k[l] = f[l] + h[l]) => Sum(k) = Sum(f) + Sum(h)
<1> SUFFICES ASSUME NEW f \in [Location -> Int], NEW h \in [Location -> Int],
                    NEW k \in [Location -> Int], \A l \in Location : k[l] = f[l] + h[l]
             PROVE  Sum(k) = Sum(f) + Sum(h)
  OBVIOUS
<1>1. IsFiniteSet(Location)
  BY Numbers
<1> QED BY <1>1, SumOfSums

\* Writing a row moves the sum by the difference.
LEMMA SumMoves ==
    ASSUME NEW f \in [Location -> Int], NEW l \in Location, NEW d \in Int
    PROVE  Sum([f EXCEPT ![l] = @ + d]) = Sum(f) + d
<1>1. f[l] \in Int /\ f[l] + d \in Int /\ IsFiniteSet(Location)
  BY Numbers
<1>2. Sum([f EXCEPT ![l] = f[l] + d]) = Sum(f) + ((f[l] + d) - f[l])
  BY <1>1, SumExcept
<1>3. Sum(f) \in Int
  BY <1>1, SumType
<1> QED BY <1>1, <1>2, <1>3

\* A movement of d at l adds d to the ledger, and to l's part of it.
LEMMA Movement ==
    ASSUME TypeOK, NEW l \in Location, NEW d \in Int,
           \/ Reasoned(l, d)
           \/ Unreasoned(l, d)
           \/ /\ aged[l] + d \in Units
              /\ aged' = [aged EXCEPT ![l] = @ + d]
              /\ UNCHANGED <<recent, kept, backfill>>
    PROVE  /\ recent' \in [Location -> Units] /\ aged' \in [Location -> Units]
           /\ kept' \in [Location -> Units] /\ backfill' = backfill
           /\ LedgerSum(backfill)' = LedgerSum(backfill) + d
           /\ \A k \in Location : Moved(k, backfill)' = 
                 Moved(k, backfill) + IF k = l THEN d ELSE 0
<1>1. /\ recent \in [Location -> Units] /\ aged \in [Location -> Units]
      /\ kept \in [Location -> Units] /\ backfill \in Int
      /\ recent \in [Location -> Int] /\ aged \in [Location -> Int]
      /\ kept \in [Location -> Int]
      /\ Sum(recent) \in Int /\ Sum(aged) \in Int /\ Sum(kept) \in Int
  BY StateNumbers DEF TypeOK
<1>2. CASE Reasoned(l, d)
  <2>1. /\ recent[l] + d \in Units /\ recent' = [recent EXCEPT ![l] = @ + d]
        /\ aged' = aged /\ kept' = kept /\ backfill' = backfill
    BY <1>2 DEF Reasoned
  <2>2. Sum(recent') = Sum(recent) + d
    BY <1>1, <2>1, SumMoves
  <2>3. recent' \in [Location -> Units]
    BY <1>1, <2>1
  <2>4. LedgerSum(backfill)' = LedgerSum(backfill) + d
    BY <1>1, <2>1, <2>2 DEF LedgerSum
  <2>5. \A k \in Location : Moved(k, backfill)' = 
           Moved(k, backfill) + IF k = l THEN d ELSE 0
    BY <1>1, <2>1 DEF Moved
  <2> QED BY <1>1, <2>1, <2>3, <2>4, <2>5
<1>3. CASE Unreasoned(l, d)
  <2>1. /\ kept[l] + d \in Units /\ kept' = [kept EXCEPT ![l] = @ + d]
        /\ aged' = aged /\ recent' = recent /\ backfill' = backfill
    BY <1>3 DEF Unreasoned
  <2>2. Sum(kept') = Sum(kept) + d
    BY <1>1, <2>1, SumMoves
  <2>3. kept' \in [Location -> Units]
    BY <1>1, <2>1
  <2>4. LedgerSum(backfill)' = LedgerSum(backfill) + d
    BY <1>1, <2>1, <2>2 DEF LedgerSum
  <2>5. \A k \in Location : Moved(k, backfill)' = 
           Moved(k, backfill) + IF k = l THEN d ELSE 0
    BY <1>1, <2>1 DEF Moved
  <2> QED BY <1>1, <2>1, <2>3, <2>4, <2>5
<1>4. CASE /\ aged[l] + d \in Units
           /\ aged' = [aged EXCEPT ![l] = @ + d]
           /\ UNCHANGED <<recent, kept, backfill>>
  <2>1. Sum(aged') = Sum(aged) + d
    BY <1>1, <1>4, SumMoves
  <2>2. aged' \in [Location -> Units]
    BY <1>1, <1>4
  <2>3. LedgerSum(backfill)' = LedgerSum(backfill) + d
    BY <1>1, <1>4, <2>1 DEF LedgerSum
  <2>4. \A k \in Location : Moved(k, backfill)' = 
           Moved(k, backfill) + IF k = l THEN d ELSE 0
    BY <1>1, <1>4 DEF Moved
  <2> QED BY <1>1, <1>4, <2>2, <2>3, <2>4
<1> QED BY <1>2, <1>3, <1>4

\* What a transfer may be
Slips == [status : {"draft", "in_transit", "received_partial", "received",
                    "cancelled"},
          from : Location, to : Location,
          qty : 0 .. MaxUnits, got : 0 .. MaxUnits]

\* The documents' part of TypeOK
Documents ==
    /\ transfer \in [Transfer -> Slips]
    /\ count \in [Count -> [status : {"none", "open", "closed"},
                            expected : 0 .. MaxUnits]]
    /\ order \in [Order -> {"open", "approved", "received"}]

\* The observers' part of TypeOK
Observed ==
    /\ goods \in 0 .. MaxUnits /\ trade \in 0 .. MaxTrade
    /\ stamped \in BOOLEAN /\ moved \in BOOLEAN
    /\ late \in Int /\ undone \in BOOLEAN

\* What is on the road is a number, and only the transfers say which.
LEMMA RoadIsNumber ==
    ASSUME Documents
    PROVE  /\ InTransit \in Int /\ [t \in Transfer |-> OnRoad(t)] \in [Transfer -> Int]
<1>1. \A t \in Transfer : OnRoad(t) \in Int
  <2> TAKE t \in Transfer
  <2>1. transfer[t].qty \in 0 .. MaxUnits /\ transfer[t].got \in 0 .. MaxUnits
    BY DEF Documents, Slips
  <2> QED BY <2>1, RoomAssumption DEF OnRoad
<1>2. [t \in Transfer |-> OnRoad(t)] \in [Transfer -> Int]
  BY <1>1
<1> QED BY <1>2, Numbers, SumType DEF InTransit

\* A transfer that changes moves the road by its own part.
LEMMA RoadMoves ==
    ASSUME Documents, NEW t \in Transfer, NEW r,
           transfer' = [transfer EXCEPT ![t] = r], OnRoad(t)' \in Int
    PROVE  InTransit' = InTransit + (OnRoad(t)' - OnRoad(t))
<1> DEFINE f == [u \in Transfer |-> OnRoad(u)]
           v == OnRoad(t)'
<1>1. \A u \in Transfer : u # t => OnRoad(u)' = OnRoad(u)
  BY DEF Documents, Slips, OnRoad
<1>2. [u \in Transfer |-> OnRoad(u)]' = [f EXCEPT ![t] = v]
  BY <1>1
<1>3. f \in [Transfer -> Int] /\ IsFiniteSet(Transfer) /\ f[t] = OnRoad(t)
  BY RoadIsNumber, Numbers
<1>4. v \in Int
  OBVIOUS
<1>5. InTransit = Sum(f) /\ InTransit' = Sum([f EXCEPT ![t] = v])
  BY <1>2 DEF InTransit
<1> HIDE DEF f, v
<1>6. Sum([f EXCEPT ![t] = v]) = Sum(f) + (v - f[t])
  BY <1>3, <1>4, SumExcept
<1> QED BY <1>3, <1>5, <1>6 DEF v

\* No transfer changes, nothing moves on the road.
LEMMA RoadStays ==
    ASSUME transfer' = transfer
    PROVE  InTransit' = InTransit
BY DEF InTransit, OnRoad

\* The gap closes or stays, so it stays explained.
LEMMA StaysExplained ==
    ASSUME Accounts, Heals, ~stamped'
    PROVE  Explained'
BY DEF Accounts, Heals, Explained

-----------------------------------------------------------------------------
(* The steps                                                               *)

\* Types, the fresh transfers, the accounts and the rows are all of Inv.
LEMMA Holding ==
    ASSUME shelf' \in [Location -> Units], inventory' \in 0 .. MaxUnits,
           recent' \in [Location -> Units], aged' \in [Location -> Units],
           kept' \in [Location -> Units], backfill' \in Nat,
           Documents', Observed', Fresh', Accounts', Rows'
    PROVE  Inv'
BY DEF Inv, TypeOK, Documents, Slips, Observed

\* Documents that move no unit disturb nothing.
LEMMA Paperwork ==
    ASSUME Inv, UNCHANGED <<books, ledger, observers>>, Documents', Fresh',
           InTransit' = InTransit
    PROVE  Inv' /\ Heals
<1>1. /\ shelf' = shelf /\ inventory' = inventory /\ recent' = recent /\ aged' = aged
      /\ kept' = kept /\ backfill' = backfill /\ goods' = goods /\ trade' = trade
      /\ stamped' = stamped /\ moved' = moved /\ late' = late /\ undone' = undone
  BY DEF books, ledger, observers
<1>2. Gap' = Gap /\ (Booked => Booked') /\ (Rows => Rows') /\ (Counted => Counted')
  BY <1>1 DEF Gap, LedgerSum, Booked, Holds, Rows, Moved, LateAt, Counted
<1>3. Heals
  BY <1>1, <1>2 DEF Heals
<1>4. Accounts'
  BY <1>1, <1>2, <1>3, StaysExplained DEF Inv, Accounts
<1>5. Observed'
  BY <1>1 DEF Inv, TypeOK, Observed
<1>6. /\ shelf' \in [Location -> Units] /\ inventory' \in 0 .. MaxUnits
      /\ recent' \in [Location -> Units] /\ aged' \in [Location -> Units]
      /\ kept' \in [Location -> Units] /\ backfill' \in Nat
  BY <1>1 DEF Inv, TypeOK
<1> QED BY <1>2, <1>3, <1>4, <1>5, <1>6, Holding DEF Inv

\* The canonical writer with its movement, whichever cache it starts from,
\* when what is owned beyond the road moves by as much.
LEMMA Writing ==
    ASSUME Inv, NEW s, s = shelf \/ s = Bridged, NEW l \in Location, NEW d \in Int,
           Canon(s, l, d), Reasoned(l, d) \/ Unreasoned(l, d),
           Documents', Fresh', Observed', stamped' = stamped, moved' = moved,
           late' = late, undone' = undone,
           goods' - InTransit' = (goods - InTransit) + d
    PROVE  Inv' /\ Heals
<1>1. TypeOK
  BY DEF Inv
<1>2. /\ shelf \in [Location -> Units] /\ inventory \in Int /\ goods \in Int
      /\ Gap \in Int /\ LedgerSum(backfill) \in Int /\ backfill \in Nat
      /\ late \in Int /\ \A k \in Location : LateAt(k) \in Int
  BY <1>1, StateNumbers DEF TypeOK
<1>3. s \in [Location -> Units]
  BY <1>1, <1>2, Bridging
<1>4. Booked => (Holds(s) => Sum(s) = inventory)
  BY <1>1, Bridging DEF Booked
<1>5. /\ shelf' \in [Location -> Units] /\ inventory' \in 0 .. MaxUnits
      /\ Sum(shelf') = inventory'
      /\ Booked => inventory' = inventory + d
      /\ Holds(s) \/ inventory = 0 => shelf' = [s EXCEPT ![l] = @ + d]
  BY <1>2, <1>3, <1>4, CanonBooks
<1>6. /\ recent' \in [Location -> Units] /\ aged' \in [Location -> Units]
      /\ kept' \in [Location -> Units] /\ backfill' = backfill
      /\ LedgerSum(backfill)' = LedgerSum(backfill) + d
      /\ \A k \in Location : Moved(k, backfill)' =
            Moved(k, backfill) + IF k = l THEN d ELSE 0
  BY <1>1, Movement
<1>7. inventory' \in Int /\ InTransit \in Int /\ InTransit' \in Int /\ goods' \in Int
  <2>1. InTransit \in Int
    BY <1>1, RoadIsNumber DEF TypeOK, Documents, Slips
  <2>2. Documents' => InTransit' \in Int
    <3> SUFFICES ASSUME Documents' PROVE InTransit' \in Int
      OBVIOUS
    <3>1. /\ [t \in Transfer |-> OnRoad(t)]' \in [Transfer -> Int]
      <4>1. \A t \in Transfer : OnRoad(t)' \in Int
        <5> TAKE t \in Transfer
        <5>1. transfer'[t].qty \in 0 .. MaxUnits /\ transfer'[t].got \in 0 .. MaxUnits
          BY DEF Documents, Slips
        <5> QED BY <5>1, RoomAssumption DEF OnRoad
      <4> QED BY <4>1
    <3> QED BY <3>1, Numbers, SumType DEF InTransit
  <2> QED BY <1>5, <2>1, <2>2, RoomAssumption DEF Observed
<1>8. Booked => Gap' = Gap
  BY <1>2, <1>5, <1>6 DEF Gap
<1>9. ~stamped => Booked /\ (~undone => inventory + InTransit + late = goods)
  BY DEF Inv, Accounts, Counted
<1>10. Heals
  BY <1>6, <1>8, <1>9 DEF Heals
<1>11. Accounts'
  <2> SUFFICES ASSUME ~stamped' PROVE Booked' /\ Explained' /\ (~undone' => Counted')
    BY DEF Accounts
  <2>1. Booked'
    BY <1>5 DEF Booked
  <2>2. ASSUME ~undone' PROVE inventory' + InTransit' + late = goods'
    <3>1. inventory' = inventory + d /\ inventory + InTransit + late = goods
      BY <1>5, <1>9, <2>2
    <3> DEFINE i == InTransit
               j == InTransit'
               g == goods
               h == goods'
               m == inventory
               n == inventory'
               u == late
    <3>2. /\ i \in Int /\ j \in Int /\ g \in Int /\ h \in Int /\ m \in Int /\ n \in Int
          /\ u \in Int /\ n = m + d /\ m + i + u = g /\ h - j = (g - i) + d
      BY <1>2, <1>7, <3>1
    <3>3. (n + j + u = h) = (inventory' + InTransit' + late = goods')
      OBVIOUS
    <3> HIDE DEF i, j, g, h, m, n, u
    <3>4. n + j + u = h
      BY <3>2
    <3> QED BY <3>3, <3>4
  <2>3. Explained'
    BY <1>10, StaysExplained DEF Inv
  <2> QED BY <2>1, <2>2, <2>3 DEF Counted
<1>12. Rows'
  <2> SUFFICES ASSUME ~moved'
               PROVE  /\ Sum(shelf') = inventory'
                      /\ \A k \in Location : shelf'[k] + LateAt(k) = Moved(k, backfill)'
    BY DEF Rows, LateAt
  <2>1. /\ Sum(shelf) = inventory
        /\ \A k \in Location : shelf[k] + LateAt(k) = Moved(k, backfill)
    BY DEF Inv, Rows
  <2>2. s = shelf
    BY <1>1, <2>1, Bridging
  <2>3. Holds(s) \/ inventory = 0
    <3>1. shelf \in [Location -> Int]
      BY <1>1, StateNumbers
    <3> QED BY <2>1, <2>2, <3>1, NoRows
  <2>4. shelf' = [shelf EXCEPT ![l] = @ + d]
    BY <1>5, <2>2, <2>3
  <2>5. \A k \in Location : shelf'[k] = shelf[k] + IF k = l THEN d ELSE 0
    <3>1. \A k \in Location : shelf[k] \in Int
      BY <1>2, Numbers
    <3> QED BY <1>2, <2>4, <3>1
  <2>6. \A k \in Location : shelf'[k] + LateAt(k) = Moved(k, backfill)'
    <3> TAKE k \in Location
    <3>1. shelf[k] \in Int /\ LateAt(k) \in Int /\ shelf[k] + LateAt(k) = Moved(k, backfill)
      BY <1>2, <2>1, Numbers
    <3>2. /\ shelf'[k] = shelf[k] + IF k = l THEN d ELSE 0
          /\ Moved(k, backfill)' = Moved(k, backfill) + IF k = l THEN d ELSE 0
      BY <1>6, <2>5
    <3>3. CASE k = l
      BY <3>1, <3>2, <3>3
    <3>4. CASE k # l
      BY <3>1, <3>2, <3>4
    <3> QED BY <3>3, <3>4
  <2> QED BY <1>5, <2>6
<1> QED BY <1>5, <1>6, <1>2, <1>10, <1>11, <1>12, Holding

\* What the business owns moves with the units that enter or leave.
LEMMA Owning ==
    ASSUME Inv, NEW d \in Int, Own(d), transfer' = transfer,
           stamped' = stamped, moved' = moved, late' \in Int, undone' = undone
    PROVE  Observed' /\ goods' - InTransit' = (goods - InTransit) + d
<1>1. Documents /\ goods \in Int /\ trade \in 0 .. MaxTrade /\ stamped \in BOOLEAN
      /\ moved \in BOOLEAN /\ undone \in BOOLEAN
  BY StateNumbers DEF Inv, TypeOK, Documents, Slips
<1>2. InTransit' = InTransit /\ InTransit \in Int
  BY <1>1, RoadStays, RoadIsNumber
<1>3. goods' = goods + d /\ goods' \in 0 .. MaxUnits /\ trade' = trade + 1 /\ trade < MaxTrade
  BY DEF Own
<1>4. trade' \in 0 .. MaxTrade
  BY <1>1, <1>3, RoomAssumption
<1> QED BY <1>1, <1>2, <1>3, <1>4 DEF Observed

\* Documents untouched stay documents.
LEMMA Untouched ==
    ASSUME Inv, UNCHANGED documents
    PROVE  Documents' /\ Fresh' /\ transfer' = transfer
BY DEF Inv, TypeOK, Documents, Slips, Fresh, documents

\* A sale, a refund, a remote adjustment.
LEMMA AdjustKeeps ==
    ASSUME Inv, NEW l \in Location, NEW d \in Int, Adjust(l, d) \/ RemoteAdjust(l, d)
    PROVE  Inv' /\ Heals
<1>1. /\ Canon(shelf, l, d) /\ (Reasoned(l, d) \/ Unreasoned(l, d))
      /\ Own(d) /\ UNCHANGED documents /\ stamped' = stamped /\ moved' = moved
      /\ late' = late /\ undone' = undone /\ late \in Int
  BY DEF Adjust, RemoteAdjust, Inv, TypeOK
<1>2. Documents' /\ Fresh' /\ transfer' = transfer
  BY <1>1, Untouched
<1>3. Observed' /\ goods' - InTransit' = (goods - InTransit) + d
  BY <1>1, <1>2, Owning
<1> QED BY <1>1, <1>2, <1>3, Writing

\* A remote sale stamps the aggregate on the default location: unless that
\* buries another location's units, all of them are there.
LEMMA StampKeeps ==
    ASSUME Inv, NEW d \in Int, Stamp(d)
    PROVE  Inv' /\ Heals
<1>1. /\ shelf \in [Location -> Int] /\ inventory \in Int /\ goods \in Int
      /\ LedgerSum(backfill) \in Int /\ Gap \in Int /\ TypeOK
      /\ shelf \in [Location -> Units] /\ backfill \in Nat /\ Main \in Location
      /\ IsFiniteSet(Location) /\ late \in Int /\ undone \in BOOLEAN
      /\ \A k \in Location : LateAt(k) \in Int
  BY StateNumbers, Numbers DEF Inv, TypeOK
<1> DEFINE over == \E l \in Location \ {Main} : shelf[l] # 0
<1>2. /\ inventory' = inventory + d /\ inventory' \in 0 .. MaxUnits
      /\ shelf' = [shelf EXCEPT ![Main] = inventory']
      /\ Reasoned(Main, d) /\ Own(d) /\ UNCHANGED documents
      /\ stamped' = (stamped \/ over) /\ moved' = (moved \/ over)
      /\ late' = late /\ undone' = undone
  BY DEF Stamp
<1> HIDE DEF over
<1>3. Documents' /\ Fresh' /\ transfer' = transfer
  BY <1>2, Untouched
<1>4. InTransit' = InTransit /\ InTransit \in Int
  BY <1>1, <1>3, RoadStays, RoadIsNumber DEF TypeOK, Documents, Slips
<1>5. Observed' /\ goods' = goods + d
  <2>1. stamped \in BOOLEAN /\ moved \in BOOLEAN /\ trade \in 0 .. MaxTrade
    BY DEF Inv, TypeOK
  <2>2. /\ goods' = goods + d /\ goods' \in 0 .. MaxUnits
        /\ trade' = trade + 1 /\ trade < MaxTrade
    BY <1>2 DEF Own
  <2>3. trade' \in 0 .. MaxTrade
    BY <2>1, <2>2, RoomAssumption
  <2>4. stamped' \in BOOLEAN /\ moved' \in BOOLEAN
    BY <1>2
  <2> QED BY <1>1, <1>2, <2>2, <2>3, <2>4 DEF Observed
<1>6. /\ recent' \in [Location -> Units] /\ aged' \in [Location -> Units]
      /\ kept' \in [Location -> Units] /\ backfill' = backfill
      /\ LedgerSum(backfill)' = LedgerSum(backfill) + d
      /\ \A k \in Location : Moved(k, backfill)' =
            Moved(k, backfill) + IF k = Main THEN d ELSE 0
  BY <1>1, <1>2, Movement
<1>7. shelf' \in [Location -> Units] /\ inventory' \in Int
  BY <1>1, <1>2, Numbers
<1>8. Gap' = Gap
  BY <1>1, <1>2, <1>6 DEF Gap
<1>9. ~over => Sum(shelf') = inventory' /\ Sum(shelf) = shelf[Main]
  <2> SUFFICES ASSUME ~over PROVE Sum(shelf') = inventory' /\ Sum(shelf) = shelf[Main]
    OBVIOUS
  <2>1. \A l \in Location \ {Main} : shelf[l] = 0 /\ shelf'[l] = 0
    BY <1>1, <1>2 DEF over
  <2>2. shelf' \in [Location -> Int] /\ shelf'[Main] = inventory'
    BY <1>1, <1>2, <1>7
  <2>3. Sum(shelf') = shelf'[Main]
    BY <1>1, <2>1, <2>2, SumOfOne
  <2>4. Sum(shelf) = shelf[Main]
    BY <1>1, <2>1, SumOfOne
  <2> QED BY <2>2, <2>3, <2>4
<1>10. Heals
  BY <1>2, <1>6, <1>8 DEF Heals
<1>11. Accounts'
  <2> SUFFICES ASSUME ~stamped' PROVE Booked' /\ Explained' /\ (~undone' => Counted')
    BY DEF Accounts
  <2>1. ~stamped /\ ~over /\ (~undone => inventory + InTransit + late = goods)
    BY <1>2 DEF Inv, Accounts, Counted
  <2>2. Explained'
    BY <1>10, StaysExplained DEF Inv
  <2>3. ~undone' => Counted'
    BY <1>1, <1>2, <1>4, <1>5, <2>1 DEF Counted
  <2> QED BY <1>9, <2>1, <2>2, <2>3 DEF Booked
<1>12. Rows'
  <2> SUFFICES ASSUME ~moved'
               PROVE  /\ Sum(shelf') = inventory'
                      /\ \A k \in Location : shelf'[k] + LateAt(k) = Moved(k, backfill)'
    BY <1>2 DEF Rows, LateAt
  <2>1. /\ ~over /\ Sum(shelf) = inventory
        /\ \A k \in Location : shelf[k] + LateAt(k) = Moved(k, backfill)
    BY <1>2 DEF Inv, Rows
  <2>2. shelf[Main] = inventory
    BY <1>9, <2>1
  <2>3. \A k \in Location : shelf'[k] = shelf[k] + IF k = Main THEN d ELSE 0
    BY <1>1, <1>2, <2>2
  <2>4. \A k \in Location : shelf'[k] + LateAt(k) = Moved(k, backfill)'
    <3> TAKE k \in Location
    <3>1. shelf[k] \in Int /\ LateAt(k) \in Int /\ shelf[k] + LateAt(k) = Moved(k, backfill)
      BY <1>1, <2>1
    <3>2. /\ shelf'[k] = shelf[k] + IF k = Main THEN d ELSE 0
          /\ Moved(k, backfill)' = Moved(k, backfill) + IF k = Main THEN d ELSE 0
      BY <1>6, <2>3
    <3>3. CASE k = Main
      BY <3>1, <3>2, <3>3
    <3>4. CASE k # Main
      BY <3>1, <3>2, <3>4
    <3> QED BY <3>3, <3>4
  <2> QED BY <1>9, <2>1, <2>4
<1> QED BY <1>1, <1>2, <1>3, <1>5, <1>6, <1>7, <1>10, <1>11, <1>12, Holding

\* A remote movement: the ledger and what it owes the cache grow alike, so the
\* gap stays, and no row or aggregate is written.
LEMMA RemoteMovementKeeps ==
    ASSUME Inv, NEW d \in Int, RemoteMovement(d)
    PROVE  Inv' /\ Heals
<1>1. /\ \/ Reasoned(Main, d)
         \/ Unreasoned(Main, d)
         \/ /\ aged[Main] + d \in Units
            /\ aged' = [aged EXCEPT ![Main] = @ + d]
            /\ UNCHANGED <<recent, kept, backfill>>
      /\ shelf' = shelf /\ inventory' = inventory /\ UNCHANGED documents
      /\ stamped' = stamped /\ moved' = moved /\ undone' = undone
      /\ late' = late + d /\ Own(d)
  BY DEF RemoteMovement, books
<1>2. /\ TypeOK /\ late \in Int /\ Main \in Location /\ inventory \in Int
      /\ goods \in Int /\ LedgerSum(backfill) \in Int /\ backfill \in Nat
      /\ shelf \in [Location -> Units] /\ inventory \in 0 .. MaxUnits
      /\ \A l \in Location : shelf[l] \in Int /\ LateAt(l) \in Int
  BY StateNumbers, Numbers DEF Inv, TypeOK
<1>3. /\ recent' \in [Location -> Units] /\ aged' \in [Location -> Units]
      /\ kept' \in [Location -> Units] /\ backfill' = backfill
      /\ LedgerSum(backfill)' = LedgerSum(backfill) + d
      /\ \A k \in Location : Moved(k, backfill)' =
            Moved(k, backfill) + IF k = Main THEN d ELSE 0
  BY <1>1, <1>2, Movement
<1>4. Documents' /\ Fresh' /\ transfer' = transfer
  BY <1>1, Untouched
<1>5. late' \in Int
  BY <1>1, <1>2
<1>6. Observed' /\ goods' = goods + d
  BY <1>1, <1>4, <1>5, Owning DEF Own
<1>7. Gap' = Gap /\ (Booked => Booked')
  BY <1>1, <1>2, <1>3 DEF Gap, Booked, Holds
<1>8. Heals
  BY <1>1, <1>3, <1>7 DEF Heals
<1>9. Counted => Counted'
  <2>1. InTransit' = InTransit /\ InTransit \in Int
    BY <1>2, <1>4, RoadStays, RoadIsNumber DEF TypeOK, Documents, Slips
  <2> QED BY <1>1, <1>2, <1>6, <2>1 DEF Counted
<1>10. Accounts'
  BY <1>1, <1>7, <1>8, <1>9, StaysExplained DEF Inv, Accounts
<1>11. Rows'
  <2>1. ASSUME ~moved', NEW l \in Location
        PROVE  shelf[l] + LateAt(l)' = Moved(l, backfill)'
    <3>1. shelf[l] + LateAt(l) = Moved(l, backfill)
      BY <1>1, <2>1 DEF Inv, Rows
    <3>2. CASE l = Main
      BY <1>1, <1>2, <1>3, <3>1, <3>2 DEF LateAt
    <3>3. CASE l # Main
      BY <1>1, <1>2, <1>3, <3>1, <3>3 DEF LateAt
    <3> QED BY <3>2, <3>3
  <2>2. ~moved' => Sum(shelf) = inventory
    BY <1>1 DEF Inv, Rows
  <2> QED BY <1>1, <2>1, <2>2 DEF Rows
<1> QED BY <1>1, <1>2, <1>3, <1>4, <1>6, <1>8, <1>10, <1>11, Holding

\* A transfer that is sent, received or cancelled with its movement of d units:
\* what the shelves gain the road loses.
LEMMA TransferKeeps ==
    ASSUME Inv, NEW t \in Transfer, NEW r, NEW l \in Location, NEW d \in Int,
           Canon(Bridged, l, d), Reasoned(l, d), UNCHANGED <<count, order, observers>>,
           transfer' = [transfer EXCEPT ![t] = r],
           r \in Slips,
           r.status = "in_transit" => r.got = 0,
           OnRoad(t)' = OnRoad(t) - d
    PROVE  Inv' /\ Heals
<1>1. Documents /\ Fresh /\ goods \in Int /\ TypeOK
  BY StateNumbers DEF Inv, TypeOK, Documents, Slips
<1>2. Documents'
  <2>1. transfer \in [Transfer -> Slips]
    BY <1>1 DEF Documents
  <2>2. transfer' \in [Transfer -> Slips]
    BY <2>1
  <2> QED BY <1>1, <2>2 DEF Documents
<1>3. Fresh'
  BY <1>1 DEF Fresh, Documents
<1>4. OnRoad(t) \in Int /\ InTransit \in Int
  <2>1. transfer[t].qty \in 0 .. MaxUnits /\ transfer[t].got \in 0 .. MaxUnits
    BY <1>1 DEF Documents, Slips
  <2>2. OnRoad(t) \in Int
    BY <2>1, RoomAssumption DEF OnRoad
  <2> QED BY <1>1, <2>2, RoadIsNumber
<1>5. OnRoad(t)' \in Int
  BY <1>4
<1>6. InTransit' = InTransit + (OnRoad(t)' - OnRoad(t))
  BY <1>1, <1>5, RoadMoves
<1>7. InTransit' = InTransit - d
  BY <1>4, <1>6
<1>8. /\ goods' = goods /\ stamped' = stamped /\ moved' = moved
      /\ late' = late /\ undone' = undone /\ Observed'
  BY DEF Inv, TypeOK, observers, Observed
<1>9. goods' - InTransit' = (goods - InTransit) + d
  BY <1>1, <1>4, <1>7, <1>8
<1>10. \E s : s = Bridged /\ (s = shelf \/ s = Bridged) /\ Canon(s, l, d)
  OBVIOUS
<1> QED BY <1>2, <1>3, <1>8, <1>9, <1>10, Writing

\* A sent transfer: what leaves the shelves is on the road.
LEMMA SendKeeps ==
    ASSUME Inv, NEW t \in Transfer, NEW from \in Location, NEW to \in Location,
           NEW q \in 1 .. MaxUnits, SendTransfer(t, from, to, q)
    PROVE  Inv' /\ Heals
<1> USE DEF Slips
<1> DEFINE r == [status |-> "in_transit", from |-> from, to |-> to, qty |-> q, got |-> 0]
<1>1. /\ Canon(Bridged, from, -q) /\ Reasoned(from, -q)
      /\ transfer' = [transfer EXCEPT ![t] = r] /\ UNCHANGED <<count, order, observers>>
      /\ transfer[t].status = "draft"
  BY DEF SendTransfer
<1>2. q \in Int /\ -q \in Int /\ q \in 0 .. MaxUnits /\ 0 \in 0 .. MaxUnits
  BY RoomAssumption
<1>3. r \in Slips
  BY <1>2
<1>4. transfer'[t] = r
  BY <1>1 DEF Inv, TypeOK
<1>5. OnRoad(t)' = OnRoad(t) - (-q)
  BY <1>1, <1>2, <1>4 DEF OnRoad
<1>6. r.status = "in_transit" => r.got = 0
  OBVIOUS
<1> HIDE DEF r
<1> QED BY <1>1, <1>2, <1>3, <1>5, <1>6, TransferKeeps

\* A receipt books what is new in the cumulative quantity.
LEMMA ReceiveKeeps ==
    ASSUME Inv, NEW t \in Transfer, NEW got \in 0 .. MaxUnits, ReceiveTransfer(t, got)
    PROVE  Inv' /\ Heals
<1> USE DEF Slips
<1> DEFINE r == [transfer[t] EXCEPT !.got = got,
                    !.status = IF got = transfer[t].qty THEN "received"
                               ELSE IF got > 0 THEN "received_partial"
                               ELSE "in_transit"]
           new == got - transfer[t].got
<1>1. /\ transfer[t].status \in {"in_transit", "received_partial"}
      /\ got \in transfer[t].got .. transfer[t].qty
      /\ transfer' = [transfer EXCEPT ![t] = r] /\ UNCHANGED <<count, order, observers>>
  BY DEF ReceiveTransfer, Inv, TypeOK
<1>2. IF new > 0 THEN Canon(Bridged, transfer[t].to, new) /\ Reasoned(transfer[t].to, new)
      ELSE UNCHANGED <<books, ledger>>
  BY DEF ReceiveTransfer
<1>3. transfer[t] \in Slips
  BY DEF Inv, TypeOK
<1>4. /\ transfer[t].to \in Location /\ transfer[t].qty \in Int /\ transfer[t].got \in Int
      /\ got \in Int /\ new \in Int /\ transfer[t].got >= 0
  BY <1>3, RoomAssumption
<1>5. r \in Slips
  BY <1>3
<1>6. transfer'[t] = r
  BY <1>1 DEF Inv, TypeOK
<1>7. OnRoad(t)' = OnRoad(t) - new
  <2>1. OnRoad(t) = transfer[t].qty - transfer[t].got
    BY <1>1 DEF OnRoad
  <2>2. /\ r.qty = transfer[t].qty /\ r.got = got
        /\ r.status = IF got = transfer[t].qty THEN "received"
                      ELSE IF got > 0 THEN "received_partial" ELSE "in_transit"
    BY <1>3
  <2>3. OnRoad(t)' = transfer[t].qty - got
    <3>1. CASE got = transfer[t].qty
      BY <1>4, <1>6, <2>2, <3>1 DEF OnRoad
    <3>2. CASE got # transfer[t].qty
      BY <1>4, <1>6, <2>2, <3>2 DEF OnRoad
    <3> QED BY <3>1, <3>2
  <2> QED BY <1>4, <2>1, <2>3
<1>8. r.status = "in_transit" => r.got = 0
  BY <1>1, <1>3, <1>4
<1>9. CASE new > 0
  <2>1. Canon(Bridged, transfer[t].to, new) /\ Reasoned(transfer[t].to, new)
    BY <1>2, <1>9
  <2> HIDE DEF r, new
  <2> QED BY <1>1, <1>4, <1>5, <1>7, <1>8, <2>1, TransferKeeps
<1>10. CASE ~(new > 0)
  <2>1. new = 0
    BY <1>1, <1>4, <1>10
  <2>2. UNCHANGED <<books, ledger, observers>>
    BY <1>1, <1>2, <1>10
  <2>3. Documents /\ Fresh
    BY DEF Inv, TypeOK, Documents, Slips
  <2> HIDE DEF r, new
  <2>4. Documents' /\ Fresh'
    BY <1>1, <1>5, <1>8, <2>3 DEF Documents, Fresh
  <2>5. OnRoad(t) \in Int /\ OnRoad(t)' \in Int /\ OnRoad(t)' = OnRoad(t)
    BY <1>4, <1>7, <2>1 DEF OnRoad
  <2>6. InTransit' = InTransit + (OnRoad(t)' - OnRoad(t))
    BY <1>1, <2>3, <2>5, RoadMoves
  <2>7. InTransit \in Int
    BY <2>3, RoadIsNumber
  <2>8. InTransit' = InTransit
    BY <2>5, <2>6, <2>7
  <2> QED BY <2>2, <2>4, <2>8, Paperwork
<1> QED BY <1>9, <1>10

\* A cancelled transfer gives back all of it, none having arrived.
LEMMA CancelKeeps ==
    ASSUME Inv, NEW t \in Transfer, CancelTransfer(t)
    PROVE  Inv' /\ Heals
<1> USE DEF Slips
<1> DEFINE r == [transfer[t] EXCEPT !.status = "cancelled"]
           q == transfer[t].qty
<1>1. /\ transfer[t].status \in {"draft", "in_transit"}
      /\ transfer' = [transfer EXCEPT ![t] = r] /\ UNCHANGED <<count, order, observers>>
  BY DEF CancelTransfer, Inv, TypeOK
<1>2. IF transfer[t].status = "in_transit"
      THEN Canon(Bridged, transfer[t].from, q) /\ Reasoned(transfer[t].from, q)
      ELSE UNCHANGED <<books, ledger>>
  BY DEF CancelTransfer
<1>3. transfer[t] \in Slips
  BY DEF Inv, TypeOK
<1>4. transfer[t].from \in Location /\ q \in Int
  BY <1>3, RoomAssumption
<1>5. r \in Slips
  BY <1>3
<1>6. transfer'[t] = r /\ r.status = "cancelled"
  BY <1>1, <1>3 DEF Inv, TypeOK
<1>7. OnRoad(t)' = 0
  BY <1>6 DEF OnRoad
<1>8. CASE transfer[t].status = "in_transit"
  <2>1. Canon(Bridged, transfer[t].from, q) /\ Reasoned(transfer[t].from, q)
    BY <1>2, <1>8
  <2>2. OnRoad(t)' = OnRoad(t) - q
    BY <1>4, <1>7, <1>8 DEF OnRoad, Inv, Fresh
  <2>3. r.status = "in_transit" => r.got = 0
    BY <1>6
  <2> HIDE DEF r, q
  <2> QED BY <1>1, <1>4, <1>5, <2>1, <2>2, <2>3, TransferKeeps
<1>9. CASE transfer[t].status = "draft"
  <2>1. UNCHANGED <<books, ledger, observers>>
    BY <1>1, <1>2, <1>9
  <2>2. Documents /\ Fresh
    BY DEF Inv, TypeOK, Documents, Slips
  <2> HIDE DEF r, q
  <2>3. Documents' /\ Fresh'
    BY <1>1, <1>5, <1>6, <2>2 DEF Documents, Fresh
  <2>4. OnRoad(t) = 0 /\ OnRoad(t)' \in Int
    BY <1>7, <1>9 DEF OnRoad
  <2>5. InTransit' = InTransit + (OnRoad(t)' - OnRoad(t))
    BY <1>1, <2>2, <2>4, RoadMoves
  <2>6. InTransit \in Int
    BY <2>2, RoadIsNumber
  <2>7. InTransit' = InTransit
    BY <1>7, <2>4, <2>5, <2>6
  <2> QED BY <2>1, <2>3, <2>7, Paperwork
<1> QED BY <1>1, <1>8, <1>9

\* Opening or closing a count moves nothing.
LEMMA CountKeeps ==
    ASSUME Inv, NEW c \in Count,
           OpenCount(c) \/ CloseCount(c)
    PROVE  Inv' /\ Heals
<1>1. UNCHANGED <<books, ledger, transfer, order, observers>> /\ Documents'
  <2>1. CASE OpenCount(c)
    <3>1. count' = [count EXCEPT ![c] = [status |-> "open", expected |-> Total]]
          /\ Total \in 0 .. MaxUnits /\ UNCHANGED <<books, ledger, transfer, order, observers>>
      BY <2>1 DEF OpenCount
    <3> QED BY <3>1 DEF Inv, TypeOK, Documents, Slips
  <2>2. CASE CloseCount(c)
    BY <2>2 DEF CloseCount, Inv, TypeOK, Documents, Slips
  <2> QED BY <2>1, <2>2
<1>2. Fresh' /\ InTransit' = InTransit
  BY <1>1, RoadStays DEF Inv, Fresh
<1> QED BY <1>1, <1>2, Paperwork

\* A completed count books the difference to what it found on the shelf, row by
\* row, so the ledger grows by what the shelves do.
LEMMA CompleteKeeps ==
    ASSUME Inv, NEW c \in Count, NEW counted \in 0 .. MaxUnits, CompleteCount(c, counted)
    PROVE  Inv' /\ Heals
<1>1. /\ TypeOK /\ shelf \in [Location -> Units] /\ inventory \in Int /\ goods \in Int
      /\ Gap \in Int /\ LedgerSum(backfill) \in Int /\ backfill \in Nat
      /\ Sum(recent) \in Int /\ Sum(aged) \in Int /\ Sum(kept) \in Int
      /\ recent \in [Location -> Int] /\ aged \in [Location -> Units]
      /\ kept \in [Location -> Units] /\ shelf \in [Location -> Int]
      /\ late \in Int /\ \A l \in Location : LateAt(l) \in Int
  BY StateNumbers DEF Inv, TypeOK
<1>2. /\ count' = [count EXCEPT ![c].status = "closed"]
      /\ UNCHANGED <<transfer, order>>
  BY DEF CompleteCount
<1>3. Documents' /\ Fresh' /\ InTransit' = InTransit /\ InTransit \in Int
  BY <1>1, <1>2, RoadStays, RoadIsNumber DEF Inv, TypeOK, Documents, Slips, Fresh
<1>4. CASE UNCHANGED <<books, ledger, observers>>
  BY <1>3, <1>4, Paperwork
<1>5. CASE /\ shelf' \in [Location -> Units]
           /\ Sum(shelf') = counted
           /\ inventory' = IF counted = Total THEN inventory ELSE counted
           /\ recent' = [l \in Location |-> recent[l] + shelf'[l] - Bridged[l]]
           /\ recent' \in [Location -> Units]
           /\ UNCHANGED <<aged, kept, backfill>>
           /\ Own(counted - Total)
           /\ UNCHANGED <<stamped, moved, late, undone>>
  <2>1. /\ Bridged \in [Location -> Int]
        /\ Booked => Sum(Bridged) = inventory
        /\ Sum(shelf) = inventory => Bridged = shelf
    BY <1>1, Bridging
  <2>2. shelf' \in [Location -> Int] /\ recent' \in [Location -> Int] /\ Sum(shelf') \in Int
        /\ Sum(recent') \in Int /\ counted \in Int /\ Sum(Bridged) \in Int
        /\ IsFiniteSet(Location)
    <3>1. /\ IsFiniteSet(Location)
          /\ \A f \in [Location -> Units] : f \in [Location -> Int] /\ Sum(f) \in Int
      BY Numbers
    <3>2. Bridged \in [Location -> Units]
      BY <1>1, Bridging
    <3> QED BY <1>5, <3>1, <3>2
  <2>3. Sum(recent') = Sum(recent) + (Sum(shelf') - Sum(Bridged))
    <3> DEFINE diff == [l \in Location |-> shelf'[l] - Bridged[l]]
    <3>1. diff \in [Location -> Int]
      BY <2>1, <2>2
    <3>2. \A l \in Location : recent'[l] = recent[l] + diff[l] /\ shelf'[l] = Bridged[l] + diff[l]
      BY <1>1, <1>5, <2>1, <2>2
    <3> HIDE DEF diff
    <3>3. Sum(recent') = Sum(recent) + Sum(diff)
      BY <1>1, <2>2, <3>1, <3>2, SumOfSums
    <3>4. Sum(shelf') = Sum(Bridged) + Sum(diff)
      BY <2>1, <2>2, <3>1, <3>2, SumOfSums
    <3>5. Sum(diff) \in Int
      BY <2>2, <3>1, SumType
    <3> QED BY <1>1, <2>2, <3>3, <3>4, <3>5
  <2>4. Booked => Total = inventory
    BY DEF Booked, Total
  <2>5. LedgerSum(backfill)' = LedgerSum(backfill) + (counted - Sum(Bridged))
    <3>1. LedgerSum(backfill)' = Sum(recent') + Sum(aged) + Sum(kept) + backfill
      BY <1>5 DEF LedgerSum
    <3>2. LedgerSum(backfill) = Sum(recent) + Sum(aged) + Sum(kept) + backfill
      BY DEF LedgerSum
    <3> QED BY <1>1, <1>5, <2>2, <2>3, <3>1, <3>2
  <2>6. inventory' \in 0 .. MaxUnits /\ (Booked => inventory' = counted)
    BY <1>5, <2>4 DEF Inv, TypeOK
  <2>7. Booked => Gap' = Gap
    <3> SUFFICES ASSUME Booked PROVE Gap' = Gap
      OBVIOUS
    <3>1. /\ Gap' = (inventory' + late) - LedgerSum(backfill)'
          /\ Gap = (inventory + late) - LedgerSum(backfill)
      BY <1>5 DEF Gap
    <3>2. inventory' = counted /\ Sum(Bridged) = inventory
      BY <2>1, <2>6
    <3> QED BY <1>1, <2>2, <2>5, <3>1, <3>2
  <2>8. Heals
    BY <1>5, <2>7 DEF Heals, Inv, Accounts
  <2>9. /\ goods' = goods + (counted - Total) /\ goods' \in 0 .. MaxUnits
        /\ trade' = trade + 1 /\ trade < MaxTrade /\ stamped' = stamped /\ moved' = moved
        /\ late' = late /\ undone' = undone
    BY <1>5 DEF Own
  <2>10. Observed'
    <3>1. /\ trade \in 0 .. MaxTrade /\ stamped \in BOOLEAN /\ moved \in BOOLEAN
          /\ late \in Int /\ undone \in BOOLEAN
      BY DEF Inv, TypeOK
    <3> QED BY <2>9, <3>1, RoomAssumption DEF Observed
  <2>11. Accounts'
    <3> SUFFICES ASSUME ~stamped' PROVE Booked' /\ Explained' /\ (~undone' => Counted')
      BY DEF Accounts
    <3>1. Booked /\ (~undone => inventory + InTransit + late = goods)
      BY <2>9 DEF Inv, Accounts, Counted
    <3>2. Booked'
      BY <1>5, <2>6, <3>1 DEF Booked
    <3>3. goods' = goods + (counted - inventory) /\ inventory' = counted
      BY <2>4, <2>6, <2>9, <3>1
    <3>4. ~undone' => Counted'
      BY <1>1, <1>3, <2>2, <2>9, <3>1, <3>3 DEF Counted
    <3>5. Explained'
      BY <2>8, StaysExplained DEF Inv
    <3> QED BY <3>2, <3>4, <3>5
  <2>12. Rows'
    <3> SUFFICES ASSUME ~moved'
                 PROVE  /\ Sum(shelf') = inventory'
                        /\ \A k \in Location : shelf'[k] + LateAt(k) = Moved(k, backfill)'
      BY <2>9 DEF Rows, LateAt
    <3>1. /\ Sum(shelf) = inventory
          /\ \A k \in Location : shelf[k] + LateAt(k) = Moved(k, backfill)
      BY <2>9 DEF Inv, Rows
    <3>2. Bridged = shelf /\ Booked
      BY <2>1, <3>1 DEF Booked
    <3>3. \A k \in Location : recent'[k] = recent[k] + shelf'[k] - shelf[k]
      BY <1>5, <3>2
    <3>4. \A k \in Location : shelf'[k] + LateAt(k) = Moved(k, backfill)'
      <4> TAKE k \in Location
      <4>1. Moved(k, backfill)' = recent'[k] + aged[k] + kept[k] + IF k = Main THEN backfill ELSE 0
        BY <1>5 DEF Moved
      <4>2. Moved(k, backfill) = recent[k] + aged[k] + kept[k] + IF k = Main THEN backfill ELSE 0
        BY DEF Moved
      <4>3. /\ recent[k] \in Int /\ aged[k] \in Int /\ kept[k] \in Int /\ shelf[k] \in Int
            /\ shelf'[k] \in Int /\ backfill \in Int /\ LateAt(k) \in Int
        BY <1>1, <2>2, Numbers
      <4>4. Moved(k, backfill)' = Moved(k, backfill) + (shelf'[k] - shelf[k])
        BY <3>3, <4>1, <4>2, <4>3
      <4>5. Moved(k, backfill) = shelf[k] + LateAt(k)
        BY <3>1
      <4> QED BY <4>3, <4>4, <4>5
    <3> QED BY <1>5, <2>6, <3>2, <3>4
  <2>13. /\ shelf' \in [Location -> Units] /\ recent' \in [Location -> Units]
         /\ aged' \in [Location -> Units] /\ kept' \in [Location -> Units] /\ backfill' \in Nat
    BY <1>1, <1>5
  <2> QED BY <1>3, <2>6, <2>8, <2>10, <2>11, <2>12, <2>13, Holding
<1> QED BY <1>4, <1>5, Zenon DEF CompleteCount

\* A purchase order, received as often as its status is set back.
LEMMA OrderKeeps ==
    ASSUME Inv, NEW o \in Order,
           \/ \E s \in {"open", "approved", "received"} : UpdateOrder(o, s)
           \/ \E q \in 0 .. MaxUnits : ReceiveOrder(o, q)
    PROVE  Inv' /\ Heals
<1>1. ASSUME NEW s \in {"open", "approved", "received"}, UpdateOrder(o, s)
      PROVE  Inv' /\ Heals
  <2>1. /\ order' = [order EXCEPT ![o] = s]
        /\ UNCHANGED <<books, ledger, transfer, count, observers>>
    BY <1>1 DEF UpdateOrder
  <2>2. Documents' /\ Fresh' /\ InTransit' = InTransit
    BY <2>1, RoadStays DEF Inv, TypeOK, Documents, Slips, Fresh
  <2> QED BY <2>1, <2>2, Paperwork
<1>2. ASSUME NEW q \in 0 .. MaxUnits, ReceiveOrder(o, q)
      PROVE  Inv' /\ Heals
  <2>1. /\ order' = [order EXCEPT ![o] = "received"]
        /\ IF q > 0 THEN Canon(shelf, Main, q) /\ Reasoned(Main, q) /\ Own(q)
           ELSE UNCHANGED <<books, ledger, goods, trade>>
        /\ UNCHANGED <<transfer, count, stamped, moved, late, undone>>
    BY <1>2 DEF ReceiveOrder
  <2>2. Documents' /\ Fresh' /\ InTransit' = InTransit
    BY <2>1, RoadStays DEF Inv, TypeOK, Documents, Slips, Fresh
  <2>3. CASE q > 0
    <3>1. Canon(shelf, Main, q) /\ Reasoned(Main, q) /\ Own(q)
          /\ stamped' = stamped /\ moved' = moved /\ transfer' = transfer
          /\ late' = late /\ undone' = undone /\ late \in Int
      BY <2>1, <2>3 DEF Inv, TypeOK
    <3>2. q \in Int /\ Main \in Location
      BY Numbers
    <3>3. Observed' /\ goods' - InTransit' = (goods - InTransit) + q
      BY <3>1, <3>2, Owning
    <3> QED BY <2>2, <3>1, <3>2, <3>3, Writing
  <2>4. CASE ~(q > 0)
    <3>1. UNCHANGED <<books, ledger, observers>>
      BY <2>1, <2>4 DEF observers
    <3> QED BY <2>2, <3>1, Paperwork
  <2> QED BY <2>3, <2>4
<1> QED BY <1>1, <1>2

\* Steps that touch only the ledger, and leave its sum and each location's part
\* of it as they were.
LEMMA LedgerOnly ==
    ASSUME Inv, UNCHANGED <<books, documents>>,
           goods' = goods, trade' = trade, stamped' = stamped,
           late' = late, undone' = undone,
           moved' \in BOOLEAN, ~moved' => ~moved,
           recent' \in [Location -> Units], aged' \in [Location -> Units],
           kept' \in [Location -> Units], backfill' \in Nat, backfill = 0 => backfill' = 0,
           LedgerSum(backfill)' = LedgerSum(backfill),
           ~moved' => \A k \in Location : Moved(k, backfill)' = Moved(k, backfill)
    PROVE  Inv' /\ Heals
<1>1. shelf' = shelf /\ inventory' = inventory
  BY DEF books
<1>2. Documents' /\ Fresh' /\ transfer' = transfer
  BY Untouched
<1>3. InTransit' = InTransit
  BY <1>2, RoadStays
<1>4. Gap' = Gap /\ (Booked => Booked') /\ (Counted => Counted')
  BY <1>1, <1>3 DEF Gap, Booked, Holds, Counted
<1>5. Heals
  BY <1>4 DEF Heals
<1>6. Accounts'
  BY <1>1, <1>3, <1>4, <1>5, StaysExplained DEF Inv, Accounts
<1>7. Rows'
  BY <1>1 DEF Inv, Rows, LateAt
<1>8. Observed' /\ shelf' \in [Location -> Units] /\ inventory' \in 0 .. MaxUnits
  BY <1>1 DEF Inv, TypeOK, Observed
<1> QED BY <1>2, <1>5, <1>6, <1>7, <1>8, Holding

\* Ageing moves every row from the young movements to the old ones.
LEMMA AgeKeeps ==
    ASSUME Inv, Age
    PROVE  Inv' /\ Heals
<1>1. /\ \A l \in Location : aged[l] + recent[l] \in Units
      /\ aged' = [l \in Location |-> aged[l] + recent[l]]
      /\ recent' = [l \in Location |-> 0]
      /\ kept' = kept /\ backfill' = backfill /\ UNCHANGED <<books, documents>>
      /\ goods' = goods /\ trade' = trade /\ stamped' = stamped /\ moved' = moved
      /\ late' = late /\ undone' = undone
  BY DEF Age, observers
<1>2. /\ recent \in [Location -> Int] /\ aged \in [Location -> Int]
      /\ kept \in [Location -> Int] /\ backfill \in Nat /\ kept \in [Location -> Units]
      /\ Sum(recent) \in Int /\ Sum(aged) \in Int /\ Sum(kept) \in Int
      /\ IsFiniteSet(Location) /\ 0 \in Units /\ moved \in BOOLEAN
  BY StateNumbers, Numbers DEF Inv, TypeOK
<1>3. /\ aged' \in [Location -> Units] /\ recent' \in [Location -> Units]
      /\ aged' \in [Location -> Int] /\ recent' \in [Location -> Int]
  BY <1>1, <1>2
<1>4. /\ \A l \in Location : recent'[l] = 0
      /\ \A l \in Location : aged'[l] = aged[l] + recent[l]
  BY <1>1
<1>5. Sum(aged') = Sum(aged) + Sum(recent)
  <2>1. /\ recent \in [Location -> Int] /\ aged \in [Location -> Int]
        /\ aged' \in [Location -> Int]
        /\ \A l \in Location : aged'[l] = aged[l] + recent[l]
    BY <1>2, <1>3, <1>4
  <2> QED BY <2>1, SumOfRows, Zenon
<1>6. Sum(recent') = 0
  BY <1>2, <1>3, <1>4, SumOfZeros
<1>7. LedgerSum(backfill)' = LedgerSum(backfill)
  BY <1>1, <1>2, <1>5, <1>6 DEF LedgerSum
<1>8. \A k \in Location : Moved(k, backfill)' = Moved(k, backfill)
  BY <1>1, <1>2, <1>4 DEF Moved
<1> QED BY <1>1, <1>2, <1>3, <1>7, <1>8, LedgerOnly

\* The rollup at the default location carries what all old rows summed to.
LEMMA ArchiveKeeps ==
    ASSUME Inv, NEW b, Archive(b)
    PROVE  Inv' /\ Heals
<1> DEFINE away == \E l \in Location \ {Main} : aged[l] # 0
<1>1. /\ b \in {0, backfill} /\ kept[Main] + (Sum(aged) + b) \in Units
      /\ kept' = [kept EXCEPT ![Main] = @ + (Sum(aged) + b)]
      /\ aged' = [l \in Location |-> 0] /\ backfill' = backfill - b
      /\ moved' = (moved \/ away) /\ recent' = recent
      /\ UNCHANGED <<books, documents>>
      /\ goods' = goods /\ trade' = trade /\ stamped' = stamped
      /\ late' = late /\ undone' = undone
  BY DEF Archive
<1> HIDE DEF away
<1>2. /\ recent \in [Location -> Int] /\ aged \in [Location -> Int]
      /\ kept \in [Location -> Int] /\ backfill \in Nat /\ kept \in [Location -> Units]
      /\ recent \in [Location -> Units]
      /\ Sum(recent) \in Int /\ Sum(aged) \in Int /\ Sum(kept) \in Int
      /\ IsFiniteSet(Location) /\ 0 \in Units /\ moved \in BOOLEAN /\ Main \in Location
  BY StateNumbers, Numbers DEF Inv, TypeOK
<1>3. b \in Int /\ backfill' \in Nat /\ (backfill = 0 => backfill' = 0)
  BY <1>1, <1>2
<1>4. /\ aged' \in [Location -> Units] /\ aged' \in [Location -> Int]
      /\ kept' \in [Location -> Units] /\ \A l \in Location : aged'[l] = 0
  BY <1>1, <1>2
<1>5. Sum(aged') = 0
  BY <1>2, <1>4, SumOfZeros
<1>6. Sum(kept') = Sum(kept) + (Sum(aged) + b)
  <2>1. Sum(aged) + b \in Int
    BY <1>2, <1>3
  <2> QED BY <1>1, <1>2, <2>1, SumMoves
<1>7. LedgerSum(backfill)' = LedgerSum(backfill)
  <2>1. LedgerSum(backfill)' = Sum(recent') + Sum(aged') + Sum(kept') + backfill'
    BY DEF LedgerSum
  <2>2. LedgerSum(backfill) = Sum(recent) + Sum(aged) + Sum(kept) + backfill
    BY DEF LedgerSum
  <2> QED BY <1>1, <1>2, <1>3, <1>5, <1>6, <2>1, <2>2
<1>8. ~moved' => \A k \in Location : Moved(k, backfill)' = Moved(k, backfill)
  <2> SUFFICES ASSUME ~moved', NEW k \in Location
               PROVE  Moved(k, backfill)' = Moved(k, backfill)
    OBVIOUS
  <2>1. \A l \in Location \ {Main} : aged[l] = 0
    BY <1>1 DEF away
  <2>2. Sum(aged) = aged[Main]
    BY <1>2, <2>1, SumOfOne
  <2>3. Moved(k, backfill)' = recent'[k] + aged'[k] + kept'[k] + IF k = Main THEN backfill' ELSE 0
    BY DEF Moved
  <2>4. Moved(k, backfill) = recent[k] + aged[k] + kept[k] + IF k = Main THEN backfill ELSE 0
    BY DEF Moved
  <2>5. kept'[k] = IF k = Main THEN kept[Main] + (aged[Main] + b) ELSE kept[k]
    BY <1>1, <1>2, <2>2
  <2>6. /\ recent[k] \in Int /\ aged[k] \in Int /\ kept[k] \in Int
        /\ recent'[k] = recent[k] /\ aged'[k] = 0
    BY <1>1, <1>2, <1>4
  <2>7. CASE k = Main
    BY <1>1, <1>2, <1>3, <2>3, <2>4, <2>5, <2>6, <2>7
  <2>8. CASE k # Main
    BY <2>1, <2>3, <2>4, <2>5, <2>6, <2>8
  <2> QED BY <2>7, <2>8
<1>9. moved' \in BOOLEAN /\ (~moved' => ~moved)
  BY <1>1, <1>2
<1> QED BY <1>1, <1>2, <1>3, <1>4, <1>7, <1>8, <1>9, LedgerOnly

\* The rows of a rebuild add up to the ledger.
LEMMA RowsAddUp ==
    ASSUME TypeOK, NEW b \in Int
    PROVE  /\ Sum([l \in Location |-> Moved(l, b)]) = LedgerSum(b)
           /\ [l \in Location |-> Moved(l, b)] \in [Location -> Int]
<1> DEFINE old == [l \in Location |-> recent[l] + aged[l]]
           rows == [l \in Location |-> recent[l] + aged[l] + kept[l]]
           main == [l \in Location |-> IF l = Main THEN b ELSE 0]
           all == [l \in Location |-> Moved(l, b)]
<1>1. /\ recent \in [Location -> Int] /\ aged \in [Location -> Int]
      /\ kept \in [Location -> Int] /\ IsFiniteSet(Location) /\ Main \in Location
      /\ Sum(recent) \in Int /\ Sum(aged) \in Int /\ Sum(kept) \in Int
  BY StateNumbers, Numbers
<1>2. /\ old \in [Location -> Int] /\ rows \in [Location -> Int]
      /\ main \in [Location -> Int] /\ all \in [Location -> Int]
  BY <1>1 DEF Moved
<1>3. /\ \A l \in Location : old[l] = recent[l] + aged[l]
      /\ \A l \in Location : rows[l] = old[l] + kept[l]
      /\ \A l \in Location : all[l] = rows[l] + main[l]
  BY <1>1 DEF Moved
<1>4. main[Main] = b /\ \A l \in Location \ {Main} : main[l] = 0
  BY <1>1
<1> HIDE DEF old, rows, main, all
<1>5. Sum(old) = Sum(recent) + Sum(aged)
  BY <1>1, <1>2, <1>3, SumOfRows, Zenon
<1>6. Sum(rows) = Sum(old) + Sum(kept)
  BY <1>1, <1>2, <1>3, SumOfRows, Zenon
<1>7. Sum(all) = Sum(rows) + Sum(main)
  BY <1>1, <1>2, <1>3, SumOfRows, Zenon
<1>8. Sum(main) = b
  BY <1>1, <1>2, <1>4, SumOfOne
<1>9. Sum(all) = LedgerSum(b)
  BY <1>5, <1>6, <1>7, <1>8 DEF LedgerSum
<1> QED BY <1>2, <1>9 DEF all

\* A rebuild closes the gap: a legacy aggregate becomes the backfill row, the
\* remote movements become units, and then the ledger explains every unit.
LEMMA RebuildKeeps ==
    ASSUME Inv, Rebuild
    PROVE  Inv' /\ Heals
<1>1. /\ TypeOK /\ inventory \in Int /\ backfill \in Nat /\ goods \in Int /\ late \in Int
      /\ LedgerSum(backfill) \in Int /\ Sum(recent) \in Int /\ Sum(aged) \in Int
      /\ Sum(kept) \in Int /\ recent \in [Location -> Units]
      /\ aged \in [Location -> Units] /\ kept \in [Location -> Units]
      /\ undone \in BOOLEAN
  BY StateNumbers DEF Inv, TypeOK
<1>2. /\ LedgerSum(Healed) \in 0 .. MaxUnits
      /\ \A l \in Location : Moved(l, Healed) \in Units
      /\ backfill' = Healed /\ shelf' = [l \in Location |-> Moved(l, Healed)]
      /\ inventory' = LedgerSum(Healed) /\ moved' = FALSE
      /\ recent' = recent /\ aged' = aged /\ kept' = kept /\ UNCHANGED documents
      /\ goods' = goods /\ trade' = trade /\ stamped' = stamped
      /\ late' = 0 /\ undone' = (undone \/ late < 0 \/ (late # 0 /\ ~Complete))
  BY DEF Rebuild
<1>3. Healed \in Nat
  <2>1. inventory > LedgerSum(backfill) => inventory - LedgerSum(backfill) \in Nat
    BY <1>1
  <2> QED BY <1>1, <2>1 DEF Healed
<1>4. Sum(shelf') = inventory' /\ shelf' \in [Location -> Units]
  BY <1>1, <1>2, <1>3, RowsAddUp
<1>5. Documents' /\ Fresh' /\ transfer' = transfer
  BY <1>2, Untouched
<1>6. InTransit' = InTransit
  BY <1>5, RoadStays
<1>7. LedgerSum(backfill)' = inventory' /\ \A k \in Location : shelf'[k] = Moved(k, backfill)'
  BY <1>2 DEF LedgerSum, Moved
<1>8. inventory' \in Int
  BY <1>2, RoomAssumption
<1>9. Gap' = 0
  <2>1. Gap' = (inventory' + late') - LedgerSum(backfill)'
    BY DEF Gap
  <2>2. Gap' = (inventory' + 0) - inventory'
    BY <1>2, <1>7, <2>1, Zenon
  <2>3. \A n \in Int : (n + 0) - n = 0
    OBVIOUS
  <2> QED BY <1>8, <2>2, <2>3, Zenon
<1>10. Heals
  BY <1>2, <1>9 DEF Heals
<1>11. ~stamped /\ ~undone' => inventory' = inventory + late /\ ~undone
  <2> SUFFICES ASSUME ~stamped, ~undone' PROVE inventory' = inventory + late /\ ~undone
    OBVIOUS
  <2>1. Booked /\ Explained
    BY DEF Inv, Accounts
  <2>2. ~undone /\ ~(late < 0) /\ (late = 0 \/ Complete)
    BY <1>2
  <2>3. \A b \in Int : LedgerSum(b) = LedgerSum(backfill) + (b - backfill)
    BY <1>1 DEF LedgerSum
  <2>4. Complete => Gap = 0
    BY <1>1, <2>1 DEF Complete, Gap, Total, Booked
  <2>5. CASE Gap = 0
    <3>1. Healed = backfill
      BY <1>1, <2>2, <2>5 DEF Healed, Gap
    <3> QED BY <1>1, <1>2, <2>2, <2>5, <3>1 DEF Gap
  <2>6. CASE Gap = Legacy /\ backfill = 0 /\ Gap # 0
    <3>1. late = 0
      BY <2>2, <2>4, <2>6
    <3>2. inventory > LedgerSum(backfill)
      BY <1>1, <2>6, <3>1, Numbers DEF Gap
    <3>3. Healed = inventory - LedgerSum(backfill)
      BY <2>1, <3>2 DEF Healed, Booked
    <3>4. LedgerSum(Healed) = LedgerSum(backfill) + (Healed - backfill)
      BY <1>3, <2>3
    <3> QED BY <1>1, <1>2, <2>2, <2>6, <3>1, <3>3, <3>4
  <2> QED BY <2>1, <2>5, <2>6 DEF Explained
<1>12. Accounts'
  <2> SUFFICES ASSUME ~stamped' PROVE Booked' /\ Explained' /\ (~undone' => Counted')
    BY DEF Accounts
  <2>1. Explained'
    BY <1>10, StaysExplained DEF Inv
  <2>2. ASSUME ~undone' PROVE Counted'
    <3>1. Counted /\ inventory' = inventory + late
      BY <1>2, <1>11, <2>2 DEF Inv, Accounts
    <3>2. InTransit \in Int
      BY <1>1, RoadIsNumber DEF TypeOK, Documents, Slips
    <3> QED BY <1>1, <1>2, <1>6, <3>1, <3>2 DEF Counted
  <2> QED BY <1>4, <2>1, <2>2 DEF Booked
<1>13. Rows'
  <2>1. \A k \in Location : LateAt(k)' = 0 /\ shelf'[k] \in Int
    BY <1>2, <1>4, Numbers DEF LateAt
  <2> QED BY <1>4, <1>7, <2>1 DEF Rows
<1>14. Observed'
  <2>1. undone' = (undone \/ late < 0 \/ (late # 0 /\ ~Complete))
    BY <1>2
  <2>2. (undone \/ late < 0 \/ (late # 0 /\ ~Complete)) \in BOOLEAN
    BY Zenon
  <2>3. undone' \in BOOLEAN
    BY <2>1, <2>2, Zenon
  <2>4. /\ goods' = goods /\ trade' = trade /\ stamped' = stamped
        /\ moved' = FALSE /\ late' = 0
    BY <1>2
  <2>5. goods \in 0 .. MaxUnits /\ trade \in 0 .. MaxTrade /\ stamped \in BOOLEAN
    BY <1>1 DEF TypeOK
  <2>6. stamped' \in BOOLEAN /\ moved' \in BOOLEAN
    BY <2>4, <2>5, Zenon
  <2>7. goods' \in 0 .. MaxUnits /\ trade' \in 0 .. MaxTrade /\ late' \in Int
    BY <2>4, <2>5
  <2> QED BY <2>3, <2>6, <2>7, Zenon DEF Observed
<1> QED BY <1>1, <1>2, <1>3, <1>4, <1>5, <1>10, <1>12, <1>13, <1>14, Holding

-----------------------------------------------------------------------------
(* The theorems                                                            *)

\* The first start over a legacy aggregate.
LEMMA InvInit == Init => Inv
<1> SUFFICES ASSUME Init PROVE Inv
  OBVIOUS
<1> USE DEF Init, Slips
<1>1. /\ Main \in Location /\ 0 \in Units /\ 0 \in 0 .. MaxUnits /\ 0 \in 0 .. MaxTrade
      /\ Legacy \in 0 .. MaxUnits /\ Legacy \in Int
      /\ IsFiniteSet(Location) /\ IsFiniteSet(Transfer)
  BY Numbers, RoomAssumption
<1> DEFINE zero == [l \in Location |-> 0]
<1>2. zero \in [Location -> Units] /\ zero \in [Location -> Int] /\ \A l \in Location : zero[l] = 0
  BY <1>1
<1>3. shelf = zero /\ recent = zero /\ aged = zero /\ kept = zero
  OBVIOUS
<1> HIDE DEF zero
<1>4. Sum(zero) = 0
  BY <1>1, <1>2, SumOfZeros
<1>5. TypeOK
  <2>1. Draft \in Slips
    BY <1>1 DEF Draft
  <2> QED BY <1>1, <1>2, <1>3, <2>1 DEF TypeOK
<1>6. Fresh
  BY DEF Fresh, Draft
<1>7. LedgerSum(backfill) = 0
  BY <1>3, <1>4 DEF LedgerSum
<1>8. InTransit = 0
  <2>1. \A t \in Transfer : OnRoad(t) = 0
    BY DEF OnRoad, Draft
  <2> DEFINE f == [t \in Transfer |-> OnRoad(t)]
  <2>2. f \in [Transfer -> Int] /\ \A t \in Transfer : f[t] = 0
    BY <2>1
  <2> HIDE DEF f
  <2>3. Sum(f) = 0
    BY <1>1, <2>2, SumOfZeros
  <2> QED BY <2>3 DEF InTransit, f
<1>9. Gap = Legacy /\ Counted
  BY <1>1, <1>7, <1>8 DEF Gap, Counted
<1>10. ~Holds(shelf)
  BY <1>2, <1>3 DEF Holds
<1>11. Accounts
  BY <1>9, <1>10 DEF Accounts, Booked, Explained
<1>12. Rows
  <2> SUFFICES ASSUME ~moved
               PROVE  /\ Sum(shelf) = inventory
                      /\ \A l \in Location : shelf[l] + LateAt(l) = Moved(l, backfill)
    BY DEF Rows
  <2>1. Legacy = 0
    OBVIOUS
  <2>2. Sum(shelf) = inventory
    BY <1>3, <1>4, <2>1
  <2>3. \A l \in Location : shelf[l] + LateAt(l) = Moved(l, backfill)
    BY <1>2, <1>3 DEF Moved, LateAt
  <2> QED BY <2>2, <2>3
<1> QED BY <1>5, <1>6, <1>11, <1>12 DEF Inv

\* Every operation keeps the invariant and opens no gap.
LEMMA InvStep ==
    ASSUME Inv, [Next]_vars
    PROVE  Inv' /\ Heals
<1>1. ASSUME NEW l \in Location, NEW d \in Delta, Adjust(l, d) \/ RemoteAdjust(l, d)
      PROVE  Inv' /\ Heals
  <2>1. d \in Int
    BY DEF Delta
  <2> QED BY <1>1, <2>1, AdjustKeeps
<1>2. ASSUME NEW d \in Delta, RemoteSale(d) \/ RemoteAdjustAnywhere(d) \/ RemoteMovement(d)
      PROVE  Inv' /\ Heals
  <2>1. d \in Int /\ Main \in Location
    BY Numbers DEF Delta
  <2>2. Stamp(d) \/ RemoteAdjust(Main, d) \/ RemoteMovement(d)
    BY <1>2 DEF RemoteSale, RemoteAdjustAnywhere
  <2> QED BY <2>1, <2>2, AdjustKeeps, StampKeeps, RemoteMovementKeeps
<1>3. ASSUME NEW t \in Transfer, NEW from \in Location, NEW to \in Location,
             NEW q \in 1 .. MaxUnits, SendTransfer(t, from, to, q)
      PROVE  Inv' /\ Heals
  BY <1>3, SendKeeps
<1>4. ASSUME NEW t \in Transfer, NEW got \in 0 .. MaxUnits, ReceiveTransfer(t, got)
      PROVE  Inv' /\ Heals
  BY <1>4, ReceiveKeeps
<1>5. ASSUME NEW t \in Transfer, CancelTransfer(t) PROVE Inv' /\ Heals
  BY <1>5, CancelKeeps
<1>6. ASSUME NEW c \in Count, OpenCount(c) \/ CloseCount(c) PROVE Inv' /\ Heals
  BY <1>6, CountKeeps
<1>7. ASSUME NEW c \in Count, NEW counted \in 0 .. MaxUnits, CompleteCount(c, counted)
      PROVE  Inv' /\ Heals
  BY <1>7, CompleteKeeps
<1>8. ASSUME NEW o \in Order,
             \/ \E s \in {"open", "approved", "received"} : UpdateOrder(o, s)
             \/ \E q \in 0 .. MaxUnits : ReceiveOrder(o, q)
      PROVE  Inv' /\ Heals
  BY <1>8, OrderKeeps
<1>9. CASE Age
  BY <1>9, AgeKeeps
<1>10. ASSUME NEW b \in 0 .. MaxUnits, Archive(b) PROVE Inv' /\ Heals
  BY <1>10, ArchiveKeeps
<1>11. CASE Rebuild
  BY <1>11, RebuildKeeps
<1>12. CASE UNCHANGED vars
  <2>1. UNCHANGED <<books, ledger, observers, documents>>
    BY <1>12 DEF vars
  <2>2. Documents' /\ Fresh' /\ transfer' = transfer
    BY <2>1, Untouched
  <2> QED BY <2>1, <2>2, RoadStays, Paperwork
<1> QED
  BY <1>1, <1>2, <1>3, <1>4, <1>5, <1>6, <1>7, <1>8, <1>9, <1>10, <1>11, <1>12, Zenon DEF Next

\* Inv holds in every reachable state.
THEOREM AlwaysInv == Spec => []Inv
<1>1. Inv /\ [Next]_vars => Inv'
  BY InvStep
<1> QED BY InvInit, <1>1, PTL DEF Spec

\* The ledger, the cache, the aggregate, the documents and the observers keep
\* their types: no writer leaves a negative aggregate or backfill row.
THEOREM TypesHold == Spec => []TypeOK
<1>1. Inv => TypeOK
  BY DEF Inv
<1> QED BY AlwaysInv, <1>1, PTL

\* What the grid shows, what is on the road and what remote movements have yet
\* to add is what the business owns, for any number of locations, transfers,
\* counts, orders and legacy units, until a remote sale stamps the aggregate
\* over another location's stock or a rebuild heals remote movements away.
THEOREM BooksAgree == Spec => []GoodsAccounted
<1>1. Inv => GoodsAccounted
  <2> SUFFICES ASSUME Inv, ~stamped, ~undone
               PROVE  /\ Total + InTransit + late = goods
                      /\ Holds(shelf) => inventory = Sum(shelf)
    BY DEF GoodsAccounted
  <2>1. Booked /\ inventory + InTransit + late = goods
    BY DEF Inv, Accounts, Counted
  <2>2. Total = inventory
    BY <2>1 DEF Booked, Total
  <2> QED BY <2>1, <2>2 DEF Booked
<1> QED BY AlwaysInv, <1>1, PTL

\* Row by row the cache is what a rebuild would write, less the remote movements
\* no rebuild has met, until a legacy aggregate, a stamp or a rollup parts them;
\* a rebuild joins them again.
THEOREM CacheAgrees == Spec => []CacheIsLedger
<1>1. Inv => CacheIsLedger
  BY DEF Inv, Rows, CacheIsLedger
<1> QED BY AlwaysInv, <1>1, PTL

\* Once the ledger explains the stock, and what remote movements will add to it,
\* no writer, archive or rebuild opens a gap.
THEOREM LedgerComplete == Spec => LedgerStaysComplete
<1>1. Inv /\ Inv' /\ Heals => (Complete /\ ~stamped' => Complete')
  <2> SUFFICES ASSUME Inv, Inv', Heals, Complete, ~stamped' PROVE Complete'
    OBVIOUS
  <2>1. Booked /\ Booked'
    BY DEF Inv, Accounts, Heals
  <2>2. Total = inventory /\ Total' = inventory'
    BY <2>1 DEF Booked, Total
  <2>3. LedgerSum(backfill) = inventory + late /\ inventory \in Int /\ late \in Int
    BY <2>2, StateNumbers DEF Complete, Inv
  <2>4. Gap = 0
    BY <2>3 DEF Gap
  <2>5. Gap' = 0
    BY <2>4 DEF Heals
  <2>6. inventory' \in Int /\ late' \in Int /\ LedgerSum(backfill)' \in Int
    <3>1. /\ recent' \in [Location -> Units] /\ aged' \in [Location -> Units]
          /\ kept' \in [Location -> Units] /\ backfill' \in Nat
          /\ inventory' \in 0 .. MaxUnits /\ late' \in Int
      BY DEF Inv, TypeOK
    <3>2. Sum(recent') \in Int /\ Sum(aged') \in Int /\ Sum(kept') \in Int
      BY <3>1, Numbers
    <3> QED BY <3>1, <3>2, RoomAssumption DEF LedgerSum
  <2>7. LedgerSum(backfill)' = inventory' + late'
    BY <2>5, <2>6 DEF Gap
  <2> QED BY <2>2, <2>7 DEF Complete
<1>2. Inv /\ [Next]_vars => Inv' /\ Heals
  BY InvStep
<1>3. Inv /\ [Next]_vars => [Complete /\ ~stamped' => Complete']_vars
  BY <1>1, <1>2
<1> QED BY AlwaysInv, <1>3, PTL DEF Spec, LedgerStaysComplete

-----------------------------------------------------------------------------
(* What the rollup costs                                                   *)

\* Where the movements explain the stock they explain it place by place.
Placed == ~stamped /\ Gap = 0 => ~moved

\* Only a rollup of another location's movements, or a stamp over another
\* location's stock, parts cache and ledger about places.
LEMMA MovedStays ==
    ASSUME Next, ~moved, ~stamped',
           (\E b \in 0 .. MaxUnits : Archive(b)) => \A l \in Location \ {Main} : aged[l] = 0
    PROVE  ~moved'
<1>1. ASSUME NEW d \in Delta, Stamp(d) PROVE ~moved'
  BY <1>1 DEF Stamp
<1>2. ASSUME NEW l \in Location, NEW d \in Delta, Adjust(l, d) \/ RemoteAdjust(l, d)
      PROVE  ~moved'
  BY <1>2 DEF Adjust, RemoteAdjust
<1>3. ASSUME NEW d \in Delta, RemoteSale(d) \/ RemoteAdjustAnywhere(d) \/ RemoteMovement(d)
      PROVE  ~moved'
  BY <1>1, <1>3 DEF RemoteSale, RemoteAdjustAnywhere, RemoteAdjust, RemoteMovement
<1>4. ASSUME NEW t \in Transfer,
             \/ \E from, to \in Location, q \in 1 .. MaxUnits : SendTransfer(t, from, to, q)
             \/ \E got \in 0 .. MaxUnits : ReceiveTransfer(t, got)
             \/ CancelTransfer(t)
      PROVE  ~moved'
  BY <1>4 DEF SendTransfer, ReceiveTransfer, CancelTransfer, observers
<1>5. ASSUME NEW c \in Count,
             \/ OpenCount(c) \/ CloseCount(c)
             \/ \E counted \in 0 .. MaxUnits : CompleteCount(c, counted)
      PROVE  ~moved'
  BY <1>5 DEF OpenCount, CloseCount, CompleteCount, observers
<1>6. ASSUME NEW o \in Order,
             \/ \E s \in {"open", "approved", "received"} : UpdateOrder(o, s)
             \/ \E q \in 0 .. MaxUnits : ReceiveOrder(o, q)
      PROVE  ~moved'
  BY <1>6 DEF UpdateOrder, ReceiveOrder, observers
<1>7. CASE Age
  BY <1>7 DEF Age, observers
<1>8. CASE \E b \in 0 .. MaxUnits : Archive(b)
  BY <1>8 DEF Archive
<1>9. CASE Rebuild
  BY <1>9 DEF Rebuild
<1> QED BY <1>2, <1>3, <1>4, <1>5, <1>6, <1>7, <1>8, <1>9, Zenon DEF Next

\* A complete ledger that has nothing new leaves no gap, and so nothing to heal.
LEMMA NothingToHeal ==
    ASSUME Inv, Complete, late = 0, ~stamped
    PROVE  Gap = 0 /\ Healed = backfill
<1>1. Booked
  BY DEF Inv, Accounts
<1>2. Total = inventory
  BY <1>1 DEF Booked, Total
<1>3. LedgerSum(backfill) = inventory /\ inventory \in Int
  BY <1>2, StateNumbers DEF Complete, Inv
<1> QED BY <1>3 DEF Gap, Healed

\* The ledger starts empty.
LEMMA InitLedger == Init => LedgerSum(backfill) = 0 /\ Legacy \in Int
<1> SUFFICES ASSUME Init PROVE LedgerSum(backfill) = 0 /\ Legacy \in Int
  OBVIOUS
<1> DEFINE zero == [l \in Location |-> 0]
<1>1. zero \in [Location -> Int] /\ \A l \in Location : zero[l] = 0
  OBVIOUS
<1>2. recent = zero /\ aged = zero /\ kept = zero /\ backfill = 0
  BY DEF Init
<1> HIDE DEF zero
<1>3. Sum(zero) = 0
  BY <1>1, SumOfZeros, RoomAssumption
<1> QED BY <1>2, <1>3, Numbers, RoomAssumption DEF LedgerSum

\* A rebuild_stock_summary that finds no remote movement it has not met moves no
\* unit the movements account for, in any number of locations and over any
\* legacy aggregate, as long as retention has folded the movements of the
\* default location only.
THEOREM RebuildsKeepPlaces == Spec /\ FoldsMainOnly => RebuildKeepsPlaces
<1>1. Init => Placed
  <2> SUFFICES ASSUME Init, Gap = 0 PROVE ~moved
    BY DEF Placed
  <2>1. LedgerSum(backfill) = 0 /\ Legacy \in Int
    BY InitLedger
  <2>2. Gap = Legacy
    BY <2>1 DEF Init, Gap
  <2>3. Legacy = 0
    BY <2>2
  <2> QED BY <2>3, Zenon DEF Init
<1>2. ASSUME Inv, Placed, [Next]_vars,
             [(\E b \in 0 .. MaxUnits : Archive(b))
                 => \A l \in Location \ {Main} : aged[l] = 0]_vars
      PROVE  Placed'
  <2>1. CASE UNCHANGED vars
    BY <1>2, <2>1 DEF vars, books, ledger, observers, Placed, Gap, LedgerSum
  <2>2. CASE Next /\ ~UNCHANGED vars
    <3> SUFFICES ASSUME ~stamped', Gap' = 0 PROVE ~moved'
      BY DEF Placed
    <3>1. Heals
      BY <1>2, InvStep
    <3>2. ~moved' \/ (~stamped /\ Gap = 0)
      BY <3>1 DEF Heals
    <3>3. ~moved' \/ ~moved
      BY <1>2, <3>2 DEF Placed
    <3>4. (\E b \in 0 .. MaxUnits : Archive(b)) => \A l \in Location \ {Main} : aged[l] = 0
      BY <1>2, <2>2, Zenon
    <3> QED BY <2>2, <3>3, <3>4, MovedStays, Zenon
  <2> QED BY <1>2, <2>1, <2>2
<1>3. ASSUME Inv, Placed, Complete, late = 0, ~stamped, Rebuild PROVE shelf' = shelf
  <2>1. Healed = backfill /\ ~moved
    BY <1>3, NothingToHeal DEF Placed
  <2>2. \A l \in Location : shelf[l] = Moved(l, backfill)
    <3>1. \A l \in Location : shelf[l] \in Int /\ LateAt(l) = 0
      BY <1>3, StateNumbers DEF Inv, LateAt
    <3> QED BY <1>3, <2>1, <3>1 DEF Inv, Rows
  <2>3. shelf \in [Location -> Units]
    BY <1>3 DEF Inv, TypeOK
  <2> QED BY <1>3, <2>1, <2>2, <2>3 DEF Rebuild
<1>4. Inv /\ Placed => [Complete /\ late = 0 /\ ~stamped /\ Rebuild => shelf' = shelf]_vars
  BY <1>3
<1> QED BY <1>1, <1>2, <1>4, AlwaysInv, PTL DEF Spec, FoldsMainOnly, RebuildKeepsPlaces
================================================================================
