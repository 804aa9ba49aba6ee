--------------------------- MODULE SaleLedgerProofs ---------------------------
(***************************************************************************)
(* Proofs about SaleLedger for every cart, route and number of sales: how  *)
(* a sale settles, what refunds may give back, what its award can be, and  *)
(* that books and shelf agree.  The lemmas about Sum are those of          *)
(* StockRoomProofs; the ones about Part and about sums of sums follow.     *)
(***************************************************************************)
EXTENDS SaleLedger, FiniteSetTheorems, WellFoundedInduction, SequenceTheorems, TLAPS

-----------------------------------------------------------------------------
(* Sums                                                                    *)

\* Of any non-empty collection of subsets of a finite set one is smallest: this
\* is how the proofs below do induction.
LEMMA SmallestSet ==
    ASSUME NEW D, IsFiniteSet(D), NEW B \in SUBSET (SUBSET D), B # {}
    PROVE  \E b \in B : \A c \in SUBSET b : c # b => c \notin B
<1>1. IsWellFoundedOn(StrictSubsetOrdering(D), FiniteSubsetsOf(D))
  BY FS_StrictSubsetOrderingWellFounded
<1>2. B \subseteq FiniteSubsetsOf(D)
  BY FS_Subset DEF FiniteSubsetsOf
<1>3. PICK b \in B : \A c \in B : ~ (<<c, b>> \in StrictSubsetOrdering(D))
  BY <1>1, <1>2, WFMin
<1> QED BY <1>2, <1>3 DEF StrictSubsetOrdering, FiniteSubsetsOf

\* Likewise for numbers, through their initial segments.
LEMMA SmallestNumber ==
    ASSUME NEW B \in SUBSET Nat, B # {}
    PROVE  \E b \in B : \A n \in B : b <= n
<1>1. PICK m \in B : TRUE
  OBVIOUS
<1> DEFINE Below == {0 .. n : n \in {k \in B : k <= m}}
<1>2. IsFiniteSet(0 .. m)
  BY FS_Interval
<1>3. Below \in SUBSET (SUBSET (0 .. m)) /\ 0 .. m \in Below /\ Below # {}
  OBVIOUS
<1> HIDE DEF Below
<1>4. \A X, Y : IsFiniteSet(X) /\ Y \in SUBSET (SUBSET X) /\ Y # {}
        => \E s \in Y : \A c \in SUBSET s : c # s => c \notin Y
  BY SmallestSet
<1>5. PICK s \in Below : \A c \in SUBSET s : c # s => c \notin Below
  <2>1. IsFiniteSet(0 .. m) /\ Below \in SUBSET (SUBSET (0 .. m)) /\ Below # {}
          => \E s \in Below : \A c \in SUBSET s : c # s => c \notin Below
    BY <1>4, Zenon
  <2> QED BY <1>2, <1>3, <2>1, Zenon
<1> USE DEF Below
<1>6. PICK b \in B : b <= m /\ s = 0 .. b
  BY <1>5
<1>7. ASSUME NEW n \in B PROVE b <= n
  <2>1. SUFFICES ASSUME n < b PROVE FALSE
    BY <1>6
  <2>2. 0 .. n \in Below
    BY <1>6, <2>1
  <2>3. 0 .. n \subseteq s /\ 0 .. n # s
    BY <1>6, <2>1
  <2> QED BY <1>5, <2>2, <2>3
<1> QED BY <1>7

\* The element the library's fold takes first
Pick(s) == CHOOSE x \in s : TRUE

\* One step of the fold, on a set s of the domain of f
Turn(f, g, s) == IF s = {} THEN 0 ELSE f[Pick(s)] + g[s \ {Pick(s)}]

\* The library's fold is some function that satisfies its equation, if there
\* is one.
LEMMA SumIsFold ==
    ASSUME NEW D, NEW f, DOMAIN f = D,
           NEW g, g = [s \in SUBSET D |-> Turn(f, g, s)]
    PROVE  \E h : h = [s \in SUBSET D |-> Turn(f, h, s)] /\ Sum(f) = h[D]
<1> DEFINE it == CHOOSE h : h = [s \in SUBSET D |->
                    IF s = {} THEN 0
                    ELSE f[CHOOSE x \in s : TRUE] + h[s \ {CHOOSE x \in s : TRUE}]]
<1>1. it = [s \in SUBSET D |->
              IF s = {} THEN 0
              ELSE f[CHOOSE x \in s : TRUE] + it[s \ {CHOOSE x \in s : TRUE}]]
  <2>1. \E h : h = [s \in SUBSET D |->
                 IF s = {} THEN 0
                 ELSE f[CHOOSE x \in s : TRUE] + h[s \ {CHOOSE x \in s : TRUE}]]
    BY DEF Turn, Pick
  <2> QED BY <2>1, Zenon
<1>2. Sum(f) = it[D]
  BY Zenon DEF Sum, MapThenSumSet, MapThenFoldSet
<1> HIDE DEF it
<1> QED BY <1>1, <1>2 DEF Turn, Pick

\* g satisfies the equation on the sets of at most n elements
Upto(f, D, g, n) ==
    /\ g \in [SUBSET D -> Int]
    /\ \A s \in SUBSET D : Cardinality(s) <= n => g[s] = Turn(f, g, s)

\* There is such a function for every bound.
LEMMA FoldExists ==
    ASSUME NEW D, IsFiniteSet(D), NEW f \in [D -> Int], NEW n \in Nat
    PROVE  \E g : Upto(f, D, g, n)
<1> DEFINE Bad == {k \in Nat : ~ \E g : Upto(f, D, g, k)}
<1>1. SUFFICES ASSUME Bad # {} PROVE FALSE
  OBVIOUS
<1> HIDE DEF Bad
<1>2. PICK k \in Bad : \A j \in Bad : k <= j
  <2>1. Bad \in SUBSET Nat
    BY DEF Bad
  <2> QED BY <1>1, <2>1, SmallestNumber
<1> USE DEF Bad
<1>3. \A s \in SUBSET D : IsFiniteSet(s) /\ Cardinality(s) \in Nat
  BY FS_Subset, FS_CardinalityType
<1>4. \A s \in SUBSET D : s # {} =>
         /\ Pick(s) \in s /\ s \ {Pick(s)} \in SUBSET D
         /\ Cardinality(s \ {Pick(s)}) = Cardinality(s) - 1
         /\ Cardinality(s) # 0
  BY <1>3, FS_RemoveElement, FS_EmptySet DEF Pick
<1>5. CASE k = 0
  <2>1. Upto(f, D, [s \in SUBSET D |-> 0], 0)
    <3> DEFINE z == [s \in SUBSET D |-> 0]
    <3>1. ASSUME NEW s \in SUBSET D, Cardinality(s) <= 0 PROVE z[s] = Turn(f, z, s)
      <4>1. s = {}
        BY <1>3, <1>4, <3>1, FS_EmptySet
      <4> QED BY <4>1 DEF Turn
    <3> QED BY <3>1 DEF Upto
  <2> QED BY <1>5, <2>1
<1>6. CASE k # 0
  <2>1. k - 1 \in Nat /\ k - 1 \notin Bad
    BY <1>2, <1>6
  <2>2. PICK g : Upto(f, D, g, k - 1)
    BY <2>1
  <2> DEFINE h == [s \in SUBSET D |-> IF Cardinality(s) <= k - 1 THEN g[s] ELSE Turn(f, g, s)]
  <2>3. \A s \in SUBSET D : Turn(f, g, s) \in Int
    <3> TAKE s \in SUBSET D
    <3>1. CASE s = {}
      BY <3>1 DEF Turn
    <3>2. CASE s # {}
      <4>1. f[Pick(s)] \in Int /\ g[s \ {Pick(s)}] \in Int
        BY <1>4, <2>2, <3>2 DEF Upto
      <4> QED BY <3>2, <4>1 DEF Turn
    <3> QED BY <3>1, <3>2
  <2>4. h \in [SUBSET D -> Int]
    BY <2>2, <2>3 DEF Upto
  <2>5. ASSUME NEW s \in SUBSET D, Cardinality(s) <= k PROVE h[s] = Turn(f, h, s)
    <3>1. h[s] = Turn(f, g, s)
      BY <2>2 DEF Upto
    <3>2. s # {} => h[s \ {Pick(s)}] = g[s \ {Pick(s)}]
      BY <1>3, <1>4, <2>5
    <3> HIDE DEF h
    <3> QED BY <3>1, <3>2 DEF Turn
  <2>6. Upto(f, D, h, k)
    BY <2>4, <2>5 DEF Upto
  <2> QED BY <2>6
<1> QED BY <1>5, <1>6

\* g totals f over every subset of its domain, whatever element goes first
Totals(f, D, g) ==
    /\ g \in [SUBSET D -> Int]
    /\ g[{}] = 0
    /\ \A s \in SUBSET D : \A x \in s : g[s] = f[x] + g[s \ {x}]

\* Sum(f) totals f, in whatever order: what "sum of the rows" means.
LEMMA SumIsTotal ==
    ASSUME NEW D, IsFiniteSet(D), NEW f \in [D -> Int]
    PROVE  \E g : Totals(f, D, g) /\ Sum(f) = g[D]
<1>1. \A s \in SUBSET D : IsFiniteSet(s) /\ Cardinality(s) \in Nat
                          /\ Cardinality(s) <= Cardinality(D)
  BY FS_Subset, FS_CardinalityType
<1>2. PICK g0 : Upto(f, D, g0, Cardinality(D))
  BY <1>1, FoldExists
<1>3. g0 = [s \in SUBSET D |-> Turn(f, g0, s)]
  BY <1>1, <1>2 DEF Upto
<1>4. PICK g : g = [s \in SUBSET D |-> Turn(f, g, s)] /\ Sum(f) = g[D]
  BY <1>3, SumIsFold
<1>5. \A s \in SUBSET D : s # {} => Pick(s) \in s /\ g[s] = f[Pick(s)] + g[s \ {Pick(s)}]
  BY <1>4 DEF Turn, Pick
<1>6. g[{}] = 0
  BY <1>4 DEF Turn
<1>7. \A s \in SUBSET D : g[s] \in Int
  <2> DEFINE Bad == {s \in SUBSET D : g[s] \notin Int}
  <2>1. SUFFICES ASSUME Bad # {} PROVE FALSE
    OBVIOUS
  <2>2. PICK b \in Bad : \A c \in SUBSET b : c # b => c \notin Bad
    <3>1. Bad \in SUBSET (SUBSET D)
      OBVIOUS
    <3> HIDE DEF Bad
    <3> QED BY <2>1, <3>1, SmallestSet
  <2>3. b # {}
    BY <1>6
  <2>4. b \ {Pick(b)} \notin Bad /\ b \ {Pick(b)} \in SUBSET D
    BY <1>5, <2>2, <2>3
  <2> QED BY <1>5, <2>2, <2>3, <2>4
<1>8. \A s \in SUBSET D : \A x \in s : g[s] = f[x] + g[s \ {x}]
  <2> DEFINE Bad == {s \in SUBSET D : \E x \in s : g[s] # f[x] + g[s \ {x}]}
  <2>1. SUFFICES ASSUME Bad # {} PROVE FALSE
    OBVIOUS
  <2>2. PICK b \in Bad : \A c \in SUBSET b : c # b => c \notin Bad
    <3>1. Bad \in SUBSET (SUBSET D)
      OBVIOUS
    <3> HIDE DEF Bad
    <3> QED BY <2>1, <3>1, SmallestSet
  <2>3. PICK x \in b : g[b] # f[x] + g[b \ {x}]
    OBVIOUS
  <2> DEFINE y == Pick(b)
  <2>4. y \in b /\ g[b] = f[y] + g[b \ {y}]
    BY <1>5
  <2> HIDE DEF y
  <2>5. x # y
    BY <2>3, <2>4
  <2>6. /\ b \ {y} \in SUBSET D /\ b \ {y} \notin Bad /\ x \in b \ {y}
        /\ b \ {x} \in SUBSET D /\ b \ {x} \notin Bad /\ y \in b \ {x}
    BY <2>2, <2>4, <2>5
  <2> DEFINE rest == g[(b \ {x}) \ {y}]
  <2>7. (b \ {y}) \ {x} = (b \ {x}) \ {y} /\ (b \ {x}) \ {y} \in SUBSET D
    OBVIOUS
  <2>8. g[b \ {y}] = f[x] + rest /\ g[b \ {x}] = f[y] + rest
    BY <2>6, <2>7
  <2>9. f[x] \in Int /\ f[y] \in Int /\ rest \in Int
    BY <1>7, <2>4, <2>7
  <2> HIDE DEF rest, Bad
  <2>10. f[y] + (f[x] + rest) = f[x] + (f[y] + rest)
    BY <2>9
  <2> QED BY <2>3, <2>4, <2>8, <2>10
<1>9. g \in [SUBSET D -> Int]
  BY <1>4, <1>7
<1> QED BY <1>4, <1>6, <1>8, <1>9 DEF Totals

\* A sum of integers is an integer.
LEMMA SumType ==
    ASSUME NEW D, IsFiniteSet(D), NEW f \in [D -> Int]
    PROVE  Sum(f) \in Int
<1>1. PICK F : Totals(f, D, F) /\ Sum(f) = F[D]
  BY SumIsTotal
<1>2. D \in SUBSET D
  OBVIOUS
<1> QED BY <1>1, <1>2 DEF Totals

\* Sums add up row by row.
LEMMA SumOfSums ==
    ASSUME NEW D, IsFiniteSet(D), NEW f \in [D -> Int], NEW h \in [D -> Int],
           NEW k \in [D -> Int], \A x \in D : k[x] = f[x] + h[x]
    PROVE  Sum(k) = Sum(f) + Sum(h)
<1>1. PICK F : Totals(f, D, F) /\ Sum(f) = F[D]
  BY SumIsTotal
<1>2. PICK H : Totals(h, D, H) /\ Sum(h) = H[D]
  BY SumIsTotal
<1>3. PICK K : Totals(k, D, K) /\ Sum(k) = K[D]
  BY SumIsTotal
<1> DEFINE Bad == {s \in SUBSET D : K[s] # F[s] + H[s]}
<1>4. SUFFICES ASSUME Bad # {} PROVE FALSE
  BY <1>1, <1>2, <1>3
<1>5. PICK b \in Bad : \A c \in SUBSET b : c # b => c \notin Bad
  <2>1. Bad \in SUBSET (SUBSET D)
    OBVIOUS
  <2> HIDE DEF Bad
  <2> QED BY <1>4, <2>1, SmallestSet
<1>6. PICK x \in b : TRUE
  <2>1. K[{}] = F[{}] + H[{}]
    BY <1>1, <1>2, <1>3 DEF Totals
  <2>2. b # {}
    BY <2>1, Zenon
  <2> QED BY <2>2
<1>7. b \ {x} \in SUBSET D /\ b \ {x} \notin Bad
  BY <1>5, <1>6
<1>8. /\ K[b] = k[x] + K[b \ {x}] /\ F[b] = f[x] + F[b \ {x}]
      /\ H[b] = h[x] + H[b \ {x}] /\ K[b \ {x}] = F[b \ {x}] + H[b \ {x}]
      /\ F[b \ {x}] \in Int /\ H[b \ {x}] \in Int
      /\ f[x] \in Int /\ h[x] \in Int /\ k[x] = f[x] + h[x]
  BY <1>1, <1>2, <1>3, <1>6, <1>7 DEF Totals
<1> QED BY <1>8

\* No units anywhere, none in all.
LEMMA SumOfZeros ==
    ASSUME NEW D, IsFiniteSet(D), NEW f \in [D -> Int], \A x \in D : f[x] = 0
    PROVE  Sum(f) = 0
<1>1. Sum(f) = Sum(f) + Sum(f)
  BY SumOfSums
<1>2. Sum(f) \in Int
  BY SumType
<1>3. \A n \in Int : n = n + n => n = 0
  OBVIOUS
<1> QED BY <1>1, <1>2, <1>3, Zenon

\* One row that is not zero is the whole sum.
LEMMA SumOfOne ==
    ASSUME NEW D, IsFiniteSet(D), NEW f \in [D -> Int], NEW x \in D,
           \A y \in D \ {x} : f[y] = 0
    PROVE  Sum(f) = f[x]
<1>1. PICK F : Totals(f, D, F) /\ Sum(f) = F[D]
  BY SumIsTotal
<1>2. F[D \ {x}] = 0
  <2> DEFINE Bad == {s \in SUBSET (D \ {x}) : F[s] # 0}
  <2>1. SUFFICES ASSUME Bad # {} PROVE FALSE
    OBVIOUS
  <2>2. PICK b \in Bad : \A c \in SUBSET b : c # b => c \notin Bad
    <3>1. Bad \in SUBSET (SUBSET D)
      OBVIOUS
    <3> HIDE DEF Bad
    <3> QED BY <2>1, <3>1, SmallestSet
  <2>3. PICK y \in b : TRUE
    BY <1>1 DEF Totals
  <2>4. b \ {y} \in SUBSET (D \ {x}) /\ b \ {y} \notin Bad
    BY <2>2, <2>3
  <2>5. F[b] = f[y] + F[b \ {y}] /\ f[y] = 0 /\ F[b \ {y}] = 0
    BY <1>1, <2>3, <2>4 DEF Totals
  <2> QED BY <2>5
<1>3. F[D] = f[x] + F[D \ {x}] /\ f[x] \in Int
  BY <1>1 DEF Totals
<1> QED BY <1>1, <1>2, <1>3

\* Writing one row moves the sum by as much.
LEMMA SumExcept ==
    ASSUME NEW D, IsFiniteSet(D), NEW f \in [D -> Int], NEW x \in D, NEW v \in Int
    PROVE  Sum([f EXCEPT ![x] = v]) = Sum(f) + (v - f[x])
<1> DEFINE h == [y \in D |-> IF y = x THEN v - f[x] ELSE 0]
           k == [f EXCEPT ![x] = v]
<1>1. /\ h \in [D -> Int] /\ k \in [D -> Int]
      /\ \A y \in D : k[y] = f[y] + h[y]
      /\ \A y \in D \ {x} : h[y] = 0
      /\ h[x] = v - f[x]
  OBVIOUS
<1> HIDE DEF h, k
<1>2. Sum(h) = v - f[x]
  BY <1>1, SumOfOne
<1>3. Sum(k) = Sum(f) + Sum(h)
  BY <1>1, SumOfSums
<1> QED BY <1>2, <1>3 DEF k

\* A sum of numbers is a number.
LEMMA SumOfNumbers ==
    ASSUME NEW D, IsFiniteSet(D), NEW f \in [D -> Nat]
    PROVE  Sum(f) \in Nat
<1>1. f \in [D -> Int]
  OBVIOUS
<1>2. PICK F : Totals(f, D, F) /\ Sum(f) = F[D]
  BY <1>1, SumIsTotal
<1> DEFINE Bad == {s \in SUBSET D : F[s] \notin Nat}
<1>3. SUFFICES ASSUME Bad # {} PROVE FALSE
  BY <1>2
<1>4. PICK b \in Bad : \A c \in SUBSET b : c # b => c \notin Bad
  <2>1. Bad \in SUBSET (SUBSET D)
    OBVIOUS
  <2> HIDE DEF Bad
  <2> QED BY <1>3, <2>1, SmallestSet
<1>5. PICK x \in b : TRUE
  <2>1. F[{}] = 0
    BY <1>2 DEF Totals
  <2>2. b # {}
    <3>1. F[b] \notin Nat
      OBVIOUS
    <3> QED BY <2>1, <3>1
  <2> QED BY <2>2
<1>6. b \ {x} \in SUBSET D /\ b \ {x} \notin Bad
  BY <1>4, <1>5
<1>7. F[b] = f[x] + F[b \ {x}] /\ f[x] \in Nat /\ F[b \ {x}] \in Nat
  BY <1>2, <1>5, <1>6 DEF Totals
<1> QED BY <1>7

\* Sums compare as their rows do.
LEMMA SumsCompare ==
    ASSUME NEW D, IsFiniteSet(D), NEW f \in [D -> Int], NEW h \in [D -> Int],
           \A x \in D : f[x] <= h[x]
    PROVE  Sum(f) <= Sum(h)
<1> DEFINE d == [x \in D |-> h[x] - f[x]]
<1>1. d \in [D -> Nat] /\ d \in [D -> Int] /\ \A x \in D : h[x] = f[x] + d[x]
  OBVIOUS
<1> HIDE DEF d
<1>2. Sum(h) = Sum(f) + Sum(d)
  BY <1>1, SumOfSums
<1>3. Sum(d) \in Nat /\ Sum(f) \in Int
  BY <1>1, SumOfNumbers, SumType
<1> QED BY <1>2, <1>3

\* Numbers that come to nothing are all nothing.
LEMMA NothingInAll ==
    ASSUME NEW D, IsFiniteSet(D), NEW f \in [D -> Nat], Sum(f) = 0, NEW x \in D
    PROVE  f[x] = 0
<1> DEFINE g == [f EXCEPT ![x] = 0]
<1>1. f \in [D -> Int] /\ f[x] \in Nat /\ g \in [D -> Nat] /\ 0 \in Int
  OBVIOUS
<1>2. Sum(g) = Sum(f) + (0 - f[x])
  BY <1>1, SumExcept
<1> HIDE DEF g
<1>3. Sum(g) \in Nat
  BY <1>1, SumOfNumbers
<1> QED BY <1>1, <1>2, <1>3

\* The part of a sum outside which there is nothing is all of it.
LEMMA PartWhole ==
    ASSUME NEW D, IsFiniteSet(D), NEW f \in [D -> Int]
    PROVE  Part(f, D) = Sum(f) /\ Part(f, {}) = 0 /\ \A S : Part(f, S) \in Int
<1>1. [x \in D |-> IF x \in D THEN f[x] ELSE 0] = f
  OBVIOUS
<1>2. Part(f, {}) = 0
  <2> DEFINE z == [x \in D |-> IF x \in {} THEN f[x] ELSE 0]
  <2>1. z \in [D -> Int] /\ \A x \in D : z[x] = 0
    OBVIOUS
  <2> HIDE DEF z
  <2>2. Sum(z) = 0
    BY <2>1, SumOfZeros
  <2> QED BY <2>2 DEF Part, z
<1>3. ASSUME NEW S PROVE Part(f, S) \in Int
  <2> DEFINE z == [x \in D |-> IF x \in S THEN f[x] ELSE 0]
  <2>1. z \in [D -> Int]
    OBVIOUS
  <2> HIDE DEF z
  <2>2. Sum(z) \in Int
    BY <2>1, SumType
  <2> QED BY <2>2 DEF Part, z
<1> QED BY <1>1, <1>2, <1>3 DEF Part

\* One more row adds what it holds.
LEMMA PartAdds ==
    ASSUME NEW D, IsFiniteSet(D), NEW f \in [D -> Int]
    PROVE  \A S : \A x \in D : x \notin S => Part(f, S \cup {x}) = Part(f, S) + f[x]
<1> SUFFICES ASSUME NEW S, NEW x \in D, x \notin S
             PROVE  Part(f, S \cup {x}) = Part(f, S) + f[x]
  OBVIOUS
<1> DEFINE g == [y \in D |-> IF y \in S THEN f[y] ELSE 0]
           v == f[x]
<1>1. g \in [D -> Int] /\ g[x] = 0 /\ v \in Int
  OBVIOUS
<1>2. [y \in D |-> IF y \in S \cup {x} THEN f[y] ELSE 0] = [g EXCEPT ![x] = v]
  OBVIOUS
<1>3. Part(f, S) = Sum(g) /\ Part(f, S \cup {x}) = Sum([g EXCEPT ![x] = v])
  BY <1>2 DEF Part
<1> HIDE DEF g, v
<1>4. Sum([g EXCEPT ![x] = v]) = Sum(g) + (v - g[x])
  BY <1>1, SumExcept
<1>5. Sum(g) \in Int
  BY <1>1, SumType
<1> QED BY <1>1, <1>3, <1>4, <1>5 DEF v

\* Row sums and column sums come to the same.
LEMMA SwapSums ==
    ASSUME NEW D, IsFiniteSet(D), NEW E, IsFiniteSet(E), NEW u \in [D -> [E -> Int]]
    PROVE  Sum([x \in D |-> Sum(u[x])]) = Sum([y \in E |-> Sum([x \in D |-> u[x][y]])])
<1> DEFINE rows == [x \in D |-> Sum(u[x])]
           col(y) == [x \in D |-> u[x][y]]
           cols(b) == [y \in E |-> Part(col(y), b)]
           Bad == {b \in SUBSET D : Sum(cols(b)) # Part(rows, b)}
<1>1. rows \in [D -> Int] /\ \A x \in D : u[x] \in [E -> Int] /\ rows[x] = Sum(u[x])
  BY SumType
<1>2. \A y \in E : col(y) \in [D -> Int] /\ \A x \in D : col(y)[x] = u[x][y]
  BY <1>1
<1>3. \A b : cols(b) \in [E -> Int] /\ \A y \in E : cols(b)[y] = Part(col(y), b)
  <2> TAKE b
  <2>1. \A y \in E : Part(col(y), b) \in Int
    <3> TAKE y \in E
    <3>1. col(y) \in [D -> Int]
      BY <1>2
    <3> HIDE DEF col
    <3> QED BY <3>1, PartWhole
  <2> QED BY <2>1
<1>4. cols(D) = [y \in E |-> Sum(col(y))]
  <2>1. \A y \in E : Part(col(y), D) = Sum(col(y))
    <3> TAKE y \in E
    <3>1. col(y) \in [D -> Int]
      BY <1>2
    <3> HIDE DEF col
    <3> QED BY <3>1, PartWhole
  <2> QED BY <2>1
<1>5. Part(rows, D) = Sum(rows)
  <2> HIDE DEF rows
  <2> QED BY <1>1, PartWhole
<1>6. SUFFICES ASSUME Bad # {} PROVE FALSE
  <2>1. Sum(cols(D)) = Part(rows, D)
    BY <1>6
  <2>2. Sum(rows) = Sum([y \in E |-> Sum(col(y))])
    BY <1>4, <1>5, <2>1, Zenon
  <2> QED BY <2>2
<1>7. PICK b \in Bad : \A c \in SUBSET b : c # b => c \notin Bad
  <2>1. Bad \in SUBSET (SUBSET D)
    OBVIOUS
  <2> HIDE DEF Bad
  <2> QED BY <1>6, <2>1, SmallestSet
<1> HIDE DEF rows, col
<1>8. CASE b = {}
  <2>1. \A y \in E : cols({})[y] = 0
    BY <1>2, <1>3, PartWhole
  <2>2. Sum(cols({})) = 0
    <3> HIDE DEF cols
    <3> QED BY <1>3, <2>1, SumOfZeros
  <2>3. Part(rows, {}) = 0
    BY <1>1, PartWhole
  <2> QED BY <1>7, <1>8, <2>2, <2>3
<1>9. CASE b # {}
  <2>1. PICK x \in b : TRUE
    BY <1>9
  <2> DEFINE c == b \ {x}
  <2>2. c \in SUBSET D /\ x \in D /\ x \notin c /\ b = c \cup {x} /\ Sum(cols(c)) = Part(rows, c)
    BY <1>7, <2>1
  <2> HIDE DEF c
  <2>3. \A y \in E : cols(b)[y] = cols(c)[y] + u[x][y]
    <3> TAKE y \in E
    <3> DEFINE f == col(y)
    <3>1. f \in [D -> Int] /\ f[x] = u[x][y]
      BY <1>2, <2>2
    <3> HIDE DEF f
    <3>2. \A S : \A z \in D : z \notin S => Part(f, S \cup {z}) = Part(f, S) + f[z]
      BY <3>1, PartAdds
    <3>3. Part(f, c \cup {x}) = Part(f, c) + f[x]
      BY <2>2, <3>2, Zenon
    <3> QED BY <1>3, <2>2, <3>1, <3>3 DEF f
  <2>4. Sum(cols(b)) = Sum(cols(c)) + Sum(u[x])
    <3>1. \A f, h, k \in [E -> Int] :
             (\A y \in E : k[y] = f[y] + h[y]) => Sum(k) = Sum(f) + Sum(h)
      BY SumOfSums
    <3> HIDE DEF cols
    <3>2. cols(c) \in [E -> Int] /\ cols(b) \in [E -> Int] /\ u[x] \in [E -> Int]
      BY <1>1, <1>3, <2>2
    <3> QED BY <2>3, <3>1, <3>2, Zenon
  <2>5. Part(rows, b) = Part(rows, c) + rows[x]
    <3>1. \A S : \A z \in D : z \notin S => Part(rows, S \cup {z}) = Part(rows, S) + rows[z]
      BY <1>1, PartAdds
    <3> QED BY <2>2, <3>1, Zenon
  <2> QED BY <1>1, <1>7, <2>2, <2>4, <2>5
<1> QED BY <1>8, <1>9

-----------------------------------------------------------------------------
(* Units: filling a need place by place, and adding up by place and line   *)

\* What a share is: nothing below zero, nothing beyond what the place has.
LEMMA ShareIsPart ==
    ASSUME NEW q \in Int, NEW here \in Nat, NEW before \in Int
    PROVE  /\ Share(q, here, before) \in Nat
           /\ q >= 0 => Least(q, before) + Share(q, here, before) = Least(q, before + here)
BY DEF Share, Least, Most

\* W[k] are the first k places; each next place gives t of the a it has
InTurn(D, n, W, q, a, t) ==
    /\ W \in [0 .. n -> SUBSET D] /\ W[0] = {} /\ W[n] = D
    /\ \A k \in 1 .. n : \E x \in D \ W[k - 1] :
           /\ W[k] = W[k - 1] \cup {x}
           /\ t[x] = Share(q, a[x], Part(a, W[k - 1]))

\* Going from place to place until q units are found finds q of them, or all
\* there are: allocate_stock_in_route_order from the front, a partial refund
\* from the back.
LEMMA Filling ==
    ASSUME NEW D, IsFiniteSet(D), NEW a \in [D -> Nat], NEW t \in [D -> Int],
           NEW q \in Nat, NEW n \in Nat, NEW W, InTurn(D, n, W, q, a, t)
    PROVE  Sum(t) = Least(q, Sum(a))
<1>0. /\ W[0] = {} /\ W[n] = D
      /\ \A k \in 1 .. n : /\ k - 1 \in 0 .. n /\ W[k - 1] \in SUBSET D /\ W[k] \in SUBSET D
                           /\ \E x \in D \ W[k - 1] :
                                 /\ W[k] = W[k - 1] \cup {x}
                                 /\ t[x] = Share(q, a[x], Part(a, W[k - 1]))
  BY DEF InTurn
<1> DEFINE Bad == {k \in 0 .. n : Part(t, W[k]) # Least(q, Part(a, W[k]))}
<1>1. a \in [D -> Int]
  OBVIOUS
<1>2. /\ Part(t, D) = Sum(t) /\ Part(t, {}) = 0 /\ \A S : Part(t, S) \in Int
      /\ Part(a, D) = Sum(a) /\ Part(a, {}) = 0 /\ \A S : Part(a, S) \in Int
  BY <1>1, PartWhole
<1>3. SUFFICES ASSUME Bad # {} PROVE FALSE
  <2>1. Part(t, W[n]) = Least(q, Part(a, W[n]))
    BY <1>3
  <2> QED BY <1>0, <1>2, <2>1
<1>4. PICK b \in Bad : \A k \in Bad : b <= k
  <2>1. Bad \in SUBSET Nat
    OBVIOUS
  <2> HIDE DEF Bad
  <2> QED BY <1>3, <2>1, SmallestNumber
<1>5. b # 0
  <2>1. Least(q, 0) = 0
    BY DEF Least
  <2>2. Part(t, W[0]) = Least(q, Part(a, W[0]))
    BY <1>0, <1>2, <2>1
  <2> QED BY <2>2
<1>6. b \in 1 .. n /\ b - 1 \in 0 .. n /\ b - 1 \notin Bad
  BY <1>4, <1>5
<1>7. Part(t, W[b - 1]) = Least(q, Part(a, W[b - 1]))
  BY <1>6
<1>8. PICK x \in D \ W[b - 1] : /\ W[b] = W[b - 1] \cup {x}
                                /\ t[x] = Share(q, a[x], Part(a, W[b - 1]))
  BY <1>0, <1>6
<1> DEFINE w == W[b - 1]
<1> HIDE DEF Bad, w
<1>9. Part(t, w \cup {x}) = Part(t, w) + t[x] /\ Part(a, w \cup {x}) = Part(a, w) + a[x]
  <2>1. x \in D /\ x \notin w
    BY DEF w
  <2>2. \A f \in [D -> Int] : \A S : \A y \in D : y \notin S => Part(f, S \cup {y}) = Part(f, S) + f[y]
    BY PartAdds
  <2> QED BY <1>1, <2>1, <2>2, Zenon
<1>10. Least(q, Part(a, w)) + Share(q, a[x], Part(a, w)) = Least(q, Part(a, w) + a[x])
  <2>1. Part(a, w) \in Int /\ a[x] \in Nat /\ q \in Int /\ q >= 0
    BY <1>2
  <2> QED BY <2>1, ShareIsPart
<1>11. Part(t, W[b]) = Least(q, Part(a, W[b]))
  <2>1. W[b] = w \cup {x} /\ t[x] = Share(q, a[x], Part(a, w)) /\ Part(t, w) = Least(q, Part(a, w))
    BY <1>7, <1>8 DEF w
  <2> QED BY <1>9, <1>10, <2>1
<1> QED BY <1>11 DEF Bad

\* Units by location add up to all of them.
LEMMA PlacesAddUp ==
    ASSUME NEW D, IsFiniteSet(D), NEW f \in [D -> Int], NEW at \in [D -> Location]
    PROVE  Sum([l \in Location |-> Part(f, {k \in D : at[k] = l})]) = Sum(f)
<1> DEFINE u == [k \in D |-> [l \in Location |-> IF at[k] = l THEN f[k] ELSE 0]]
<1>1. IsFiniteSet(Location)
  BY StockAssumption
<1>2. u \in [D -> [Location -> Int]]
  OBVIOUS
<1>3. \A k \in D : Sum(u[k]) = f[k]
  <2> TAKE k \in D
  <2> DEFINE row == u[k]
             here == at[k]
  <2>1. /\ row \in [Location -> Int] /\ here \in Location /\ row[here] = f[k]
        /\ \A l \in Location \ {here} : row[l] = 0
    OBVIOUS
  <2> HIDE DEF row, here
  <2>2. Sum(row) = row[here]
    BY <1>1, <2>1, SumOfOne
  <2> QED BY <2>1, <2>2 DEF row
<1>4. [k \in D |-> Sum(u[k])] = f
  BY <1>3
<1>5. \A l \in Location : Part(f, {k \in D : at[k] = l}) = Sum([k \in D |-> u[k][l]])
  <2> TAKE l \in Location
  <2>1. [k \in D |-> IF k \in {j \in D : at[j] = l} THEN f[k] ELSE 0] = [k \in D |-> u[k][l]]
    OBVIOUS
  <2> HIDE DEF u
  <2> QED BY <2>1 DEF Part
<1> HIDE DEF u
<1>6. Sum([k \in D |-> Sum(u[k])]) = Sum([l \in Location |-> Sum([k \in D |-> u[k][l]])])
  BY <1>1, <1>2, SwapSums
<1>7. [l \in Location |-> Part(f, {k \in D : at[k] = l})]
         = [l \in Location |-> Sum([k \in D |-> u[k][l]])]
  BY <1>5
<1> QED BY <1>4, <1>6, <1>7

\* Units by line and location add up, line by line, to what each line comes to.
LEMMA LinesAddUp ==
    ASSUME NEW I, IsFiniteSet(I), NEW p \in Product,
           NEW units \in [I -> [Product -> [Location -> Int]]]
    PROVE  /\ \A l \in Location : OverLines(units)[p][l] \in Int
           /\ Sum(OverLines(units)[p]) = Sum([i \in I |-> Sum(units[i][p])])
<1> DEFINE u == [i \in I |-> units[i][p]]
<1>1. IsFiniteSet(Location)
  BY StockAssumption
<1>2. u \in [I -> [Location -> Int]] /\ \A i \in I : u[i] = units[i][p]
  OBVIOUS
<1>3. OverLines(units)[p] = [l \in Location |-> Sum([i \in I |-> u[i][l]])]
  BY <1>2 DEF OverLines
<1>4. [i \in I |-> Sum(units[i][p])] = [i \in I |-> Sum(u[i])]
  BY <1>2
<1> HIDE DEF u
<1>5. Sum([i \in I |-> Sum(u[i])]) = Sum([l \in Location |-> Sum([i \in I |-> u[i][l]])])
  BY <1>1, <1>2, SwapSums
<1>6. \A l \in Location : OverLines(units)[p][l] \in Int
  <2> TAKE l \in Location
  <2> DEFINE c == [i \in I |-> u[i][l]]
  <2>1. c \in [I -> Int]
    BY <1>2
  <2>2. OverLines(units)[p][l] = Sum(c)
    BY <1>3
  <2> HIDE DEF c
  <2> QED BY <2>1, <2>2, SumType
<1> QED BY <1>3, <1>4, <1>5, <1>6

\* The columns that say how far a sale is settled have their types.
SettledTypes ==
    /\ status \in [Sale -> Status]
    /\ unitsBack \in [Sale -> UNION {[Line(s) -> Nat] : s \in Sale}]
    /\ \A s \in Sale : unitsBack[s] \in [Line(s) -> Nat]
    /\ moneyBack \in [Sale -> Nat]
    /\ earned \in [Sale -> Nat]
    /\ reversed \in [Sale -> Nat]

Settled == <<status, unitsBack, moneyBack, earned, reversed>>

-----------------------------------------------------------------------------
(* The data the proofs use: lines, Least and Most, the reversal of points. *)

\* The quantity of every cart line is a number.
LEMMA LineQuantity ==
    ASSUME NEW s \in Sale, NEW i \in Line(s)
    PROVE  Cart[s][i].qty \in Nat
<1> DEFINE Lines == [sku : Product, qty : Nat \ {0}, value : Nat]
<1>1. Cart[s] \in Seq(Lines)
  BY AmountsAssumption
<1> HIDE DEF Lines
<1>2. Cart[s][i] \in Lines
  BY <1>1 DEF Line
<1> QED BY <1>2 DEF Lines

\* What an Allocation, a ceiling and a reversal are bounded by.
LEMMA LeastMost ==
    ASSUME NEW m \in Int, NEW n \in Int
    PROVE  /\ Least(m, n) \in Int /\ Least(m, n) <= m /\ Least(m, n) <= n
           /\ Most(m, n) \in Int /\ Most(m, n) >= m /\ Most(m, n) >= n
           /\ Most(m, n) \in {m, n}
BY DEF Least, Most

\* Half a share, rounded, is an integer: reverse_loyalty_on_refund divides by
\* twice the total, which is not zero there.
LEMMA ShareIsInteger ==
    ASSUME NEW n \in Nat, NEW t \in Nat, t # 0
    PROVE  (n + t) \div (2 * t) \in Int
<1>1. 2 * t \in Nat /\ 2 * t > 0
  OBVIOUS
<1>2. n + t \in Int
  OBVIOUS
<1>3. \A d \in Nat : d > 0 => (n + t) \div d \in Int
  BY <1>2
<1> QED BY <1>1, <1>3

\* reverse_loyalty_on_refund never takes back more points than are left of the
\* sale's award, never a negative number of them, and none for no money.
LEMMA ReversalBounded ==
    ASSUME NEW s \in Sale, NEW money \in Nat, SettledTypes,
           reversed[s] <= earned[s]
    PROVE  /\ Reversal(s, money) \in Nat
           /\ Reversal(s, money) <= earned[s] - reversed[s]
           /\ money = 0 => Reversal(s, money) = 0
<1>1. /\ Total[s] \in Nat /\ earned[s] \in Nat /\ reversed[s] \in Nat
  BY AmountsAssumption DEF SettledTypes
<1>2. CASE Total[s] = 0 \/ money = 0
  BY <1>1, <1>2 DEF Reversal
<1>3. CASE ~(Total[s] = 0 \/ money = 0)
  <2> DEFINE share == (2 * earned[s] * money + Total[s]) \div (2 * Total[s])
             left  == earned[s] - reversed[s]
  <2>1. Reversal(s, money) = Most(0, Least(share, left))
    BY <1>3 DEF Reversal
  <2>2. 2 * earned[s] * money \in Nat
    BY <1>1
  <2>3. share \in Int
    BY <1>1, <1>3, <2>2, ShareIsInteger
  <2>4. left \in Nat
    BY <1>1
  <2> HIDE DEF share, left
  <2>5. Least(share, left) \in Int /\ Least(share, left) <= left
    BY <2>3, <2>4, LeastMost
  <2>6. Most(0, Least(share, left)) \in Nat /\ Most(0, Least(share, left)) <= left
    BY <2>4, <2>5 DEF Most
  <2> QED BY <1>3, <2>1, <2>6 DEF left
<1> QED BY <1>2, <1>3

-----------------------------------------------------------------------------
(* Every step either leaves these columns alone or is one of five.         *)

\* What a checkout, a finalize and a void do to the settlement columns.
SettleOne(s, from, to) ==
    /\ status[s] = from
    /\ status' = [status EXCEPT ![s] = to]
    /\ UNCHANGED earned \/ (to = "completed" /\ AwardPoints(s, Award[s]))
    /\ UNCHANGED <<unitsBack, moneyBack, reversed>>

EarnOne(s) ==
    /\ status[s] # "absent"
    /\ AwardPoints(s, Charged[s])
    /\ UNCHANGED <<status, unitsBack, moneyBack, reversed>>

RefundOne(s, qty, money) ==
    /\ status[s] = "completed"
    /\ moneyBack[s] + money <= Total[s]
    /\ \A i \in Line(s) : qty[i] > 0 => unitsBack[s][i] + qty[i] <= Cart[s][i].qty
    /\ unitsBack' = [unitsBack EXCEPT ![s] = [i \in Line(s) |-> @[i] + qty[i]]]
    /\ moneyBack' = [moneyBack EXCEPT ![s] = @ + money]
    /\ \/ reversed' = [reversed EXCEPT ![s] = @ + Reversal(s, money)]
       \/ UNCHANGED reversed
    /\ UNCHANGED <<status, earned>>

Moves == { <<"absent", "pending">>, <<"absent", "completed">>,
           <<"pending", "completed">>, <<"pending", "voided">> }

\* create_refund gives back whole units, and its settlement columns move as
\* RefundOne says.
LEMMA RefundSettles ==
    ASSUME NEW s \in Sale, NEW qty \in Refunds(s), NEW money \in 0 .. Total[s],
           NEW value \in [Line(s) -> 0 .. Total[s]], Refund(s, qty, value, money)
    PROVE  money \in Nat /\ qty \in [Line(s) -> Nat] /\ RefundOne(s, qty, money)
<1>1. money \in Nat
  BY AmountsAssumption
<1>2. qty \in [Line(s) -> Nat]
  <2>1. \A i \in Line(s) : Cart[s][i].qty \in Nat
    BY LineQuantity
  <2>2. UNION {0 .. Cart[s][i].qty : i \in Line(s)} \subseteq Nat
    BY <2>1
  <2> QED BY <2>2 DEF Refunds
<1>3. RefundOne(s, qty, money)
  BY DEF Refund, RefundOne, WithinTotal
<1> QED BY <1>1, <1>2, <1>3

\* The settlement columns move along these four arrows, by an award, by a refund
\* of a completed sale, or not at all: no other handler writes them.
LEMMA StepsSettle ==
    ASSUME SettledTypes, [Next]_vars
    PROVE  \/ UNCHANGED Settled
           \/ \E s \in Sale, m \in Moves : SettleOne(s, m[1], m[2])
           \/ \E s \in Sale : EarnOne(s)
           \/ \E s \in Sale, money \in Nat : \E qty \in [Line(s) -> Nat] :
                RefundOne(s, qty, money)
<1>1. ASSUME NEW s \in Sale, Checkout(s)
      PROVE  SettleOne(s, "absent", "pending")
  BY <1>1 DEF Checkout, SettleOne, SettledTypes
<1>2. ASSUME NEW s \in Sale, NEW chosen \in Resolutions(s), CheckoutResolved(s, chosen)
      PROVE  SettleOne(s, "absent", "completed")
  BY <1>2 DEF CheckoutResolved, AwardOnCompletion, SettleOne
<1>3. ASSUME NEW s \in Sale, FinalizeSale(s)
      PROVE  SettleOne(s, "pending", "completed")
  BY <1>3 DEF FinalizeSale, AwardOnCompletion, SettleOne
<1>4. ASSUME NEW s \in Sale, VoidPending(s), UNCHANGED <<unitsBack, moneyBack, earned, reversed>>
      PROVE  SettleOne(s, "pending", "voided")
  BY <1>4 DEF VoidPending, SettleOne, SettledTypes
<1>5. ASSUME NEW s \in Sale, NEW qty \in Refunds(s), NEW money \in 0 .. Total[s],
             NEW value \in [Line(s) -> 0 .. Total[s]], Refund(s, qty, value, money)
      PROVE  /\ money \in Nat /\ qty \in [Line(s) -> Nat]
             /\ RefundOne(s, qty, money)
  BY <1>5, RefundSettles
<1>6. ASSUME NEW s \in Sale, Expire(s) \/ CreateTicket(s) \/ ServeTicket(s)
      PROVE  UNCHANGED Settled
  BY <1>6 DEF Expire, CreateTicket, ServeTicket, Settled
<1>7. ASSUME NEW s \in Sale, ReapOne(s)
      PROVE  UNCHANGED Settled \/ SettleOne(s, "pending", "voided")
  BY <1>4, <1>7 DEF ReapOne, Settled
<1>8. CASE UNCHANGED vars
  BY <1>8 DEF vars, Settled
<1>9. \A s \in Sale : /\ SettleOne(s, "absent", "pending") => \E m \in Moves : SettleOne(s, m[1], m[2])
                      /\ SettleOne(s, "absent", "completed") => \E m \in Moves : SettleOne(s, m[1], m[2])
                      /\ SettleOne(s, "pending", "completed") => \E m \in Moves : SettleOne(s, m[1], m[2])
                      /\ SettleOne(s, "pending", "voided") => \E m \in Moves : SettleOne(s, m[1], m[2])
  BY DEF Moves
<1>10. CASE ReapScan
  BY <1>10 DEF ReapScan, Settled
<1>11. ASSUME NEW s \in Sale, VoidPendingSale(s)
       PROVE  SettleOne(s, "pending", "voided")
  BY <1>4, <1>11 DEF VoidPendingSale
<1>12. ASSUME NEW s \in Sale, EarnPoints(s) PROVE EarnOne(s)
  BY <1>12 DEF EarnPoints, EarnOne
<1> QED BY <1>1, <1>2, <1>3, <1>5, <1>6, <1>7, <1>8, <1>9, <1>10, <1>11, <1>12 DEF Next

-----------------------------------------------------------------------------
(* Refunds stay within the sale and it is awarded once.                    *)

SaleInv == SettledTypes /\ RefundsWithinSale /\ AwardedOnce

\* A sale starts with no refund and no points.
LEMMA InitSale == Init => SaleInv
<1> SUFFICES ASSUME Init PROVE SaleInv
  OBVIOUS
<1>1. \A s \in Sale : [i \in Line(s) |-> 0] \in [Line(s) -> Nat]
  OBVIOUS
<1>2. SettledTypes
  BY <1>1 DEF Init, SettledTypes, Status
<1>3. \A s \in Sale : Total[s] \in Nat /\ \A i \in Line(s) : Cart[s][i].qty \in Nat
  BY AmountsAssumption, LineQuantity
<1>4. RefundsWithinSale
  BY <1>3 DEF Init, RefundsWithinSale
<1>5. AwardedOnce
  BY DEF Init, AwardedOnce
<1> QED BY <1>2, <1>4, <1>5 DEF SaleInv

\* One arrow of the sale's life keeps the three invariants: only a completed
\* sale has refunds, and none of the arrows leaves `completed`.
LEMMA SettleKeeps ==
    ASSUME SaleInv, NEW s \in Sale, NEW m \in Moves, SettleOne(s, m[1], m[2])
    PROVE  SaleInv'
<1>1. /\ m[1] \in {"absent", "pending"} /\ m[2] \in Status
      /\ m[2] # "absent"
  BY DEF Moves, Status
<1>2. /\ status \in [Sale -> Status] /\ earned \in [Sale -> Nat]
      /\ reversed \in [Sale -> Nat] /\ Award \in [Sale -> Nat]
  BY AmountsAssumption DEF SaleInv, SettledTypes
<1>3. SettledTypes'
  BY <1>1, <1>2 DEF SaleInv, SettledTypes, SettleOne, AwardPoints
<1>4. RefundsWithinSale'
  BY <1>1, <1>2 DEF SaleInv, RefundsWithinSale, SettleOne
<1>5. reversed[s] = 0
  BY <1>1, <1>2 DEF SaleInv, AwardedOnce, SettledTypes, SettleOne
<1>6. AwardedOnce'
  BY <1>1, <1>2, <1>5 DEF SaleInv, AwardedOnce, SettleOne, AwardPoints
<1> QED BY <1>3, <1>4, <1>6 DEF SaleInv

\* An award that was made is not made again, whatever became of the sale.
LEMMA EarnKeeps ==
    ASSUME SaleInv, NEW s \in Sale, EarnOne(s)
    PROVE  SaleInv'
<1>1. /\ status \in [Sale -> Status] /\ earned \in [Sale -> Nat]
      /\ reversed \in [Sale -> Nat] /\ Charged \in [Sale -> Nat]
  BY AmountsAssumption DEF SaleInv, SettledTypes
<1>2. SettledTypes'
  BY <1>1 DEF SaleInv, SettledTypes, EarnOne, AwardPoints
<1>3. RefundsWithinSale'
  BY DEF SaleInv, RefundsWithinSale, EarnOne
<1>4. AwardedOnce'
  BY <1>1 DEF SaleInv, AwardedOnce, EarnOne, AwardPoints
<1> QED BY <1>2, <1>3, <1>4 DEF SaleInv

\* create_refund keeps them: its two bounds are the two of RefundsWithinSale,
\* and the points it takes back are bounded by what is left.
LEMMA RefundKeeps ==
    ASSUME SaleInv, NEW s \in Sale, NEW money \in Nat,
           NEW qty \in [Line(s) -> Nat], RefundOne(s, qty, money)
    PROVE  SaleInv'
<1>1. /\ Reversal(s, money) \in Nat
      /\ Reversal(s, money) <= earned[s] - reversed[s]
      /\ money = 0 => Reversal(s, money) = 0
  BY ReversalBounded DEF SaleInv, AwardedOnce
<1>2. /\ Total[s] \in Nat /\ moneyBack \in [Sale -> Nat]
      /\ earned \in [Sale -> Nat] /\ reversed \in [Sale -> Nat]
  BY AmountsAssumption DEF SaleInv, SettledTypes
<1>3. \A i \in Line(s) : Cart[s][i].qty \in Nat
  BY AmountsAssumption, LineQuantity
<1>4. unitsBack[s] \in [Line(s) -> Nat]
  BY DEF SaleInv, SettledTypes
<1> DEFINE back == [i \in Line(s) |-> unitsBack[s][i] + qty[i]]
<1>5. back \in [Line(s) -> Nat]
  BY <1>4
<1>6. \A i \in Line(s) : back[i] <= Cart[s][i].qty
  BY <1>3, <1>4 DEF RefundOne, SaleInv, RefundsWithinSale
<1>7. unitsBack' = [unitsBack EXCEPT ![s] = back]
  BY DEF RefundOne
<1> HIDE DEF back
<1>8. SettledTypes'
  <2>1. unitsBack' \in [Sale -> UNION {[Line(r) -> Nat] : r \in Sale}]
    BY <1>5, <1>7 DEF SaleInv, SettledTypes
  <2>2. \A r \in Sale : unitsBack'[r] \in [Line(r) -> Nat]
    BY <1>5, <1>7 DEF SaleInv, SettledTypes
  <2>3. moneyBack' \in [Sale -> Nat] /\ reversed' \in [Sale -> Nat]
    BY <1>1, <1>2 DEF RefundOne
  <2> QED BY <2>1, <2>2, <2>3 DEF SaleInv, SettledTypes, RefundOne
<1>9. RefundsWithinSale'
  <2> SUFFICES ASSUME NEW r \in Sale
               PROVE  /\ moneyBack'[r] <= Total[r]
                      /\ \A i \in Line(r) : unitsBack'[r][i] <= Cart[r][i].qty
                      /\ moneyBack'[r] > 0 \/ (\E i \in Line(r) : unitsBack'[r][i] > 0)
                             => status'[r] = "completed"
    BY DEF RefundsWithinSale
  <2>1. CASE r = s
    BY <1>2, <1>6, <1>7, <2>1 DEF RefundOne, SaleInv, SettledTypes
  <2>2. CASE r # s
    BY <1>2, <1>7, <2>2 DEF RefundOne, SaleInv, SettledTypes, RefundsWithinSale
  <2> QED BY <2>1, <2>2
<1>10. AwardedOnce'
  BY <1>1, <1>2 DEF RefundOne, SaleInv, AwardedOnce
<1> QED BY <1>8, <1>9, <1>10 DEF SaleInv

\* The inductive step: every handler is an arrow, a refund, or neither.
LEMMA SaleInvStep == SaleInv /\ [Next]_vars => SaleInv'
<1> SUFFICES ASSUME SaleInv, [Next]_vars PROVE SaleInv'
  OBVIOUS
<1>1. \/ UNCHANGED Settled
      \/ \E s \in Sale, m \in Moves : SettleOne(s, m[1], m[2])
      \/ \E s \in Sale : EarnOne(s)
      \/ \E s \in Sale, money \in Nat : \E qty \in [Line(s) -> Nat] :
           RefundOne(s, qty, money)
  BY StepsSettle DEF SaleInv
<1>2. CASE UNCHANGED Settled
  BY <1>2 DEF SaleInv, SettledTypes, RefundsWithinSale, AwardedOnce, Settled
<1> QED BY <1>1, <1>2, SettleKeeps, EarnKeeps, RefundKeeps

\* Hence it holds of every reachable state.
LEMMA SaleInvariant == Spec => []SaleInv
<1> QED BY InitSale, SaleInvStep, PTL DEF Spec

\* create_refund: only completed sales have refunds, and however many partial
\* refunds follow one another they stay within the sale's total and, line by
\* line, within the units sold - for every cart and every amount.
THEOREM RefundsStayWithin == Spec => []RefundsWithinSale
<1>1. SaleInv => RefundsWithinSale
  BY DEF SaleInv
<1> QED BY <1>1, SaleInvariant, PTL

\* earn_points_with_conn and reverse_loyalty_on_refund: a sale is awarded once,
\* by whichever of its completion, the listener of the checkout and a repeated
\* command comes first and does not fail, and refunds together take back at
\* most that award, whatever the rounding and whichever reversals failed.
THEOREM AwardsOnce == Spec => []AwardedOnce
<1>1. SaleInv => AwardedOnce
  BY DEF SaleInv
<1> QED BY <1>1, SaleInvariant, PTL

\* finalize_sale_in_tx and void_pending_sale are compare-and-set on `pending`,
\* so neither undoes what the other, the reaper or a refund left.
THEOREM SettledStays == Spec => SettledIsFinal
<1>1. ASSUME SaleInv, [Next]_vars
      PROVE  [\A s \in Sale : status[s] \in {"completed", "voided"}
                                => status'[s] = status[s]]_vars
  <2>1. \/ UNCHANGED Settled
        \/ \E s \in Sale, m \in Moves : SettleOne(s, m[1], m[2])
        \/ \E s \in Sale : EarnOne(s)
        \/ \E s \in Sale, money \in Nat : \E qty \in [Line(s) -> Nat] :
             RefundOne(s, qty, money)
    BY <1>1, StepsSettle DEF SaleInv
  <2>2. ASSUME NEW s \in Sale, NEW m \in Moves, SettleOne(s, m[1], m[2])
        PROVE  \A r \in Sale : status[r] \in {"completed", "voided"}
                                  => status'[r] = status[r]
    <3>1. status[s] \in {"absent", "pending"}
      BY <2>2 DEF SettleOne, Moves
    <3>2. status' = [status EXCEPT ![s] = m[2]] /\ status \in [Sale -> Status]
      BY <1>1, <2>2 DEF SettleOne, SaleInv, SettledTypes
    <3> QED BY <3>1, <3>2
  <2>3. CASE UNCHANGED Settled
    BY <2>3 DEF Settled
  <2> QED BY <2>1, <2>2, <2>3 DEF EarnOne, RefundOne
<1> QED BY <1>1, SaleInvariant, PTL DEF Spec, SettledIsFinal

-----------------------------------------------------------------------------
(* Entries                                                                 *)

\* The quantities of a list of entries.
LEMMA EntryQuantities ==
    ASSUME NEW e \in Seq(Entry)
    PROVE  /\ DOMAIN e = 1 .. Len(e) /\ Len(e) \in Nat /\ IsFiniteSet(DOMAIN e)
           /\ Qty(e) \in [DOMAIN e -> Nat] /\ Qty(e) \in [DOMAIN e -> Int]
           /\ \A k \in DOMAIN e : Qty(e)[k] = e[k].qty /\ e[k].location \in Location
           /\ Units(e) \in Nat
<1>1. /\ DOMAIN e = 1 .. Len(e) /\ Len(e) \in Nat
      /\ \A k \in DOMAIN e : e[k] \in Entry
  OBVIOUS
<1>2. IsFiniteSet(DOMAIN e)
  BY <1>1, FS_Interval
<1>3. \A k \in DOMAIN e : e[k].qty \in Nat /\ e[k].location \in Location
  BY <1>1 DEF Entry
<1>4. Qty(e) \in [DOMAIN e -> Nat] /\ \A k \in DOMAIN e : Qty(e)[k] = e[k].qty
  BY <1>3 DEF Qty
<1>5. Units(e) \in Nat
  BY <1>2, <1>4, SumOfNumbers DEF Units
<1>6. Qty(e) \in [DOMAIN e -> Int]
  BY <1>4
<1> QED BY <1>1, <1>2, <1>3, <1>4, <1>5, <1>6

\* Taken over all locations the entries give all their units.
LEMMA EntriesAddUp ==
    ASSUME NEW e \in Seq(Entry)
    PROVE  /\ \A l \in Location : UnitsAt(e, l) \in Nat
           /\ Sum([l \in Location |-> UnitsAt(e, l)]) = Units(e)
<1> DEFINE at == [k \in DOMAIN e |-> e[k].location]
           f == Qty(e)
<1>1. /\ IsFiniteSet(DOMAIN e) /\ f \in [DOMAIN e -> Int] /\ f \in [DOMAIN e -> Nat]
      /\ at \in [DOMAIN e -> Location]
  BY EntryQuantities
<1>2. \A l \in Location : EntriesAt(e, l) = {k \in DOMAIN e : at[k] = l}
  BY DEF EntriesAt
<1>3. ASSUME NEW l \in Location PROVE UnitsAt(e, l) \in Nat
  <2> DEFINE S == EntriesAt(e, l)
             g == [k \in DOMAIN e |-> IF k \in S THEN f[k] ELSE 0]
  <2>1. g \in [DOMAIN e -> Nat]
    BY <1>1
  <2>2. DOMAIN f = DOMAIN e
    BY <1>1
  <2>3. UnitsAt(e, l) = Sum(g)
    BY <2>2 DEF UnitsAt, Part
  <2> HIDE DEF g
  <2> QED BY <1>1, <2>1, <2>3, SumOfNumbers
<1>4. [l \in Location |-> UnitsAt(e, l)] = [l \in Location |-> Part(f, {k \in DOMAIN e : at[k] = l})]
  BY <1>2 DEF UnitsAt
<1> HIDE DEF at, f
<1>5. Sum([l \in Location |-> Part(f, {k \in DOMAIN e : at[k] = l})]) = Sum(f)
  <2> DEFINE D == DOMAIN e
  <2>1. IsFiniteSet(D) /\ f \in [D -> Int] /\ at \in [D -> Location]
    BY <1>1
  <2> HIDE DEF D
  <2>2. Sum([l \in Location |-> Part(f, {k \in D : at[k] = l})]) = Sum(f)
    BY <2>1, PlacesAddUp
  <2> QED BY <2>2 DEF D
<1> QED BY <1>3, <1>4, <1>5 DEF Units, f

\* A list as long as the route or the cart is a sequence.
LEMMA ListIsSeq ==
    ASSUME NEW S, NEW n \in Nat, NEW e \in [1 .. n -> S]
    PROVE  e \in Seq(S)
OBVIOUS

\* The allocation of a covered need is a list of entries that add up to it.
LEMMA AllocationAddsUp ==
    ASSUME NEW p \in Product, stock \in [Product -> [Location -> Int]],
           NEW need \in Nat, need <= Sum(AlongRoute(p))
    PROVE  /\ Allocation(p, need) \in Seq(Entry)
           /\ Units(Allocation(p, need)) = need
<1> DEFINE D == DOMAIN Route
           n == Len(Route)
           a == AlongRoute(p)
           e == Allocation(p, need)
           t == Qty(e)
           W == [k \in 0 .. n |-> 1 .. k]
<1>1. D = 1 .. n /\ n \in Nat /\ IsFiniteSet(D) /\ \A k \in D : Route[k] \in Location
  <2>1. D = 1 .. n /\ n \in Nat /\ \A k \in D : Route[k] \in Location
    BY StockAssumption
  <2> HIDE DEF n
  <2> QED BY <2>1, FS_Interval
<1>2. a \in [D -> Nat]
  <2>1. \A l \in Location : Available(p, l) \in Nat
    BY DEF Available, Most
  <2> QED BY <1>1, <2>1 DEF AlongRoute
<1>3. a \in [D -> Int]
  BY <1>2
<1>4. \A S : Part(a, S) \in Int
  <2> HIDE DEF a, D
  <2> QED BY <1>1, <1>3, PartWhole
<1>5. \A k \in D : Share(need, a[k], Part(a, 1 .. (k - 1))) \in Nat
  <2> HIDE DEF a
  <2>1. \A k \in D : a[k] \in Nat /\ Part(a, 1 .. (k - 1)) \in Int
    BY <1>2, <1>4
  <2>2. need \in Int
    OBVIOUS
  <2>3. \A here \in Nat, before \in Int : Share(need, here, before) \in Nat
    BY <2>2, ShareIsPart
  <2> QED BY <2>1, <2>3, Zenon
<1>6. /\ e \in [1 .. n -> Entry] /\ \A k \in D : e[k].qty = Share(need, a[k], Part(a, 1 .. (k - 1)))
  BY <1>1, <1>5 DEF Allocation, Entry
<1>7. e \in Seq(Entry) /\ DOMAIN e = D
  <2> HIDE DEF e, n
  <2> QED BY <1>1, <1>6, ListIsSeq
<1>8. t \in [D -> Int] /\ \A k \in D : t[k] = Share(need, a[k], Part(a, 1 .. (k - 1)))
  <2> HIDE DEF e, a, D
  <2> QED BY <1>6, <1>7, EntryQuantities
<1>9. W \in [0 .. n -> SUBSET D] /\ W[0] = {} /\ W[n] = D
  BY <1>1
<1>10. \A k \in 1 .. n : \E x \in D \ W[k - 1] :
            /\ W[k] = W[k - 1] \cup {x}
            /\ t[x] = Share(need, a[x], Part(a, W[k - 1]))
  <2> TAKE k \in 1 .. n
  <2>1. k - 1 \in 0 .. n /\ W[k - 1] = 1 .. (k - 1) /\ W[k] = 1 .. k /\ k \in D \ W[k - 1]
    BY <1>1
  <2>2. W[k] = W[k - 1] \cup {k}
    BY <2>1
  <2> HIDE DEF W, t, a, D, n
  <2>3. t[k] = Share(need, a[k], Part(a, W[k - 1]))
    BY <1>8, <2>1
  <2> QED BY <2>1, <2>2, <2>3
<1> HIDE DEF W, t, a, D, n, e
<1>11. Sum(t) = Least(need, Sum(a))
  <2>1. InTurn(D, n, W, need, a, t)
    BY <1>9, <1>10 DEF InTurn
  <2>2. /\ IsFiniteSet(D) /\ n \in Nat /\ need \in Nat
        /\ a \in [D -> Nat] /\ t \in [D -> Int]
    BY <1>1, <1>2, <1>8
  <2> HIDE DEF D
  <2> QED BY <2>1, <2>2, Filling, Zenon
<1>12. Least(need, Sum(a)) = need
  BY DEF Least, a
<1> QED BY <1>7, <1>11, <1>12 DEF Units, t, e

\* A partial refund walks back over entries until it has found its units.
LEMMA BackAddsUp ==
    ASSUME NEW e \in Seq(Entry), NEW q \in Nat, q <= Units(e)
    PROVE  /\ \A l \in Location : CreditAt(e, q, l) \in Nat
           /\ Sum([l \in Location |-> CreditAt(e, q, l)]) = q
<1> DEFINE D == DOMAIN e
           n == Len(e)
           a == Qty(e)
           t == FromTheBack(e, q)
           after(k) == {j \in D : j > k}
           W == [k \in 0 .. n |-> after(n - k)]
           at == [k \in D |-> e[k].location]
<1>1. /\ D = 1 .. n /\ n \in Nat /\ IsFiniteSet(D) /\ a \in [D -> Nat] /\ a \in [D -> Int]
      /\ \A k \in D : a[k] = e[k].qty
      /\ at \in [D -> Location]
  BY EntryQuantities
<1>2. \A S : Part(a, S) \in Int
  <2> HIDE DEF a, D
  <2> QED BY <1>1, PartWhole
<1>3. \A k \in D : t[k] = Share(q, a[k], Part(a, after(k)))
  BY <1>1 DEF FromTheBack
<1>4. \A k \in D : Share(q, a[k], Part(a, after(k))) \in Nat
  <2> HIDE DEF a, after
  <2>1. \A k \in D : a[k] \in Nat /\ Part(a, after(k)) \in Int
    BY <1>1, <1>2
  <2>2. q \in Int
    OBVIOUS
  <2>3. \A here \in Nat, before \in Int : Share(q, here, before) \in Nat
    BY <2>2, ShareIsPart
  <2> QED BY <2>1, <2>3, Zenon
<1>5. t \in [D -> Nat] /\ t \in [D -> Int]
  <2>1. t = [k \in D |-> t[k]]
    BY DEF FromTheBack
  <2> HIDE DEF t, a, after
  <2>2. \A k \in D : t[k] \in Nat
    BY <1>3, <1>4
  <2> QED BY <2>1, <2>2
<1>6. W \in [0 .. n -> SUBSET D] /\ W[0] = {} /\ W[n] = D
  BY <1>1
<1>7. \A k \in 1 .. n : \E x \in D \ W[k - 1] :
            /\ W[k] = W[k - 1] \cup {x}
            /\ t[x] = Share(q, a[x], Part(a, W[k - 1]))
  <2> TAKE k \in 1 .. n
  <2> DEFINE x == n - (k - 1)
  <2>1. k - 1 \in 0 .. n /\ x \in D /\ W[k - 1] = after(x) /\ W[k] = after(n - k)
    BY <1>1
  <2>2. x \notin after(x) /\ after(n - k) = after(x) \cup {x}
    BY <1>1
  <2> HIDE DEF W, t, a, D, n, after, x
  <2>3. t[x] = Share(q, a[x], Part(a, W[k - 1]))
    BY <1>3, <2>1
  <2> QED BY <2>1, <2>2, <2>3
<1>8. Sum(t) = Least(q, Sum(a))
  <2> HIDE DEF W, t, a, D, n
  <2>1. InTurn(D, n, W, q, a, t)
    BY <1>6, <1>7 DEF InTurn
  <2>2. IsFiniteSet(D) /\ a \in [D -> Nat] /\ t \in [D -> Int] /\ n \in Nat
    BY <1>1, <1>5
  <2> QED BY <2>1, <2>2, Filling
<1>9. Units(e) = Sum(a) /\ Least(q, Sum(a)) = q
  BY DEF Units, Least
<1>10. CASE q >= Units(e)
  <2>1. q = Units(e)
    BY <1>10, EntryQuantities
  <2>2. \A l \in Location : CreditAt(e, q, l) = UnitsAt(e, l)
    BY <1>10 DEF CreditAt
  <2>3. [l \in Location |-> CreditAt(e, q, l)] = [l \in Location |-> UnitsAt(e, l)]
    BY <2>2
  <2> QED BY <2>1, <2>2, <2>3, EntriesAddUp
<1>11. CASE ~(q >= Units(e))
  <2>1. \A l \in Location : CreditAt(e, q, l) = Part(t, {k \in D : at[k] = l})
    BY <1>11 DEF CreditAt, EntriesAt
  <2>2. [l \in Location |-> CreditAt(e, q, l)] = [l \in Location |-> Part(t, {k \in D : at[k] = l})]
    BY <2>1
  <2>3. ASSUME NEW l \in Location PROVE Part(t, {k \in D : at[k] = l}) \in Nat
    <3> DEFINE g == [k \in D |-> IF k \in {j \in D : at[j] = l} THEN t[k] ELSE 0]
    <3>1. g \in [D -> Nat]
      <4> HIDE DEF t, D, at
      <4> QED BY <1>5
    <3>2. Part(t, {k \in D : at[k] = l}) = Sum(g)
      <4>1. DOMAIN t = D
        BY <1>5
      <4> HIDE DEF t, D, at
      <4> QED BY <4>1 DEF Part
    <3> HIDE DEF g, t, D, at
    <3> QED BY <1>1, <3>1, <3>2, SumOfNumbers
  <2>4. Sum([l \in Location |-> Part(t, {k \in D : at[k] = l})]) = Sum(t)
    <3> HIDE DEF t, D, at
    <3>1. IsFiniteSet(D) /\ t \in [D -> Int] /\ at \in [D -> Location]
      BY <1>1, <1>5
    <3> QED BY <3>1, PlacesAddUp
  <2> HIDE DEF t, a, D, at
  <2> QED BY <1>8, <1>9, <2>1, <2>2, <2>3, <2>4
<1> QED BY <1>10, <1>11

-----------------------------------------------------------------------------
(* What the four handlers that move stock move, by line, product and       *)
(* location                                                                *)

\* The columns of the stock invariants, and what they need of a till
StockTypes ==
    /\ deductions \in [Sale -> Seq(Seq(Entry))]
    /\ stock \in [Product -> [Location -> Int]]

\* A cart is a list of lines.
LEMMA CartLines ==
    ASSUME NEW s \in Sale
    PROVE  /\ Line(s) = 1 .. Len(Cart[s]) /\ Len(Cart[s]) \in Nat /\ IsFiniteSet(Line(s))
           /\ \A i \in Line(s) : Cart[s][i].sku \in Product /\ Cart[s][i].qty \in Nat \ {0}
<1> DEFINE Lines == [sku : Product, qty : Nat \ {0}, value : Nat]
           c == Cart[s]
<1>1. c \in Seq(Lines)
  BY AmountsAssumption
<1> HIDE DEF Lines, c
<1>2. DOMAIN c = 1 .. Len(c) /\ Len(c) \in Nat /\ \A i \in DOMAIN c : c[i] \in Lines
  BY <1>1
<1>3. IsFiniteSet(DOMAIN c)
  BY <1>2, FS_Interval
<1> QED BY <1>2, <1>3 DEF Line, Lines, c

\* What the recipe of a line calls for
Uses(s, i, p) ==
    IF Cart[s][i].sku = p THEN 0 ELSE Cart[s][i].qty * Recipe[Cart[s][i].sku][p]

\* What a line needs of a product: its quantity of itself, and of any other
\* product what its recipe calls for, which is nothing if no recipe uses it.
LEMMA NeedOfLine ==
    ASSUME NEW s \in Sale, NEW i \in Line(s), NEW p \in Product
    PROVE  /\ Need(s, i, p) \in Nat /\ Uses(s, i, p) \in Nat
           /\ p \in Tracked /\ p = Cart[s][i].sku => Need(s, i, p) = Cart[s][i].qty
           /\ p \in Tracked /\ p # Cart[s][i].sku => Need(s, i, p) = Uses(s, i, p)
           /\ p \notin Ingredient => Uses(s, i, p) = 0
<1> DEFINE k == Cart[s][i].sku
           q == Cart[s][i].qty
           r == Recipe[k][p]
<1>1. k \in Product /\ q \in Nat /\ r \in Nat
  BY CartLines, StockAssumption
<1>2. p \notin Ingredient => r = 0
  BY <1>1 DEF Ingredient
<1>3. /\ Need(s, i, p) = IF p \notin Tracked THEN 0 ELSE q * (IF p = k THEN 1 ELSE r)
      /\ Uses(s, i, p) = IF k = p THEN 0 ELSE q * r
  BY DEF Need, Uses
<1> HIDE DEF k, q, r
<1>4. q * r \in Nat /\ q * 1 = q /\ q * 0 = 0
  BY <1>1
<1>5. CASE p = k
  BY <1>1, <1>3, <1>4, <1>5 DEF k, q
<1>6. CASE p # k
  BY <1>1, <1>2, <1>3, <1>4, <1>6 DEF k, q
<1> QED BY <1>5, <1>6

\* Units in numbers come to numbers.
LEMMA LinesCount ==
    ASSUME NEW I, IsFiniteSet(I), NEW p \in Product,
           NEW units \in [I -> [Product -> [Location -> Nat]]]
    PROVE  /\ OverLines(units)[p] \in [Location -> Nat]
           /\ Sum(OverLines(units)[p]) = Sum([i \in I |-> Sum(units[i][p])])
<1>1. units \in [I -> [Product -> [Location -> Int]]]
  <2>1. [Location -> Nat] \subseteq [Location -> Int]
    OBVIOUS
  <2>2. [Product -> [Location -> Nat]] \subseteq [Product -> [Location -> Int]]
    BY <2>1
  <2> QED BY <2>2
<1>2. ASSUME NEW l \in Location PROVE Sum([i \in I |-> units[i][p][l]]) \in Nat
  <2> DEFINE c == [i \in I |-> units[i][p][l]]
  <2>1. c \in [I -> Nat]
    OBVIOUS
  <2> HIDE DEF c
  <2>2. Sum(c) \in Nat
    BY <2>1, SumOfNumbers
  <2> QED BY <2>2 DEF c
<1>3. OverLines(units)[p] = [l \in Location |-> Sum([i \in I |-> units[i][p][l]])]
  BY DEF OverLines
<1>4. OverLines(units)[p] \in [Location -> Nat]
  BY <1>2, <1>3
<1> QED BY <1>1, <1>4, LinesAddUp

\* A checkout's entries, by line.
TakenBy(s) ==
    [i \in Line(s) |-> [p \in Product |-> [l \in Location |->
        UnitsAt(Allocation(p, Need(s, i, p)), l)]]]

\* They are entries, and line by line they hold what the line needs.
LEMMA TakenLines ==
    ASSUME NEW s \in Sale, StockTypes, Covered(s)
    PROVE  /\ Taken(s) = OverLines(TakenBy(s))
           /\ TakenBy(s) \in [Line(s) -> [Product -> [Location -> Nat]]]
           /\ \A i \in Line(s), p \in Product :
                 /\ Allocation(p, Need(s, i, p)) \in Seq(Entry)
                 /\ Units(Allocation(p, Need(s, i, p))) = Need(s, i, p)
                 /\ Sum(TakenBy(s)[i][p]) = Need(s, i, p)
<1>1. ASSUME NEW i \in Line(s), NEW p \in Product
      PROVE  /\ Allocation(p, Need(s, i, p)) \in Seq(Entry)
             /\ Units(Allocation(p, Need(s, i, p))) = Need(s, i, p)
             /\ \A l \in Location : UnitsAt(Allocation(p, Need(s, i, p)), l) \in Nat
             /\ Sum(TakenBy(s)[i][p]) = Need(s, i, p)
  <2> DEFINE e == Allocation(p, Need(s, i, p))
  <2>1. Need(s, i, p) \in Nat /\ Need(s, i, p) <= Sum(AlongRoute(p))
    BY NeedOfLine DEF Covered
  <2>2. e \in Seq(Entry) /\ Units(e) = Need(s, i, p)
    BY <2>1, AllocationAddsUp DEF StockTypes
  <2>3. TakenBy(s)[i][p] = [l \in Location |-> UnitsAt(e, l)]
    BY DEF TakenBy
  <2> HIDE DEF e
  <2>4. /\ \A l \in Location : UnitsAt(e, l) \in Nat
        /\ Sum([l \in Location |-> UnitsAt(e, l)]) = Units(e)
    BY <2>2, EntriesAddUp
  <2> QED BY <2>2, <2>3, <2>4 DEF e
<1>2. TakenBy(s) \in [Line(s) -> [Product -> [Location -> Nat]]]
  BY <1>1 DEF TakenBy
<1> QED BY <1>1, <1>2 DEF Taken, TakenBy

\* A resolved checkout's units, by line: the entries chosen for a short
\* product, the first location for the rest.
ResolvedBy(s, chosen) ==
    [i \in Line(s) |-> [p \in Product |-> [l \in Location |->
        IF Cart[s][i].sku \in DOMAIN chosen
        THEN IF p = Cart[s][i].sku THEN UnitsAt(chosen[p], l) ELSE 0
        ELSE IF l = Route[1] THEN Need(s, i, p) ELSE 0]]]

\* They are numbers; a recipe's units are at the first location or nowhere.
LEMMA ResolvedLines ==
    ASSUME NEW s \in Sale, NEW chosen, \A p \in DOMAIN chosen : chosen[p] \in Seq(Entry)
    PROVE  /\ ResolvedBy(s, chosen) \in [Line(s) -> [Product -> [Location -> Nat]]]
           /\ \A i \in Line(s), p \in Tracked :
                 p # Cart[s][i].sku => Sum(ResolvedBy(s, chosen)[i][p]) <= Uses(s, i, p)
<1>0. IsFiniteSet(Location) /\ Route[1] \in Location /\ Tracked \subseteq Product
  BY StockAssumption
<1>1. ASSUME NEW p \in DOMAIN chosen
      PROVE  \A l \in Location : UnitsAt(chosen[p], l) \in Nat
  <2> DEFINE e == chosen[p]
  <2>1. e \in Seq(Entry)
    OBVIOUS
  <2> HIDE DEF e
  <2>2. \A l \in Location : UnitsAt(e, l) \in Nat
    BY <2>1, EntriesAddUp
  <2> QED BY <2>2 DEF e
<1>2. ResolvedBy(s, chosen) \in [Line(s) -> [Product -> [Location -> Nat]]]
  <2>1. \A i \in Line(s), p \in Product, l \in Location :
           (IF Cart[s][i].sku \in DOMAIN chosen
            THEN IF p = Cart[s][i].sku THEN UnitsAt(chosen[p], l) ELSE 0
            ELSE IF l = Route[1] THEN Need(s, i, p) ELSE 0) \in Nat
    BY <1>1, NeedOfLine
  <2> QED BY <2>1 DEF ResolvedBy
<1>3. ASSUME NEW i \in Line(s), NEW p \in Tracked, p # Cart[s][i].sku
      PROVE  Sum(ResolvedBy(s, chosen)[i][p]) <= Uses(s, i, p)
  <2> DEFINE row == ResolvedBy(s, chosen)[i][p]
             k == Cart[s][i].sku
  <2>1. row \in [Location -> Nat] /\ row \in [Location -> Int]
    BY <1>0, <1>2
  <2>2. Uses(s, i, p) \in Nat /\ Need(s, i, p) = Uses(s, i, p)
    BY <1>0, <1>3, NeedOfLine
  <2>3. CASE k \in DOMAIN chosen
    <3>1. \A l \in Location : row[l] = 0
      BY <1>0, <1>3, <2>3 DEF ResolvedBy
    <3> HIDE DEF row
    <3>2. Sum(row) = 0
      BY <1>0, <2>1, <3>1, SumOfZeros
    <3> QED BY <2>2, <3>2 DEF row
  <2>4. CASE k \notin DOMAIN chosen
    <3> DEFINE here == Route[1]
    <3>1. row[here] = Need(s, i, p) /\ here \in Location /\ \A l \in Location \ {here} : row[l] = 0
      BY <1>0, <2>4 DEF ResolvedBy
    <3> HIDE DEF row, here
    <3>2. Sum(row) = row[here]
      BY <1>0, <2>1, <3>1, SumOfOne
    <3> QED BY <2>2, <3>1, <3>2 DEF row
  <2> QED BY <2>3, <2>4
<1> QED BY <1>2, <1>3

\* A live sale has a list of entries for each line that hold what the line
\* sold: what voids and refunds rely on.
LinesRecorded ==
    \A s \in Sale : Live(s) =>
        /\ DOMAIN deductions[s] = Line(s)
        /\ \A i \in Line(s) : Units(deductions[s][i]) = Cart[s][i].qty

\* A void's units, by line.
LEMMA RecordedLines ==
    ASSUME NEW s \in Sale, StockTypes, DOMAIN deductions[s] = Line(s)
    PROVE  /\ Recorded(s) \in [Line(s) -> [Product -> [Location -> Nat]]]
           /\ \A i \in Line(s), p \in Product :
                 Sum(Recorded(s)[i][p])
                   = IF p = Cart[s][i].sku THEN Units(deductions[s][i]) ELSE 0
<1>0. IsFiniteSet(Location)
  BY StockAssumption
<1>1. \A i \in Line(s) : deductions[s][i] \in Seq(Entry)
  BY DEF StockTypes
<1>2. ASSUME NEW i \in Line(s)
      PROVE  /\ \A l \in Location : UnitsAt(deductions[s][i], l) \in Nat
             /\ Sum([l \in Location |-> UnitsAt(deductions[s][i], l)]) = Units(deductions[s][i])
  <2> DEFINE e == deductions[s][i]
  <2>1. e \in Seq(Entry)
    BY <1>1
  <2> HIDE DEF e
  <2>2. /\ \A l \in Location : UnitsAt(e, l) \in Nat
        /\ Sum([l \in Location |-> UnitsAt(e, l)]) = Units(e)
    BY <2>1, EntriesAddUp
  <2> QED BY <2>2 DEF e
<1>3. Recorded(s) \in [Line(s) -> [Product -> [Location -> Nat]]]
  BY <1>2 DEF Recorded
<1>4. ASSUME NEW i \in Line(s), NEW p \in Product
      PROVE  Sum(Recorded(s)[i][p])
               = IF p = Cart[s][i].sku THEN Units(deductions[s][i]) ELSE 0
  <2> DEFINE row == Recorded(s)[i][p]
  <2>1. row \in [Location -> Int]
    BY <1>3
  <2>2. CASE p = Cart[s][i].sku
    <3>1. row = [l \in Location |-> UnitsAt(deductions[s][i], l)]
      BY <2>2 DEF Recorded
    <3> QED BY <1>2, <2>2, <3>1
  <2>3. CASE p # Cart[s][i].sku
    <3>1. \A l \in Location : row[l] = 0
      BY <2>3 DEF Recorded
    <3> HIDE DEF row
    <3>2. Sum(row) = 0
      BY <1>0, <2>1, <3>1, SumOfZeros
    <3> QED BY <2>3, <3>2 DEF row
  <2> QED BY <2>2, <2>3
<1> QED BY <1>3, <1>4

\* A refund's units, by line.
RefundedBy(s, qty) ==
    [i \in Line(s) |-> [p \in Product |-> [l \in Location |->
        IF qty[i] > 0 /\ p = Cart[s][i].sku
        THEN CreditAt(deductions[s][i], qty[i], l) ELSE 0]]]

\* The units of each line come to what the cashier gives back.
LEMMA RefundedLines ==
    ASSUME NEW s \in Sale, StockTypes, DOMAIN deductions[s] = Line(s),
           NEW qty \in [Line(s) -> Nat],
           \A i \in Line(s) : qty[i] > 0 => qty[i] <= Units(deductions[s][i])
    PROVE  /\ RefundedBy(s, qty) \in [Line(s) -> [Product -> [Location -> Nat]]]
           /\ \A i \in Line(s), p \in Product :
                 Sum(RefundedBy(s, qty)[i][p]) = IF p = Cart[s][i].sku THEN qty[i] ELSE 0
<1>0. IsFiniteSet(Location)
  BY StockAssumption
<1>1. \A i \in Line(s) : deductions[s][i] \in Seq(Entry)
  BY DEF StockTypes
<1>2. ASSUME NEW i \in Line(s), qty[i] > 0
      PROVE  /\ \A l \in Location : CreditAt(deductions[s][i], qty[i], l) \in Nat
             /\ Sum([l \in Location |-> CreditAt(deductions[s][i], qty[i], l)]) = qty[i]
  <2> DEFINE e == deductions[s][i]
             q == qty[i]
  <2>1. e \in Seq(Entry) /\ q \in Nat /\ q <= Units(e)
    BY <1>1, <1>2
  <2> HIDE DEF e, q
  <2>2. /\ \A l \in Location : CreditAt(e, q, l) \in Nat
        /\ Sum([l \in Location |-> CreditAt(e, q, l)]) = q
    BY <2>1, BackAddsUp
  <2> QED BY <2>2 DEF e, q
<1>3. RefundedBy(s, qty) \in [Line(s) -> [Product -> [Location -> Nat]]]
  BY <1>2 DEF RefundedBy
<1>4. ASSUME NEW i \in Line(s), NEW p \in Product
      PROVE  Sum(RefundedBy(s, qty)[i][p]) = IF p = Cart[s][i].sku THEN qty[i] ELSE 0
  <2> DEFINE row == RefundedBy(s, qty)[i][p]
  <2>1. row \in [Location -> Int]
    BY <1>3
  <2>2. CASE qty[i] > 0 /\ p = Cart[s][i].sku
    <3>1. row = [l \in Location |-> CreditAt(deductions[s][i], qty[i], l)]
      BY <2>2 DEF RefundedBy
    <3> QED BY <1>2, <2>2, <3>1
  <2>3. CASE ~(qty[i] > 0 /\ p = Cart[s][i].sku)
    <3>1. \A l \in Location : row[l] = 0
      BY <2>3 DEF RefundedBy
    <3> HIDE DEF row
    <3>2. Sum(row) = 0
      BY <1>0, <2>1, <3>1, SumOfZeros
    <3> QED BY <2>3, <3>2 DEF row
  <2> QED BY <2>2, <2>3
<1> QED BY <1>3, <1>4

-----------------------------------------------------------------------------
(* Every step takes units for one sale, gives units of one back, or moves  *)
(* no stock.                                                               *)

\* Units leave the shelf for a new sale and are recorded where they left; what
\* else leaves is what the recipes call for.
Takes(s, units, to) ==
    /\ status[s] = "absent" /\ to \in {"pending", "completed"}
    /\ status' = [status EXCEPT ![s] = to]
    /\ TakeStock(OverLines(units))
    /\ units \in [Line(s) -> [Product -> [Location -> Nat]]]
    /\ UNCHANGED unitsBack
    /\ \E d \in Seq(Seq(Entry)) :
          /\ deductions' = [deductions EXCEPT ![s] = d]
          /\ DOMAIN d = Line(s)
          /\ \A i \in Line(s) : Units(d[i]) = Cart[s][i].qty
          /\ \A i \in Line(s), p \in Tracked :
                IF p = Cart[s][i].sku
                THEN \A l \in Location : units[i][p][l] = UnitsAt(d[i], l)
                ELSE Sum(units[i][p]) <= Uses(s, i, p)

\* The single entry of a line that keeps no stock, or that comes from the
\* first location.
LEMMA OneEntry ==
    ASSUME NEW q \in Nat
    PROVE  /\ <<[location |-> Route[1], qty |-> q]>> \in Seq(Entry)
           /\ Units(<<[location |-> Route[1], qty |-> q]>>) = q
           /\ \A l \in Location : UnitsAt(<<[location |-> Route[1], qty |-> q]>>, l)
                                     = IF l = Route[1] THEN q ELSE 0
<1> DEFINE e == <<[location |-> Route[1], qty |-> q]>>
<1>1. Route[1] \in Location
  BY StockAssumption
<1>2. [location |-> Route[1], qty |-> q] \in Entry
  BY <1>1 DEF Entry
<1>3. e \in Seq(Entry) /\ DOMAIN e = {1} /\ e[1].qty = q /\ e[1].location = Route[1]
  BY <1>2
<1> HIDE DEF e
<1>4. Qty(e) \in [{1} -> Int] /\ Qty(e)[1] = q
  BY <1>3 DEF Qty
<1>5. IsFiniteSet({1})
  BY FS_Singleton
<1>6. Sum(Qty(e)) = Qty(e)[1]
  <2> DEFINE f == Qty(e)
  <2>1. f \in [{1} -> Int] /\ \A y \in {1} \ {1} : f[y] = 0
    BY <1>4
  <2> HIDE DEF f
  <2>2. Sum(f) = f[1]
    BY <1>5, <2>1, SumOfOne
  <2> QED BY <2>2 DEF f
<1>7. \A l \in Location : UnitsAt(e, l) = IF l = Route[1] THEN q ELSE 0
  <2> TAKE l \in Location
  <2> DEFINE f == Qty(e)
  <2>1. EntriesAt(e, l) = IF l = Route[1] THEN {1} ELSE {}
    BY <1>3 DEF EntriesAt
  <2>2. f \in [{1} -> Int] /\ f[1] = q /\ Sum(f) = q
    BY <1>4, <1>6
  <2> HIDE DEF f
  <2>3. Part(f, {1}) = q /\ Part(f, {}) = 0
    BY <1>5, <2>2, PartWhole
  <2> QED BY <2>1, <2>3 DEF UnitsAt, f
<1> QED BY <1>3, <1>4, <1>6, <1>7 DEF Units, e

\* complete_sale_impl takes and records the same units.
LEMMA CheckoutTakes ==
    ASSUME NEW s \in Sale, StockTypes, SettledTypes, Checkout(s)
    PROVE  Takes(s, TakenBy(s), "pending")
<1> DEFINE d == [i \in Line(s) |->
           IF Cart[s][i].sku \in Tracked THEN Allocation(Cart[s][i].sku, Cart[s][i].qty)
           ELSE <<[location |-> Route[1], qty |-> Cart[s][i].qty]>>]
<1>1. /\ Taken(s) = OverLines(TakenBy(s))
      /\ TakenBy(s) \in [Line(s) -> [Product -> [Location -> Nat]]]
      /\ \A i \in Line(s), p \in Product :
            /\ Allocation(p, Need(s, i, p)) \in Seq(Entry)
            /\ Units(Allocation(p, Need(s, i, p))) = Need(s, i, p)
            /\ Sum(TakenBy(s)[i][p]) = Need(s, i, p)
  BY TakenLines DEF Checkout
<1>2. /\ Line(s) = 1 .. Len(Cart[s]) /\ Len(Cart[s]) \in Nat
      /\ \A i \in Line(s) : Cart[s][i].sku \in Product /\ Cart[s][i].qty \in Nat
      /\ Tracked \subseteq Product
  BY CartLines, StockAssumption
<1>3. \A i \in Line(s), p \in Product :
         /\ p \in Tracked /\ p = Cart[s][i].sku => Need(s, i, p) = Cart[s][i].qty
         /\ p \in Tracked /\ p # Cart[s][i].sku => Need(s, i, p) = Uses(s, i, p)
         /\ Uses(s, i, p) \in Nat
  BY NeedOfLine
<1>4. \A i \in Line(s) : d[i] \in Seq(Entry) /\ Units(d[i]) = Cart[s][i].qty
  <2> TAKE i \in Line(s)
  <2>1. CASE Cart[s][i].sku \in Tracked
    <3>1. d[i] = Allocation(Cart[s][i].sku, Cart[s][i].qty)
      BY <2>1
    <3>2. Need(s, i, Cart[s][i].sku) = Cart[s][i].qty
      BY <1>2, <1>3, <2>1
    <3> HIDE DEF d
    <3> QED BY <1>1, <1>2, <3>1, <3>2
  <2>2. CASE Cart[s][i].sku \notin Tracked
    <3>1. d[i] = <<[location |-> Route[1], qty |-> Cart[s][i].qty]>>
      BY <2>2
    <3> HIDE DEF d
    <3> QED BY <1>2, <2>2, <3>1, OneEntry
  <2> QED BY <2>1, <2>2
<1>5. d \in Seq(Seq(Entry)) /\ DOMAIN d = Line(s)
  <2>1. d \in [Line(s) -> Seq(Entry)]
    BY <1>4
  <2> HIDE DEF d
  <2>2. d \in [1 .. Len(Cart[s]) -> Seq(Entry)]
    BY <1>2, <2>1
  <2>3. d \in Seq(Seq(Entry))
    BY <1>2, <2>2, ListIsSeq
  <2> QED BY <2>1, <2>3
<1>6. \A i \in Line(s), p \in Tracked :
         IF p = Cart[s][i].sku
         THEN \A l \in Location : TakenBy(s)[i][p][l] = UnitsAt(d[i], l)
         ELSE Sum(TakenBy(s)[i][p]) <= Uses(s, i, p)
  <2> TAKE i \in Line(s), p \in Tracked
  <2>1. CASE p = Cart[s][i].sku
    <3>1. Need(s, i, p) = Cart[s][i].qty
      BY <1>2, <1>3, <2>1
    <3> QED BY <1>2, <2>1, <3>1 DEF TakenBy
  <2>2. CASE p # Cart[s][i].sku
    <3>1. Sum(TakenBy(s)[i][p]) = Uses(s, i, p) /\ Uses(s, i, p) \in Nat
      BY <1>1, <1>2, <1>3, <2>2
    <3> QED BY <2>2, <3>1
  <2> QED BY <2>1, <2>2
<1>7. deductions' = [deductions EXCEPT ![s] = d]
  BY DEF Checkout
<1>8. /\ status[s] = "absent" /\ status' = [status EXCEPT ![s] = "pending"]
      /\ TakeStock(Taken(s)) /\ UNCHANGED unitsBack
  BY DEF Checkout
<1> HIDE DEF d
<1> QED BY <1>1, <1>4, <1>5, <1>6, <1>7, <1>8 DEF Takes

\* The entries a cashier chooses are entries.
LEMMA ChosenEntries ==
    ASSUME NEW s \in Sale, NEW chosen \in Resolutions(s)
    PROVE  \A p \in DOMAIN chosen : chosen[p] \in Seq(Entry)
<1>1. \A q : EntriesFor(q) \subseteq Seq(Entry)
  <2>1. SUFFICES ASSUME NEW q, NEW e \in EntriesFor(q) PROVE e \in Seq(Entry)
    OBVIOUS
  <2>2. PICK n \in 1 .. q : e \in [1 .. n -> [location : Location, qty : 1 .. q]]
    BY <2>1 DEF EntriesFor
  <2>3. [location : Location, qty : 1 .. q] \subseteq Entry
    BY DEF Entry
  <2>4. e \in [1 .. n -> Entry] /\ n \in Nat
    BY <2>2, <2>3
  <2> QED BY <2>4, ListIsSeq
<1>2. PICK P, Q : chosen \in [P -> UNION {EntriesFor(q) : q \in Q}]
  BY Zenon DEF Resolutions
<1>3. UNION {EntriesFor(q) : q \in Q} \subseteq Seq(Entry)
  BY <1>1
<1> QED BY <1>2, <1>3

\* complete_sale_with_resolved_sources takes the chosen entries and records
\* them.
LEMMA ResolvedTakes ==
    ASSUME NEW s \in Sale, NEW chosen \in Resolutions(s), CheckoutResolved(s, chosen)
    PROVE  Takes(s, ResolvedBy(s, chosen), "completed")
<1> DEFINE d == [i \in Line(s) |->
           IF Cart[s][i].sku \in DOMAIN chosen THEN chosen[Cart[s][i].sku]
           ELSE <<[location |-> Route[1], qty |-> Cart[s][i].qty]>>]
<1>1. \A p \in DOMAIN chosen : chosen[p] \in Seq(Entry)
  BY ChosenEntries
<1>2. AddsUp(s, chosen)
  BY DEF CheckoutResolved
<1>3. /\ ResolvedBy(s, chosen) \in [Line(s) -> [Product -> [Location -> Nat]]]
      /\ \A i \in Line(s), p \in Tracked :
            p # Cart[s][i].sku => Sum(ResolvedBy(s, chosen)[i][p]) <= Uses(s, i, p)
  BY <1>1, ResolvedLines
<1>4. /\ Line(s) = 1 .. Len(Cart[s]) /\ Len(Cart[s]) \in Nat
      /\ \A i \in Line(s) : Cart[s][i].sku \in Product /\ Cart[s][i].qty \in Nat
  BY CartLines
<1>5. \A i \in Line(s) : d[i] \in Seq(Entry) /\ Units(d[i]) = Cart[s][i].qty
  <2> TAKE i \in Line(s)
  <2>1. CASE Cart[s][i].sku \in DOMAIN chosen
    <3>1. d[i] = chosen[Cart[s][i].sku]
      BY <2>1
    <3> HIDE DEF d
    <3> QED BY <1>1, <1>2, <2>1, <3>1 DEF AddsUp
  <2>2. CASE Cart[s][i].sku \notin DOMAIN chosen
    <3>1. d[i] = <<[location |-> Route[1], qty |-> Cart[s][i].qty]>>
      BY <2>2
    <3> HIDE DEF d
    <3> QED BY <1>4, <3>1, OneEntry
  <2> QED BY <2>1, <2>2
<1>6. d \in Seq(Seq(Entry)) /\ DOMAIN d = Line(s)
  <2>1. d \in [Line(s) -> Seq(Entry)]
    BY <1>5
  <2> HIDE DEF d
  <2>2. d \in [1 .. Len(Cart[s]) -> Seq(Entry)]
    BY <1>4, <2>1
  <2>3. d \in Seq(Seq(Entry))
    BY <1>4, <2>2, ListIsSeq
  <2> QED BY <2>1, <2>3
<1>7. /\ deductions' = [deductions EXCEPT ![s] = d]
      /\ status[s] = "absent" /\ status' = [status EXCEPT ![s] = "completed"]
      /\ TakeStock(OverLines(ResolvedBy(s, chosen))) /\ UNCHANGED unitsBack
  BY DEF CheckoutResolved, ResolvedBy
<1>8. \A i \in Line(s), p \in Tracked :
         p = Cart[s][i].sku =>
            \A l \in Location : ResolvedBy(s, chosen)[i][p][l] = UnitsAt(d[i], l)
  <2> TAKE i \in Line(s), p \in Tracked
  <2> SUFFICES ASSUME p = Cart[s][i].sku, NEW l \in Location
               PROVE  ResolvedBy(s, chosen)[i][p][l] = UnitsAt(d[i], l)
    OBVIOUS
  <2>1. p \in Product
    BY <1>4
  <2>2. CASE p \in DOMAIN chosen
    BY <2>1, <2>2 DEF ResolvedBy
  <2>3. CASE p \notin DOMAIN chosen
    <3>1. d[i] = <<[location |-> Route[1], qty |-> Cart[s][i].qty]>>
      BY <2>3
    <3>2. Need(s, i, p) = Cart[s][i].qty
      BY <2>1, NeedOfLine
    <3>3. ResolvedBy(s, chosen)[i][p][l] = IF l = Route[1] THEN Cart[s][i].qty ELSE 0
      BY <2>1, <2>3, <3>2 DEF ResolvedBy
    <3>4. \A q \in Nat, k \in Location :
             UnitsAt(<<[location |-> Route[1], qty |-> q]>>, k) = IF k = Route[1] THEN q ELSE 0
      BY OneEntry
    <3> HIDE DEF d
    <3>5. UnitsAt(d[i], l) = IF l = Route[1] THEN Cart[s][i].qty ELSE 0
      BY <1>4, <3>1, <3>4
    <3> QED BY <3>3, <3>5
  <2> QED BY <2>2, <2>3
<1> HIDE DEF d
<1> QED BY <1>3, <1>5, <1>6, <1>7, <1>8 DEF Takes

\* A payment is captured: no stock moves.
Completes(s) ==
    /\ status[s] = "pending"
    /\ status' = [status EXCEPT ![s] = "completed"]
    /\ UNCHANGED <<stock, deductions, unitsBack>>

Voids(s) ==
    /\ status[s] = "pending"
    /\ status' = [status EXCEPT ![s] = "voided"]
    /\ CreditStock(Recorded(s))
    /\ UNCHANGED <<deductions, unitsBack>>

GivesBack(s, qty) ==
    /\ status[s] = "completed"
    /\ CreditStock(RefundedBy(s, qty))
    /\ \A i \in Line(s) : qty[i] > 0 => unitsBack[s][i] + qty[i] <= Units(deductions[s][i])
    /\ unitsBack' = [unitsBack EXCEPT ![s] = [i \in Line(s) |-> @[i] + qty[i]]]
    /\ UNCHANGED <<status, deductions>>

Stocked == <<status, deductions, stock, unitsBack>>

\* create_refund credits the units that come back, and no more of a line than
\* its entries hold.
LEMMA RefundMoves ==
    ASSUME NEW s \in Sale, NEW qty \in Refunds(s), NEW money \in 0 .. Total[s],
           NEW value \in [Line(s) -> 0 .. Total[s]], Refund(s, qty, value, money)
    PROVE  GivesBack(s, qty)
<1>1. status[s] = "completed" /\ UNCHANGED <<status, deductions>>
  BY DEF Refund
<1>2. unitsBack' = [unitsBack EXCEPT ![s] = [i \in Line(s) |-> @[i] + qty[i]]]
  BY DEF Refund
<1>3. \A i \in Line(s) : qty[i] > 0 => unitsBack[s][i] + qty[i] <= Units(deductions[s][i])
  BY DEF Refund
<1>4. CreditStock(RefundedBy(s, qty))
  <2> DEFINE lines == {i \in Line(s) : qty[i] > 0}
             units == [i \in Line(s) |-> [p \in Product |-> [l \in Location |->
                           IF i \in lines /\ p = Cart[s][i].sku
                           THEN CreditAt(deductions[s][i], qty[i], l) ELSE 0]]]
  <2>1. CreditStock(units)
    BY DEF Refund
  <2>2. units = RefundedBy(s, qty)
    BY DEF RefundedBy
  <2> QED BY <2>1, <2>2
<1> QED BY <1>1, <1>2, <1>3, <1>4 DEF GivesBack

\* These are all the ways a step can touch the stock, the entries, the status
\* or the refunded units.
LEMMA StepsMove ==
    ASSUME StockTypes, SettledTypes, LinesRecorded, [Next]_vars
    PROVE  \/ UNCHANGED Stocked
           \/ \E s \in Sale : \E units, to : Takes(s, units, to)
           \/ \E s \in Sale : Completes(s) \/ Voids(s)
           \/ \E s \in Sale : \E qty \in [Line(s) -> Nat] : GivesBack(s, qty)
<1>1. ASSUME NEW s \in Sale, Checkout(s)
      PROVE  Takes(s, TakenBy(s), "pending")
  BY <1>1, CheckoutTakes
<1>2. ASSUME NEW s \in Sale, NEW chosen \in Resolutions(s), CheckoutResolved(s, chosen)
      PROVE  Takes(s, ResolvedBy(s, chosen), "completed")
  BY <1>2, ResolvedTakes
<1>3. ASSUME NEW s \in Sale, FinalizeSale(s) PROVE Completes(s)
  BY <1>3 DEF FinalizeSale, Completes
<1>4. ASSUME NEW s \in Sale, VoidPending(s), UNCHANGED <<deductions, unitsBack>>
      PROVE  Voids(s)
  BY <1>4 DEF VoidPending, Voids
<1>5. ASSUME NEW s \in Sale, NEW qty \in Refunds(s), NEW money \in 0 .. Total[s],
             NEW value \in [Line(s) -> 0 .. Total[s]], Refund(s, qty, value, money)
      PROVE  qty \in [Line(s) -> Nat] /\ GivesBack(s, qty)
  BY <1>5, RefundSettles, RefundMoves
<1>6. ASSUME NEW s \in Sale, EarnPoints(s) \/ Expire(s) \/ CreateTicket(s) \/ ServeTicket(s)
      PROVE  UNCHANGED Stocked
  BY <1>6 DEF EarnPoints, Expire, CreateTicket, ServeTicket, Stocked
<1>7. ASSUME NEW s \in Sale, ReapOne(s)
      PROVE  UNCHANGED Stocked \/ Voids(s)
  BY <1>4, <1>7 DEF ReapOne, Stocked
<1>8. ASSUME NEW s \in Sale, VoidPendingSale(s)
      PROVE  Voids(s)
  BY <1>4, <1>8 DEF VoidPendingSale
<1>9. CASE ReapScan
  BY <1>9 DEF ReapScan, Stocked
<1>10. CASE UNCHANGED vars
  BY <1>10 DEF vars, Stocked
<1> QED BY <1>1, <1>2, <1>3, <1>5, <1>6, <1>7, <1>8, <1>9, <1>10 DEF Next

-----------------------------------------------------------------------------
(* Books and shelf, step by step                                           *)

\* Two tables that differ in one row differ in sum by as much.
LEMMA RowChanges ==
    ASSUME NEW D, IsFiniteSet(D), NEW f \in [D -> Int], NEW g \in [D -> Int], NEW x \in D,
           \A y \in D \ {x} : g[y] = f[y]
    PROVE  Sum(g) = Sum(f) + (g[x] - f[x])
<1>1. g = [f EXCEPT ![x] = g[x]] /\ g[x] \in Int
  OBVIOUS
<1>2. \A v \in Int : Sum([f EXCEPT ![x] = v]) = Sum(f) + (v - f[x])
  BY SumExcept
<1>3. Sum([f EXCEPT ![x] = g[x]]) = Sum(f) + (g[x] - f[x])
  BY <1>1, <1>2, Zenon
<1> QED BY <1>1, <1>3, Zenon

\* What a sale stands for in the books, and what its recipes may have used
Row(s, p)  == IF Live(s) THEN Kept(s, p) ELSE 0
Used(s, p) == IF status[s] # "absent" THEN Called(s, p) ELSE 0

Gone(p)   == Sum([l \in Location |-> Opening[p][l] - stock[p][l]])
Sold(p)   == Sum([s \in Sale |-> Row(s, p)])
UsedUp(p) == Sum([s \in Sale |-> Used(s, p)])

Booked(p) == Sold(p) <= Gone(p) /\ Gone(p) <= Sold(p) + UsedUp(p)

\* The books in rows.
LEMMA BooksAreRows == BooksMatchShelf <=> \A p \in Tracked : Booked(p)
<1>1. ASSUME NEW p
      PROVE  /\ Part([s \in Sale |-> Kept(s, p)], {s \in Sale : Live(s)}) = Sold(p)
             /\ Part([s \in Sale |-> Called(s, p)], {s \in Sale : status[s] # "absent"}) = UsedUp(p)
  <2>1. [x \in DOMAIN [s \in Sale |-> Kept(s, p)] |->
            IF x \in {s \in Sale : Live(s)} THEN [s \in Sale |-> Kept(s, p)][x] ELSE 0]
          = [s \in Sale |-> Row(s, p)]
    BY DEF Row
  <2>2. [x \in DOMAIN [s \in Sale |-> Called(s, p)] |->
            IF x \in {s \in Sale : status[s] # "absent"} THEN [s \in Sale |-> Called(s, p)][x] ELSE 0]
          = [s \in Sale |-> Used(s, p)]
    BY DEF Used
  <2> QED BY <2>1, <2>2 DEF Part, Sold, UsedUp
<1> QED BY <1>1 DEF BooksMatchShelf, Booked, Gone

\* The same after a step.
LEMMA BooksArePrimed == (\A p \in Tracked : Booked(p))' => BooksMatchShelf'
<1>1. ASSUME NEW p
      PROVE  /\ Part([s \in Sale |-> Kept(s, p)'], {s \in Sale : Live(s)'}) = Sold(p)'
             /\ Part([s \in Sale |-> Called(s, p)], {s \in Sale : status'[s] # "absent"}) = UsedUp(p)'
  <2>1. [x \in DOMAIN [s \in Sale |-> Kept(s, p)'] |->
            IF x \in {s \in Sale : Live(s)'} THEN [s \in Sale |-> Kept(s, p)'][x] ELSE 0]
          = [s \in Sale |-> Row(s, p)']
    BY DEF Row
  <2>2. [x \in DOMAIN [s \in Sale |-> Called(s, p)] |->
            IF x \in {s \in Sale : status'[s] # "absent"} THEN [s \in Sale |-> Called(s, p)][x] ELSE 0]
          = [s \in Sale |-> Used(s, p)']
    BY DEF Used
  <2> QED BY <2>1, <2>2 DEF Part, Sold, UsedUp
<1> QED BY <1>1 DEF BooksMatchShelf, Booked, Gone

\* What the recipes of a sale call for is a number.
LEMMA CalledType ==
    ASSUME NEW s \in Sale, NEW p \in Product
    PROVE  /\ Called(s, p) = Sum([i \in Line(s) |-> Uses(s, i, p)])
           /\ [i \in Line(s) |-> Uses(s, i, p)] \in [Line(s) -> Nat]
           /\ Called(s, p) \in Nat /\ Used(s, p) \in Nat
<1> DEFINE f == [i \in Line(s) |-> Uses(s, i, p)]
<1>1. Called(s, p) = Sum(f)
  BY DEF Called, Uses
<1>2. f \in [Line(s) -> Nat] /\ IsFiniteSet(Line(s))
  BY CartLines, NeedOfLine
<1> HIDE DEF f
<1>3. Sum(f) \in Nat
  BY <1>2, SumOfNumbers
<1> QED BY <1>1, <1>2, <1>3 DEF Used, f

\* A sale's lines of a product, net of refunds.
Net(s, p) == [i \in Line(s) |-> IF Cart[s][i].sku = p THEN Cart[s][i].qty - unitsBack[s][i] ELSE 0]

\* They come to what the sale keeps.
LEMMA KeptIsNet ==
    ASSUME NEW s \in Sale, NEW p
    PROVE  /\ Kept(s, p) = Sum(Net(s, p))
           /\ unitsBack[s] \in [Line(s) -> Nat] => Net(s, p) \in [Line(s) -> Int] /\ Kept(s, p) \in Int
<1>1. [x \in DOMAIN [i \in Line(s) |-> Cart[s][i].qty - unitsBack[s][i]] |->
          IF x \in {i \in Line(s) : Cart[s][i].sku = p}
          THEN [i \in Line(s) |-> Cart[s][i].qty - unitsBack[s][i]][x] ELSE 0] = Net(s, p)
  BY DEF Net
<1>2. Kept(s, p) = Sum(Net(s, p))
  BY <1>1 DEF Kept, Part
<1>3. ASSUME unitsBack[s] \in [Line(s) -> Nat]
      PROVE  Net(s, p) \in [Line(s) -> Int] /\ Kept(s, p) \in Int
  <2>1. IsFiniteSet(Line(s)) /\ \A i \in Line(s) : Cart[s][i].qty \in Nat /\ unitsBack[s][i] \in Nat
    BY <1>3, CartLines
  <2>2. Net(s, p) \in [Line(s) -> Int]
    BY <2>1 DEF Net
  <2> QED BY <1>2, <2>1, <2>2, SumType
<1> QED BY <1>2, <1>3

\* Units that leave the shelf, and enter one sale's books but for what its
\* recipes used, keep the two in step.
LEMMA BooksStep ==
    ASSUME SettledTypes, StockTypes, NEW p \in Product, NEW s \in Sale, NEW m \in [Location -> Int],
           Booked(p), NEW row \in Int, NEW used \in Nat,
           \A l \in Location : stock'[p][l] = stock[p][l] - m[l],
           \A r \in Sale \ {s} : Row(r, p)' = Row(r, p) /\ Used(r, p)' = Used(r, p),
           Row(s, p)' = Row(s, p) + row, Used(s, p)' = Used(s, p) + used,
           row <= Sum(m), Sum(m) <= row + used
    PROVE  Booked(p)'
<1> DEFINE f == [r \in Sale |-> Row(r, p)]
           g == [r \in Sale |-> Row(r, p)']
           u == [r \in Sale |-> Used(r, p)]
           v == [r \in Sale |-> Used(r, p)']
           o == [l \in Location |-> Opening[p][l] - stock[p][l]]
           n == [l \in Location |-> Opening[p][l] - stock'[p][l]]
<1>1. IsFiniteSet(Location) /\ IsFiniteSet(Sale) /\ \A l \in Location : Opening[p][l] \in Int /\ stock[p][l] \in Int
  BY StockAssumption, AmountsAssumption DEF StockTypes
<1>2. Sum(m) \in Int
  BY <1>1, SumType
<1>3. \A r \in Sale : Row(r, p) \in Int /\ Used(r, p) \in Int
  <2> TAKE r \in Sale
  <2>1. Kept(r, p) \in Int
    BY KeptIsNet DEF SettledTypes
  <2>2. Used(r, p) \in Nat
    BY CalledType
  <2> QED BY <2>1, <2>2 DEF Row
<1>4. /\ f \in [Sale -> Int] /\ g \in [Sale -> Int] /\ g[s] = f[s] + row
      /\ \A r \in Sale \ {s} : g[r] = f[r]
  BY <1>3
<1>5. /\ u \in [Sale -> Int] /\ v \in [Sale -> Int] /\ v[s] = u[s] + used
      /\ \A r \in Sale \ {s} : v[r] = u[r]
  BY <1>3
<1>6. o \in [Location -> Int] /\ n \in [Location -> Int] /\ \A l \in Location : n[l] = o[l] + m[l]
  BY <1>1
<1>7. Gone(p) = Sum(o) /\ Gone(p)' = Sum(n)
  BY DEF Gone
<1>8. Sold(p) = Sum(f) /\ Sold(p)' = Sum(g) /\ UsedUp(p) = Sum(u) /\ UsedUp(p)' = Sum(v)
  BY DEF Sold, UsedUp
<1> HIDE DEF f, g, u, v, o, n
<1>9. Sum(n) = Sum(o) + Sum(m)
  BY <1>1, <1>6, SumOfSums
<1>10. Sum(g) = Sum(f) + (g[s] - f[s]) /\ Sum(v) = Sum(u) + (v[s] - u[s])
  <2>1. Sum(g) = Sum(f) + (g[s] - f[s])
    BY <1>1, <1>4, RowChanges
  <2>2. Sum(v) = Sum(u) + (v[s] - u[s])
    BY <1>1, <1>5, RowChanges
  <2> QED BY <2>1, <2>2
<1>11. Sum(f) \in Int /\ f[s] \in Int /\ Sum(u) \in Int /\ u[s] \in Int /\ Sum(o) \in Int
  BY <1>1, <1>4, <1>5, <1>6, SumType
<1>12. Sum(g) = Sum(f) + row /\ Sum(v) = Sum(u) + used
  BY <1>4, <1>5, <1>10, <1>11
<1>13. Sum(f) <= Sum(o) /\ Sum(o) <= Sum(f) + Sum(u)
  BY <1>7, <1>8 DEF Booked
<1>14. Sum(g) <= Sum(n) /\ Sum(n) <= Sum(g) + Sum(v)
  BY <1>2, <1>9, <1>11, <1>12, <1>13
<1> QED BY <1>7, <1>8, <1>14 DEF Booked

\* What goes back is taken out with the sign turned.
LEMMA SumNegated ==
    ASSUME NEW D, IsFiniteSet(D), NEW f \in [D -> Int]
    PROVE  /\ [x \in D |-> -f[x]] \in [D -> Int]
           /\ Sum([x \in D |-> -f[x]]) = -Sum(f)
<1> DEFINE g == [x \in D |-> -f[x]]
           z == [x \in D |-> 0]
<1>1. /\ g \in [D -> Int] /\ z \in [D -> Int]
      /\ \A x \in D : z[x] = f[x] + g[x]
      /\ \A x \in D : z[x] = 0
  OBVIOUS
<1> HIDE DEF g, z
<1>2. Sum(z) = 0
  BY <1>1, SumOfZeros
<1>3. Sum(z) = Sum(f) + Sum(g)
  BY <1>1, SumOfSums
<1>4. Sum(f) \in Int /\ Sum(g) \in Int
  BY <1>1, SumType
<1>5. Sum(g) = -Sum(f)
  BY <1>2, <1>3, <1>4
<1> QED BY <1>1, <1>5 DEF g

\* What the pending sales have taken of p at l
Held(s, p, l) == IF status[s] = "pending" THEN OverLines(Recorded(s))[p][l] ELSE 0

\* While no sale has completed, each location lacks what the pending sales
\* took from it and nothing else: a void can put every unit back in its place.
PendingTrace ==
    (\A s \in Sale : status[s] # "completed") =>
        \A p \in Tracked \ Ingredient, l \in Location :
            Opening[p][l] - stock[p][l] = Sum([s \in Sale |-> Held(s, p, l)])

StockInv == StockTypes /\ LinesRecorded /\ NoOverselling /\ BooksMatchShelf /\ PendingTrace

\* The till opens with books and shelf in order.
LEMMA InitStock == Init => StockInv
<1> SUFFICES ASSUME Init PROVE StockInv
  OBVIOUS
<1>1. StockTypes
  <2>1. << >> \in Seq(Seq(Entry))
    OBVIOUS
  <2>2. stock \in [Product -> [Location -> Int]]
    BY StockAssumption DEF Init
  <2> QED BY <2>1, <2>2 DEF Init, StockTypes
<1>2. LinesRecorded
  BY DEF Init, LinesRecorded, Live
<1>3. NoOverselling
  BY StockAssumption DEF Init, NoOverselling
<1>4. IsFiniteSet(Sale) /\ IsFiniteSet(Location) /\ Tracked \subseteq Product
      /\ \A p \in Product, l \in Location : Opening[p][l] - stock[p][l] = 0
  BY AmountsAssumption, StockAssumption DEF Init
<1>5. BooksMatchShelf
  <2> SUFFICES ASSUME NEW p \in Tracked
               PROVE  Booked(p)
    BY BooksAreRows
  <2> DEFINE f == [s \in Sale |-> Row(s, p)]
             u == [s \in Sale |-> Used(s, p)]
             o == [l \in Location |-> Opening[p][l] - stock[p][l]]
  <2>1. f \in [Sale -> Int] /\ \A s \in Sale : f[s] = 0
    BY DEF Row, Live, Init
  <2>2. u \in [Sale -> Int] /\ \A s \in Sale : u[s] = 0
    BY DEF Used, Init
  <2>3. o \in [Location -> Int] /\ \A l \in Location : o[l] = 0
    BY <1>4
  <2> HIDE DEF f, u, o
  <2>4. Sum(f) = 0 /\ Sum(u) = 0 /\ Sum(o) = 0
    BY <1>4, <2>1, <2>2, <2>3, SumOfZeros
  <2>5. Sold(p) = Sum(f) /\ UsedUp(p) = Sum(u) /\ Gone(p) = Sum(o)
    BY DEF Sold, UsedUp, Gone, f, u, o
  <2> QED BY <2>4, <2>5 DEF Booked
<1>6. PendingTrace
  <2> SUFFICES ASSUME NEW p \in Tracked \ Ingredient, NEW l \in Location
               PROVE  0 = Sum([s \in Sale |-> Held(s, p, l)])
    BY <1>4 DEF PendingTrace
  <2> DEFINE f == [s \in Sale |-> Held(s, p, l)]
  <2>1. f \in [Sale -> Int] /\ \A s \in Sale : f[s] = 0
    BY DEF Held, Init
  <2> HIDE DEF f
  <2>2. Sum(f) = 0
    BY <1>4, <2>1, SumOfZeros
  <2> QED BY <2>2 DEF f
<1> QED BY <1>1, <1>2, <1>3, <1>5, <1>6 DEF StockInv

\* Two rows of units that agree line by line come to the same.
LEMMA SameLines ==
    ASSUME NEW I, NEW v, NEW w, DOMAIN v = I, DOMAIN w = I, NEW p \in Product, NEW l \in Location,
           \A i \in I : v[i][p][l] = w[i][p][l]
    PROVE  OverLines(v)[p][l] = OverLines(w)[p][l]
<1>1. [i \in I |-> v[i][p][l]] = [i \in I |-> w[i][p][l]]
  OBVIOUS
<1>2. /\ OverLines(v)[p][l] = Sum([i \in I |-> v[i][p][l]])
      /\ OverLines(w)[p][l] = Sum([i \in I |-> w[i][p][l]])
  BY DEF OverLines
<1> QED BY <1>1, <1>2

\* What a pending sale holds is a number.
LEMMA HeldType ==
    ASSUME StockTypes, LinesRecorded, NEW s \in Sale, NEW p \in Product, NEW l \in Location
    PROVE  Held(s, p, l) \in Nat
<1>1. CASE status[s] = "pending"
  <2>1. DOMAIN deductions[s] = Line(s) /\ IsFiniteSet(Line(s))
    BY <1>1, CartLines DEF LinesRecorded, Live
  <2>2. Recorded(s) \in [Line(s) -> [Product -> [Location -> Nat]]]
    BY <2>1, RecordedLines
  <2>3. OverLines(Recorded(s))[p] \in [Location -> Nat]
    BY <2>1, <2>2, LinesCount
  <2> QED BY <1>1, <2>3 DEF Held
<1>2. CASE status[s] # "pending"
  BY <1>2 DEF Held
<1> QED BY <1>1, <1>2

\* An untouched sale keeps its place in the books.
LEMMA OthersStay ==
    ASSUME NEW r \in Sale, status'[r] = status[r], deductions'[r] = deductions[r],
           unitsBack'[r] = unitsBack[r], NEW p, NEW l
    PROVE  /\ Row(r, p)' = Row(r, p) /\ Used(r, p)' = Used(r, p)
           /\ Held(r, p, l)' = Held(r, p, l)
<1>1. Recorded(r)' = Recorded(r)
  BY DEF Recorded
<1>2. OverLines(Recorded(r))' = OverLines(Recorded(r))
  BY <1>1 DEF OverLines
<1>3. Kept(r, p)' = Kept(r, p)
  BY DEF Kept
<1> QED BY <1>1, <1>2, <1>3 DEF Row, Used, Called, Held, Live

\* A sale's lines in the books: what it bought, while nothing is refunded, and
\* only of a completed sale anything is.
LEMMA NetOfFresh ==
    ASSUME SettledTypes, RefundsWithinSale, NEW s \in Sale, status[s] # "completed", NEW p
    PROVE  Kept(s, p) = Bought(s, p)
<1>1. \A i \in Line(s) : unitsBack[s][i] = 0
  <2>1. unitsBack[s] \in [Line(s) -> Nat]
    BY DEF SettledTypes
  <2>2. \A i \in Line(s) : ~(unitsBack[s][i] > 0)
    BY DEF RefundsWithinSale
  <2> QED BY <2>1, <2>2
<1>2. \A i \in Line(s) : Cart[s][i].qty \in Nat
  BY CartLines
<1>3. Net(s, p) = [i \in Line(s) |-> IF Cart[s][i].sku = p THEN Cart[s][i].qty ELSE 0]
  BY <1>1, <1>2 DEF Net
<1> QED BY <1>3, KeptIsNet DEF Bought

\* Units that leave a location and enter what one sale holds keep the trace.
LEMMA TraceStep ==
    ASSUME StockTypes, LinesRecorded, NEW p \in Product, NEW l \in Location,
           NEW s \in Sale, NEW d \in Int,
           Opening[p][l] - stock[p][l] = Sum([r \in Sale |-> Held(r, p, l)]),
           stock'[p][l] = stock[p][l] - d,
           \A r \in Sale \ {s} : Held(r, p, l)' = Held(r, p, l),
           Held(s, p, l)' = Held(s, p, l) + d
    PROVE  (Opening[p][l] - stock[p][l] = Sum([r \in Sale |-> Held(r, p, l)]))'
<1> DEFINE f == [r \in Sale |-> Held(r, p, l)]
           g == [r \in Sale |-> Held(r, p, l)']
<1>1. \A r \in Sale : Held(r, p, l) \in Int
  BY HeldType
<1>2. f \in [Sale -> Int] /\ g \in [Sale -> Int] /\ g[s] = f[s] + d
      /\ \A r \in Sale \ {s} : g[r] = f[r]
  BY <1>1
<1>3. Opening[p][l] - stock[p][l] = Sum(f)
  OBVIOUS
<1>4. IsFiniteSet(Sale) /\ Opening[p][l] \in Int /\ stock[p][l] \in Int
  BY AmountsAssumption, StockAssumption DEF StockTypes
<1> HIDE DEF f, g
<1>5. Sum(g) = Sum(f) + (g[s] - f[s])
  BY <1>2, <1>4, RowChanges
<1>6. Sum(f) \in Int /\ f[s] \in Int
  BY <1>2, <1>4, SumType
<1>7. Opening[p][l] - stock'[p][l] = Sum(g)
  BY <1>2, <1>3, <1>4, <1>5, <1>6
<1> QED BY <1>7 DEF g

\* The units of p that line i sells
InLine(s, i, p) == IF Cart[s][i].sku = p THEN Cart[s][i].qty ELSE 0

\* A checkout takes what each line sells and at most what its recipe calls for.
LEMMA LineTakes ==
    ASSUME NEW s \in Sale, NEW units, NEW to, Takes(s, units, to),
           NEW i \in Line(s), NEW p \in Tracked
    PROVE  /\ Sum(units[i][p]) \in Int
           /\ InLine(s, i, p) <= Sum(units[i][p])
           /\ Sum(units[i][p]) <= InLine(s, i, p) + Uses(s, i, p)
<1> DEFINE row == units[i][p]
<1>1. p \in Product /\ row \in [Location -> Nat] /\ IsFiniteSet(Location)
  BY StockAssumption DEF Takes
<1>2. PICK d \in Seq(Seq(Entry)) :
          /\ DOMAIN d = Line(s)
          /\ \A j \in Line(s) : Units(d[j]) = Cart[s][j].qty
          /\ \A j \in Line(s), q \in Tracked :
                IF q = Cart[s][j].sku
                THEN \A l \in Location : units[j][q][l] = UnitsAt(d[j], l)
                ELSE Sum(units[j][q]) <= Uses(s, j, q)
  BY Zenon DEF Takes
<1>3. Uses(s, i, p) \in Nat /\ Cart[s][i].qty \in Nat
  BY <1>1, NeedOfLine, CartLines
<1>4. CASE p = Cart[s][i].sku
  <2>1. row = [l \in Location |-> UnitsAt(d[i], l)]
    BY <1>1, <1>2, <1>4
  <2>2. d[i] \in Seq(Entry)
    BY <1>2
  <2>3. Sum(row) = Units(d[i])
    BY <2>1, <2>2, EntriesAddUp
  <2> QED BY <1>2, <1>3, <1>4, <2>3 DEF InLine
<1>5. CASE p # Cart[s][i].sku
  <2>1. Sum(row) <= Uses(s, i, p)
    BY <1>2, <1>5
  <2> HIDE DEF row
  <2>2. Sum(row) \in Nat
    BY <1>1, SumOfNumbers
  <2> QED BY <1>3, <1>5, <2>1, <2>2 DEF row, InLine
<1> QED BY <1>4, <1>5

\* In all, what the sale sells and at most what its recipes call for.
LEMMA TakesCount ==
    ASSUME NEW s \in Sale, NEW units, NEW to, Takes(s, units, to), NEW p \in Tracked
    PROVE  /\ Bought(s, p) \in Int /\ Called(s, p) \in Nat
           /\ Sum(OverLines(units)[p]) \in Int
           /\ Bought(s, p) <= Sum(OverLines(units)[p])
           /\ Sum(OverLines(units)[p]) <= Bought(s, p) + Called(s, p)
<1> DEFINE I == Line(s)
           lines == [i \in I |-> InLine(s, i, p)]
           uses == [i \in I |-> Uses(s, i, p)]
           both == [i \in I |-> lines[i] + uses[i]]
           found == [i \in I |-> Sum(units[i][p])]
<1>1. p \in Product /\ IsFiniteSet(I) /\ units \in [I -> [Product -> [Location -> Nat]]]
  BY StockAssumption, CartLines DEF Takes
<1>2. Sum(OverLines(units)[p]) = Sum(found)
  <2> HIDE DEF I
  <2> QED BY <1>1, LinesCount
<1>3. Bought(s, p) = Sum(lines) /\ Called(s, p) = Sum(uses) /\ Called(s, p) \in Nat
  BY <1>1, CalledType DEF Bought, InLine
<1>4. /\ lines \in [I -> Int] /\ uses \in [I -> Int] /\ both \in [I -> Int]
      /\ \A i \in I : both[i] = lines[i] + uses[i]
  <2>1. \A i \in I : Cart[s][i].qty \in Int /\ Uses(s, i, p) \in Int
    BY <1>1, CartLines, NeedOfLine
  <2> QED BY <2>1 DEF InLine
<1>5. found \in [I -> Int] /\ \A i \in I : lines[i] <= found[i] /\ found[i] <= both[i]
  BY LineTakes
<1> HIDE DEF I, lines, uses, both, found
<1>6. Sum(lines) <= Sum(found)
  BY <1>1, <1>4, <1>5, SumsCompare
<1>7. Sum(found) <= Sum(both)
  BY <1>1, <1>4, <1>5, SumsCompare
<1>8. Sum(both) = Sum(lines) + Sum(uses)
  <2>1. \A f, h, k \in [I -> Int] :
           (\A i \in I : k[i] = f[i] + h[i]) => Sum(k) = Sum(f) + Sum(h)
    BY <1>1, SumOfSums
  <2> QED BY <1>4, <2>1, Zenon
<1>9. Sum(lines) \in Int /\ Sum(found) \in Int
  BY <1>1, <1>4, <1>5, SumType
<1>10. Sum(found) <= Sum(lines) + Sum(uses)
  BY <1>7, <1>8, Zenon
<1> QED BY <1>2, <1>3, <1>6, <1>9, <1>10

\* A checkout, plain or resolved, keeps them.
LEMMA TakesKeeps ==
    ASSUME StockInv, SaleInv, NEW s \in Sale, NEW units, NEW to, Takes(s, units, to)
    PROVE  StockInv'
<1> DEFINE all == OverLines(units)
<1>1. /\ StockTypes /\ LinesRecorded /\ NoOverselling /\ BooksMatchShelf /\ PendingTrace
      /\ SettledTypes /\ RefundsWithinSale
      /\ status \in [Sale -> Status]
  BY DEF StockInv, SaleInv, SettledTypes
<1>2. /\ IsFiniteSet(Line(s)) /\ IsFiniteSet(Location) /\ Tracked \subseteq Product
      /\ \A i \in Line(s) : Cart[s][i].sku \in Product /\ Cart[s][i].qty \in Nat
      /\ units \in [Line(s) -> [Product -> [Location -> Nat]]]
  BY CartLines, StockAssumption DEF Takes
<1>3. \A p \in Product : /\ all[p] \in [Location -> Nat]
                         /\ Sum(all[p]) = Sum([i \in Line(s) |-> Sum(units[i][p])])
  BY <1>2, LinesCount
<1>4. /\ InStock(all)
      /\ stock' = [p \in Product |-> [l \in Location |-> stock[p][l] - all[p][l]]]
  BY DEF Takes, TakeStock
<1>5. PICK d \in Seq(Seq(Entry)) :
          /\ deductions' = [deductions EXCEPT ![s] = d]
          /\ DOMAIN d = Line(s)
          /\ \A i \in Line(s) : Units(d[i]) = Cart[s][i].qty
          /\ \A i \in Line(s), p \in Tracked :
                IF p = Cart[s][i].sku
                THEN \A l \in Location : units[i][p][l] = UnitsAt(d[i], l)
                ELSE Sum(units[i][p]) <= Uses(s, i, p)
  BY Zenon DEF Takes
<1>6. /\ status[s] = "absent" /\ to \in {"pending", "completed"}
      /\ status' = [status EXCEPT ![s] = to] /\ unitsBack' = unitsBack
      /\ status'[s] = to
  BY <1>1 DEF Takes
<1> HIDE DEF all
<1>7. stock \in [Product -> [Location -> Int]] /\ deductions \in [Sale -> Seq(Seq(Entry))]
  BY <1>1 DEF StockTypes
<1>8. StockTypes'
  <2>1. stock' \in [Product -> [Location -> Int]]
    <3>1. \A p \in Product, l \in Location : stock[p][l] - all[p][l] \in Int
      <4> TAKE p \in Product, l \in Location
      <4>1. all[p][l] \in Nat /\ stock[p][l] \in Int
        BY <1>3, <1>7
      <4> QED BY <4>1
    <3> QED BY <1>4, <3>1
  <2>2. deductions' \in [Sale -> Seq(Seq(Entry))]
    BY <1>5, <1>7
  <2> QED BY <2>1, <2>2 DEF StockTypes
<1>9. deductions'[s] = d /\ \A r \in Sale \ {s} : /\ deductions'[r] = deductions[r]
                                                 /\ status'[r] = status[r]
                                                 /\ unitsBack'[r] = unitsBack[r]
  BY <1>1, <1>5, <1>6, <1>7
<1>10. LinesRecorded'
  <2> SUFFICES ASSUME NEW r \in Sale, Live(r)'
               PROVE  /\ DOMAIN deductions'[r] = Line(r)
                      /\ \A i \in Line(r) : Units(deductions'[r][i]) = Cart[r][i].qty
    BY DEF LinesRecorded
  <2>1. CASE r = s
    BY <1>5, <1>9, <2>1
  <2>2. CASE r # s
    BY <1>1, <1>9, <2>2 DEF LinesRecorded, Live
  <2> QED BY <2>1, <2>2
<1>11. NoOverselling'
  <2> SUFFICES ASSUME NEW p \in Product, NEW l \in Location \ Negative
               PROVE  stock'[p][l] >= 0
    BY DEF NoOverselling
  <2>1. /\ all[p][l] \in Nat /\ stock[p][l] \in Int /\ stock[p][l] >= 0
        /\ stock'[p][l] = stock[p][l] - all[p][l]
    BY <1>1, <1>3, <1>4, <1>7 DEF NoOverselling
  <2>2. all[p][l] = 0 \/ all[p][l] <= stock[p][l]
    BY <1>4 DEF InStock
  <2> QED BY <2>1, <2>2
<1>12. ASSUME NEW i \in Line(s), NEW p \in Tracked
       PROVE  /\ Sum(units[i][p]) \in Int
              /\ InLine(s, i, p) <= Sum(units[i][p])
              /\ Sum(units[i][p]) <= InLine(s, i, p) + Uses(s, i, p)
  BY LineTakes
<1>13. BooksMatchShelf'
  <2>1. ASSUME NEW p \in Tracked
        PROVE  Booked(p)'
    <3> DEFINE m == all[p]
               row == Bought(s, p)
               used == Called(s, p)
    <3>1. p \in Product /\ m \in [Location -> Int]
      <4>1. p \in Product
        BY <1>2
      <4>2. m \in [Location -> Nat]
        BY <1>3, <4>1
      <4> HIDE DEF m
      <4> QED BY <4>1, <4>2
    <3>2. Booked(p)
      BY <1>1, BooksAreRows
    <3>3. \A l \in Location : stock'[p][l] = stock[p][l] - m[l]
      BY <1>4, <3>1
    <3>4. \A r \in Sale \ {s} : Row(r, p)' = Row(r, p) /\ Used(r, p)' = Used(r, p)
      BY <1>9, OthersStay
    <3>5. row \in Int /\ used \in Nat /\ row <= Sum(m) /\ Sum(m) <= row + used
      BY TakesCount DEF all
    <3>6. Row(s, p) = 0 /\ Used(s, p) = 0
      BY <1>6 DEF Row, Live, Used
    <3>7. Used(s, p)' = used
      BY <1>6 DEF Used, Called
    <3>8. Row(s, p)' = row
      <4>1. Kept(s, p) = row
        BY <1>1, <1>6, NetOfFresh
      <4>2. Kept(s, p)' = Kept(s, p)
        BY <1>6 DEF Kept
      <4> QED BY <1>6, <4>1, <4>2 DEF Row, Live
    <3> HIDE DEF m, row, used
    <3>9. Row(s, p)' = Row(s, p) + row /\ Used(s, p)' = Used(s, p) + used
      BY <3>5, <3>6, <3>7, <3>8
    <3> QED BY <1>1, <3>1, <3>2, <3>3, <3>4, <3>5, <3>9, BooksStep
  <2>2. (\A p \in Tracked : Booked(p))'
    BY <2>1
  <2> QED BY <2>2, BooksArePrimed
<1>14. PendingTrace'
  <2> SUFFICES ASSUME \A r \in Sale : status'[r] # "completed",
                      NEW p \in Tracked \ Ingredient, NEW l \in Location
               PROVE  (Opening[p][l] - stock[p][l] = Sum([r \in Sale |-> Held(r, p, l)]))'
    BY DEF PendingTrace
  <2> DEFINE b == all[p][l]
  <2>1. to = "pending" /\ \A r \in Sale : status[r] # "completed"
    BY <1>6, <1>9
  <2>2. p \in Product /\ b \in Int /\ stock'[p][l] = stock[p][l] - b
    <3>1. p \in Product
      BY <1>2
    <3>2. b \in Nat
      BY <1>3, <3>1
    <3> QED BY <1>4, <3>1, <3>2
  <2>3. Opening[p][l] - stock[p][l] = Sum([r \in Sale |-> Held(r, p, l)])
    BY <1>1, <2>1 DEF PendingTrace
  <2>4. \A r \in Sale \ {s} : Held(r, p, l)' = Held(r, p, l)
    BY <1>9, OthersStay
  <2>5. Held(s, p, l) = 0
    BY <1>6 DEF Held
  <2>6. Held(s, p, l)' = b
    <3> DEFINE rec == [i \in Line(s) |-> [x \in Product |-> [k \in Location |->
                         IF x = Cart[s][i].sku THEN UnitsAt(d[i], k) ELSE 0]]]
    <3>1. Recorded(s)' = rec
      BY <1>9 DEF Recorded
    <3>2. Held(s, p, l)' = OverLines(rec)[p][l]
      <4>1. Held(s, p, l)' = OverLines(Recorded(s))'[p][l]
        BY <1>6, <2>1 DEF Held
      <4>2. OverLines(Recorded(s))' = OverLines(rec)
        BY <3>1 DEF OverLines
      <4> QED BY <4>1, <4>2
    <3>3. \A i \in Line(s) : units[i][p][l] = rec[i][p][l]
      <4> TAKE i \in Line(s)
      <4>1. CASE p = Cart[s][i].sku
        BY <1>5, <2>2, <4>1
      <4>2. CASE p # Cart[s][i].sku
        <5>1. Uses(s, i, p) = 0
          BY <2>2, NeedOfLine
        <5>2. Sum(units[i][p]) = 0
          BY <1>12, <4>2, <5>1 DEF InLine
        <5>3. units[i][p] \in [Location -> Nat]
          BY <1>2, <2>2
        <5>4. units[i][p][l] = 0
          BY <1>2, <5>2, <5>3, NothingInAll
        <5> QED BY <2>2, <4>2, <5>4
      <4> QED BY <4>1, <4>2
    <3>4. DOMAIN rec = Line(s) /\ DOMAIN units = Line(s)
      BY <1>2
    <3> HIDE DEF rec
    <3>5. OverLines(units)[p][l] = OverLines(rec)[p][l]
      BY <2>2, <3>3, <3>4, SameLines
    <3> QED BY <3>2, <3>5 DEF all
  <2> HIDE DEF b
  <2>7. Held(s, p, l)' = Held(s, p, l) + b
    BY <2>2, <2>5, <2>6
  <2> QED BY <1>1, <2>2, <2>3, <2>4, <2>7, TraceStep
<1> QED BY <1>8, <1>10, <1>11, <1>13, <1>14 DEF StockInv

\* A void credits what the sale bought.
LEMMA VoidCredits ==
    ASSUME StockTypes, LinesRecorded, NEW s \in Sale, Voids(s), NEW p \in Product
    PROVE  /\ OverLines(Recorded(s))[p] \in [Location -> Nat]
           /\ Sum(OverLines(Recorded(s))[p]) = Bought(s, p)
<1>1. /\ IsFiniteSet(Line(s)) /\ DOMAIN deductions[s] = Line(s)
      /\ \A i \in Line(s) : Units(deductions[s][i]) = Cart[s][i].qty
  BY CartLines DEF LinesRecorded, Live, Voids
<1>2. /\ Recorded(s) \in [Line(s) -> [Product -> [Location -> Nat]]]
      /\ \A i \in Line(s) :
            Sum(Recorded(s)[i][p]) = IF p = Cart[s][i].sku THEN Units(deductions[s][i]) ELSE 0
  BY <1>1, RecordedLines
<1>3. /\ OverLines(Recorded(s))[p] \in [Location -> Nat]
      /\ Sum(OverLines(Recorded(s))[p]) = Sum([i \in Line(s) |-> Sum(Recorded(s)[i][p])])
  BY <1>1, <1>2, LinesCount
<1>4. [i \in Line(s) |-> Sum(Recorded(s)[i][p])]
        = [i \in Line(s) |-> IF Cart[s][i].sku = p THEN Cart[s][i].qty ELSE 0]
  BY <1>1, <1>2
<1> QED BY <1>3, <1>4 DEF Bought

\* A void, of the cashier's or the reaper's, keeps them.
LEMMA VoidsKeeps ==
    ASSUME StockInv, SaleInv, NEW s \in Sale, Voids(s)
    PROVE  StockInv'
<1> DEFINE all == OverLines(Recorded(s))
<1>1. /\ StockTypes /\ LinesRecorded /\ NoOverselling /\ BooksMatchShelf /\ PendingTrace
      /\ SettledTypes /\ RefundsWithinSale
      /\ status \in [Sale -> Status]
  BY DEF StockInv, SaleInv, SettledTypes
<1>2. /\ status[s] = "pending" /\ status' = [status EXCEPT ![s] = "voided"]
      /\ deductions' = deductions /\ unitsBack' = unitsBack
      /\ stock' = [p \in Product |-> [l \in Location |-> stock[p][l] + all[p][l]]]
  BY DEF Voids, CreditStock
<1>3. /\ IsFiniteSet(Line(s)) /\ IsFiniteSet(Location) /\ Tracked \subseteq Product
      /\ DOMAIN deductions[s] = Line(s)
      /\ \A i \in Line(s) : Units(deductions[s][i]) = Cart[s][i].qty
  BY <1>1, <1>2, CartLines, StockAssumption DEF LinesRecorded, Live
<1>5. \A p \in Product : /\ all[p] \in [Location -> Nat]
                         /\ Sum(all[p]) = Bought(s, p)
  BY <1>1, VoidCredits
<1> HIDE DEF all
<1>6. stock \in [Product -> [Location -> Int]]
      /\ \A p \in Product, l \in Location : /\ stock[p][l] \in Int /\ all[p][l] \in Nat
                                            /\ stock'[p][l] = stock[p][l] + all[p][l]
  <2>1. \A p \in Product, l \in Location : all[p][l] \in Nat
    BY <1>5
  <2>2. stock \in [Product -> [Location -> Int]]
    BY <1>1 DEF StockTypes
  <2> QED BY <1>2, <2>1, <2>2
<1>7. StockTypes'
  <2>1. \A p \in Product, l \in Location : stock[p][l] + all[p][l] \in Int
    BY <1>6
  <2>2. stock' \in [Product -> [Location -> Int]]
    BY <1>2, <2>1
  <2> QED BY <1>1, <1>2, <2>2 DEF StockTypes
<1>8. status'[s] = "voided" /\ \A r \in Sale \ {s} : status'[r] = status[r]
  BY <1>1, <1>2
<1>9. LinesRecorded'
  <2>1. \A r \in Sale : Live(r)' => Live(r)
    BY <1>8 DEF Live
  <2> QED BY <1>1, <1>2, <2>1 DEF LinesRecorded
<1>10. NoOverselling'
  BY <1>1, <1>6 DEF NoOverselling
<1>11. BooksMatchShelf'
  <2>1. ASSUME NEW p \in Tracked
        PROVE  Booked(p)'
    <3> DEFINE a == all[p]
               m == [l \in Location |-> -a[l]]
    <3>1. p \in Product
      BY <1>3
    <3>2. a \in [Location -> Int]
      <4>1. a \in [Location -> Nat]
        BY <1>5, <3>1
      <4> HIDE DEF a
      <4> QED BY <4>1
    <3>3. m \in [Location -> Int] /\ Sum(m) = -Sum(a) /\ Sum(a) \in Int
      <4> HIDE DEF a
      <4> QED BY <1>3, <3>2, SumNegated, SumType
    <3>4. Booked(p)
      BY <1>1, BooksAreRows
    <3>5. \A l \in Location : stock'[p][l] = stock[p][l] - m[l]
      <4> TAKE l \in Location
      <4>1. stock'[p][l] = stock[p][l] + a[l] /\ stock[p][l] \in Int /\ a[l] \in Int /\ m[l] = -a[l]
        BY <1>6, <3>1
      <4> HIDE DEF a, m
      <4> QED BY <4>1
    <3>6. \A r \in Sale \ {s} : Row(r, p)' = Row(r, p) /\ Used(r, p)' = Used(r, p)
      BY <1>2, <1>8, OthersStay
    <3>7. Sum(a) = Bought(s, p)
      BY <1>5, <3>1
    <3>8. Row(s, p) = Bought(s, p)
      BY <1>1, <1>2, NetOfFresh DEF Row, Live
    <3>9. Row(s, p)' = 0
      BY <1>8 DEF Row, Live
    <3>10. Used(s, p)' = Used(s, p) + 0
      <4>1. Used(s, p)' = Used(s, p)
        BY <1>2, <1>8 DEF Used, Called
      <4>2. Used(s, p) \in Nat
        BY <3>1, CalledType
      <4> QED BY <4>1, <4>2
    <3> DEFINE row == Sum(m)
    <3> HIDE DEF a, m
    <3>11. /\ row \in Int /\ row <= Sum(m) /\ Sum(m) <= row + 0
           /\ Row(s, p)' = Row(s, p) + row
      BY <3>3, <3>7, <3>8, <3>9
    <3> HIDE DEF row
    <3> QED BY <1>1, <3>1, <3>3, <3>4, <3>5, <3>6, <3>10, <3>11, BooksStep
  <2>2. (\A p \in Tracked : Booked(p))'
    BY <2>1
  <2> QED BY <2>2, BooksArePrimed
<1>12. PendingTrace'
  <2> SUFFICES ASSUME \A r \in Sale : status'[r] # "completed",
                      NEW p \in Tracked \ Ingredient, NEW l \in Location
               PROVE  (Opening[p][l] - stock[p][l] = Sum([r \in Sale |-> Held(r, p, l)]))'
    BY DEF PendingTrace
  <2> DEFINE b == -all[p][l]
  <2>1. \A r \in Sale : status[r] # "completed"
    BY <1>2, <1>8
  <2>2. p \in Product /\ b \in Int /\ stock'[p][l] = stock[p][l] - b
    <3>1. p \in Product
      BY <1>3
    <3>2. /\ all[p][l] \in Nat /\ stock[p][l] \in Int
          /\ stock'[p][l] = stock[p][l] + all[p][l]
      BY <1>6, <3>1
    <3> QED BY <3>1, <3>2
  <2>3. Opening[p][l] - stock[p][l] = Sum([r \in Sale |-> Held(r, p, l)])
    BY <1>1, <2>1 DEF PendingTrace
  <2>4. \A r \in Sale \ {s} : Held(r, p, l)' = Held(r, p, l)
    BY <1>2, <1>8, OthersStay
  <2>5. Held(s, p, l) = all[p][l] /\ Held(s, p, l)' = 0
    BY <1>2, <1>8 DEF Held, all
  <2>6. Held(s, p, l)' = Held(s, p, l) + b
    <3>1. all[p][l] \in Nat
      BY <1>6, <2>2
    <3> QED BY <2>5, <3>1
  <2> HIDE DEF b
  <2> QED BY <1>1, <2>2, <2>3, <2>4, <2>6, TraceStep
<1> QED BY <1>7, <1>9, <1>10, <1>11, <1>12 DEF StockInv

\* The units of p that a refund brings back
InRefund(s, qty, p) == Sum([i \in Line(s) |-> IF Cart[s][i].sku = p THEN qty[i] ELSE 0])

\* A refund credits them, however it spreads them over the entries.
LEMMA RefundCredits ==
    ASSUME StockTypes, SettledTypes, LinesRecorded,
           NEW s \in Sale, NEW qty \in [Line(s) -> Nat], GivesBack(s, qty), NEW p \in Product
    PROVE  /\ OverLines(RefundedBy(s, qty))[p] \in [Location -> Nat]
           /\ Sum(OverLines(RefundedBy(s, qty))[p]) = InRefund(s, qty, p)
<1>1. /\ IsFiniteSet(Line(s)) /\ DOMAIN deductions[s] = Line(s)
      /\ \A i \in Line(s) : Cart[s][i].qty \in Nat /\ Units(deductions[s][i]) = Cart[s][i].qty
  BY CartLines DEF LinesRecorded, Live, GivesBack
<1>2. \A i \in Line(s) : qty[i] > 0 => qty[i] <= Units(deductions[s][i])
  <2>1. \A i \in Line(s) : Units(deductions[s][i]) \in Nat /\ unitsBack[s][i] \in Nat
    BY <1>1 DEF SettledTypes
  <2>2. \A i \in Line(s) : qty[i] > 0 => unitsBack[s][i] + qty[i] <= Units(deductions[s][i])
    BY DEF GivesBack
  <2> QED BY <2>1, <2>2
<1>3. /\ RefundedBy(s, qty) \in [Line(s) -> [Product -> [Location -> Nat]]]
      /\ \A i \in Line(s) :
            Sum(RefundedBy(s, qty)[i][p]) = IF p = Cart[s][i].sku THEN qty[i] ELSE 0
  BY <1>1, <1>2, RefundedLines
<1>4. /\ OverLines(RefundedBy(s, qty))[p] \in [Location -> Nat]
      /\ Sum(OverLines(RefundedBy(s, qty))[p]) = Sum([i \in Line(s) |-> Sum(RefundedBy(s, qty)[i][p])])
  BY <1>1, <1>3, LinesCount
<1>5. [i \in Line(s) |-> Sum(RefundedBy(s, qty)[i][p])]
        = [i \in Line(s) |-> IF Cart[s][i].sku = p THEN qty[i] ELSE 0]
  BY <1>3
<1> QED BY <1>4, <1>5 DEF InRefund

\* A refund keeps them.
LEMMA GivesBackKeeps ==
    ASSUME StockInv, SaleInv, NEW s \in Sale, NEW qty \in [Line(s) -> Nat], GivesBack(s, qty)
    PROVE  StockInv'
<1> DEFINE all == OverLines(RefundedBy(s, qty))
<1>1. /\ StockTypes /\ LinesRecorded /\ NoOverselling /\ BooksMatchShelf
      /\ SettledTypes
  BY DEF StockInv, SaleInv
<1>2. /\ status[s] = "completed" /\ status' = status /\ deductions' = deductions
      /\ unitsBack' = [unitsBack EXCEPT ![s] = [i \in Line(s) |-> @[i] + qty[i]]]
      /\ stock' = [p \in Product |-> [l \in Location |-> stock[p][l] + all[p][l]]]
  BY DEF GivesBack, CreditStock
<1>3. /\ IsFiniteSet(Line(s)) /\ IsFiniteSet(Location) /\ Tracked \subseteq Product
      /\ DOMAIN deductions[s] = Line(s)
      /\ \A i \in Line(s) : Cart[s][i].qty \in Nat
  BY <1>1, <1>2, CartLines, StockAssumption DEF LinesRecorded, Live
<1>5. \A p \in Product : /\ all[p] \in [Location -> Nat]
                         /\ Sum(all[p]) = InRefund(s, qty, p)
  BY <1>1, RefundCredits
<1> HIDE DEF all
<1>6. \A p \in Product, l \in Location : /\ stock[p][l] \in Int /\ all[p][l] \in Nat
                                         /\ stock'[p][l] = stock[p][l] + all[p][l]
  <2>1. \A p \in Product, l \in Location : all[p][l] \in Nat
    BY <1>5
  <2>2. stock \in [Product -> [Location -> Int]]
    BY <1>1 DEF StockTypes
  <2> QED BY <1>2, <2>1, <2>2
<1>7. StockTypes'
  <2>1. \A p \in Product, l \in Location : stock[p][l] + all[p][l] \in Int
    BY <1>6
  <2>2. stock' \in [Product -> [Location -> Int]]
    BY <1>2, <2>1
  <2> QED BY <1>1, <1>2, <2>2 DEF StockTypes
<1>8. LinesRecorded'
  BY <1>1, <1>2 DEF LinesRecorded, Live
<1>9. NoOverselling'
  BY <1>1, <1>6 DEF NoOverselling
<1>10. /\ unitsBack[s] \in [Line(s) -> Nat]
       /\ unitsBack'[s] = [i \in Line(s) |-> unitsBack[s][i] + qty[i]]
       /\ \A r \in Sale \ {s} : unitsBack'[r] = unitsBack[r]
  BY <1>1, <1>2 DEF SettledTypes
<1>11. BooksMatchShelf'
  <2>1. ASSUME NEW p \in Tracked
        PROVE  Booked(p)'
    <3> DEFINE a == all[p]
               m == [l \in Location |-> -a[l]]
               back == [i \in Line(s) |-> IF Cart[s][i].sku = p THEN qty[i] ELSE 0]
               before == Net(s, p)
               after == [i \in Line(s) |-> IF Cart[s][i].sku = p
                                           THEN Cart[s][i].qty - (unitsBack[s][i] + qty[i]) ELSE 0]
    <3>1. p \in Product
      BY <1>3
    <3>2. a \in [Location -> Int]
      <4>1. a \in [Location -> Nat]
        BY <1>5, <3>1
      <4> HIDE DEF a
      <4> QED BY <4>1
    <3>3. m \in [Location -> Int] /\ Sum(m) = -Sum(a) /\ Sum(a) \in Int
      <4> HIDE DEF a
      <4> QED BY <1>3, <3>2, SumNegated, SumType
    <3>4. Booked(p)
      BY <1>1, BooksAreRows
    <3>5. \A l \in Location : stock'[p][l] = stock[p][l] - m[l]
      <4> TAKE l \in Location
      <4>1. stock'[p][l] = stock[p][l] + a[l] /\ stock[p][l] \in Int /\ a[l] \in Int /\ m[l] = -a[l]
        BY <1>6, <3>1
      <4> HIDE DEF a, m
      <4> QED BY <4>1
    <3>6. \A r \in Sale \ {s} : Row(r, p)' = Row(r, p) /\ Used(r, p)' = Used(r, p)
      BY <1>2, <1>10, OthersStay
    <3>7. Sum(a) = Sum(back)
      BY <1>5, <3>1 DEF InRefund
    <3>8. Row(s, p) = Sum(before)
      BY <1>2, KeptIsNet DEF Row, Live
    <3>9. Row(s, p)' = Sum(after)
      <4>1. Row(s, p)' = Kept(s, p)'
        BY <1>2 DEF Row, Live
      <4>2. Kept(s, p)' = Sum(after)
        <5>1. [x \in DOMAIN [i \in Line(s) |-> Cart[s][i].qty - unitsBack'[s][i]] |->
                  IF x \in {i \in Line(s) : Cart[s][i].sku = p}
                  THEN [i \in Line(s) |-> Cart[s][i].qty - unitsBack'[s][i]][x] ELSE 0] = after
          BY <1>10
        <5> QED BY <5>1 DEF Kept, Part
      <4> QED BY <4>1, <4>2
    <3>10. /\ before \in [Line(s) -> Int] /\ after \in [Line(s) -> Int] /\ back \in [Line(s) -> Int]
           /\ \A i \in Line(s) : before[i] = after[i] + back[i]
      BY <1>3, <1>10 DEF Net
    <3> HIDE DEF a, m, back, before, after
    <3>11. Sum(before) = Sum(after) + Sum(back)
      BY <1>3, <3>10, SumOfSums
    <3>12. Sum(after) \in Int /\ Sum(back) \in Int
      BY <1>3, <3>10, SumType
    <3>13. Used(s, p)' = Used(s, p) + 0
      <4>1. Used(s, p)' = Used(s, p)
        BY <1>2 DEF Used, Called
      <4>2. Used(s, p) \in Nat
        BY <3>1, CalledType
      <4> QED BY <4>1, <4>2
    <3> DEFINE row == Sum(m)
    <3>14. /\ row \in Int /\ row <= Sum(m) /\ Sum(m) <= row + 0
           /\ Row(s, p)' = Row(s, p) + row
      BY <3>3, <3>7, <3>8, <3>9, <3>11, <3>12
    <3> HIDE DEF row
    <3> QED BY <1>1, <3>1, <3>3, <3>4, <3>5, <3>6, <3>13, <3>14, BooksStep
  <2>2. (\A p \in Tracked : Booked(p))'
    BY <2>1
  <2> QED BY <2>2, BooksArePrimed
<1>12. PendingTrace'
  BY <1>2 DEF PendingTrace
<1> QED BY <1>7, <1>8, <1>9, <1>11, <1>12 DEF StockInv

\* A capture moves no stock and leaves the sale in the books.
LEMMA CompletesKeeps ==
    ASSUME StockInv, SaleInv, NEW s \in Sale, Completes(s)
    PROVE  StockInv'
<1>1. /\ status[s] = "pending" /\ status' = [status EXCEPT ![s] = "completed"]
      /\ stock' = stock /\ deductions' = deductions /\ unitsBack' = unitsBack
      /\ status \in [Sale -> Status]
  BY DEF Completes, SaleInv, SettledTypes
<1>2. status'[s] = "completed" /\ \A r \in Sale : Live(r)' = Live(r)
  BY <1>1 DEF Live
<1>3. StockTypes' /\ LinesRecorded' /\ NoOverselling'
  BY <1>1, <1>2 DEF StockInv, StockTypes, LinesRecorded, NoOverselling
<1>4. BooksMatchShelf'
  <2>1. \A r \in Sale : \A p : Row(r, p)' = Row(r, p) /\ Used(r, p)' = Used(r, p)
    BY <1>1, <1>2 DEF Row, Kept, Used, Called
  <2>2. \A p : Sold(p)' = Sold(p) /\ UsedUp(p)' = UsedUp(p) /\ Gone(p)' = Gone(p)
    BY <1>1, <2>1 DEF Sold, UsedUp, Gone
  <2>3. \A p \in Tracked : Booked(p)
    BY BooksAreRows DEF StockInv
  <2>4. (\A p \in Tracked : Booked(p))'
    BY <2>2, <2>3 DEF Booked
  <2> QED BY <2>4, BooksArePrimed
<1>5. PendingTrace'
  BY <1>2 DEF PendingTrace
<1> QED BY <1>3, <1>4, <1>5 DEF StockInv

\* The inductive step, by the four ways a step can move a sale.
LEMMA StockInvStep == StockInv /\ SaleInv /\ [Next]_vars => StockInv'
<1> SUFFICES ASSUME StockInv, SaleInv, [Next]_vars PROVE StockInv'
  OBVIOUS
<1>1. \/ UNCHANGED Stocked
      \/ \E s \in Sale : \E units, to : Takes(s, units, to)
      \/ \E s \in Sale : Completes(s) \/ Voids(s)
      \/ \E s \in Sale : \E qty \in [Line(s) -> Nat] : GivesBack(s, qty)
  BY StepsMove DEF StockInv, SaleInv
<1>2. CASE UNCHANGED Stocked
  <2>1. status' = status /\ deductions' = deductions /\ stock' = stock /\ unitsBack' = unitsBack
    BY <1>2 DEF Stocked
  <2>2. StockTypes' /\ LinesRecorded' /\ NoOverselling'
    BY <2>1 DEF StockInv, StockTypes, LinesRecorded, NoOverselling, Live
  <2>3. \A r \in Sale : \A p, l : /\ Row(r, p)' = Row(r, p) /\ Used(r, p)' = Used(r, p)
                                  /\ Held(r, p, l)' = Held(r, p, l)
    BY <2>1, OthersStay
  <2>4. BooksMatchShelf'
    <3>1. \A p : Sold(p)' = Sold(p) /\ UsedUp(p)' = UsedUp(p) /\ Gone(p)' = Gone(p)
      BY <2>1, <2>3 DEF Sold, UsedUp, Gone
    <3>2. \A p \in Tracked : Booked(p)
      BY BooksAreRows DEF StockInv
    <3>3. (\A p \in Tracked : Booked(p))'
      BY <3>1, <3>2 DEF Booked
    <3> QED BY <3>3, BooksArePrimed
  <2>5. PendingTrace'
    <3>1. \A p, l : [r \in Sale |-> Held(r, p, l)]' = [r \in Sale |-> Held(r, p, l)]
      BY <2>3
    <3> QED BY <2>1, <3>1 DEF StockInv, PendingTrace
  <2> QED BY <2>2, <2>4, <2>5 DEF StockInv
<1> QED BY <1>1, <1>2, TakesKeeps, CompletesKeeps, VoidsKeeps, GivesBackKeeps

\* Hence they hold of every reachable state.
LEMMA StockInvariant == Spec => [](StockInv /\ SaleInv)
<1> QED BY InitStock, InitSale, StockInvStep, SaleInvStep, PTL DEF Spec

-----------------------------------------------------------------------------
(* Place by place: what each location lacks                                *)

\* No entry gives back more than it took, so no location gets more of a line
\* back than the line took there.
LEMMA CreditWithin ==
    ASSUME NEW e \in Seq(Entry), NEW q \in Nat, NEW l \in Location
    PROVE  CreditAt(e, q, l) <= UnitsAt(e, l)
<1> DEFINE D == DOMAIN e
           S == EntriesAt(e, l)
           a == Qty(e)
           t == FromTheBack(e, q)
           f == [k \in D |-> IF k \in S THEN t[k] ELSE 0]
           h == [k \in D |-> IF k \in S THEN a[k] ELSE 0]
<1>1. /\ IsFiniteSet(D) /\ a \in [D -> Nat] /\ a \in [D -> Int] /\ Part(a, S) \in Int
      /\ \A k \in D : a[k] = e[k].qty
  <2>1. IsFiniteSet(D) /\ a \in [D -> Nat] /\ a \in [D -> Int] /\ \A k \in D : a[k] = e[k].qty
    BY EntryQuantities
  <2> HIDE DEF a, D, S
  <2> QED BY <2>1, PartWhole
<1>2. CASE q >= Units(e)
  <2>1. CreditAt(e, q, l) = UnitsAt(e, l) /\ UnitsAt(e, l) = Part(a, S)
    BY <1>2 DEF CreditAt, UnitsAt
  <2> QED BY <1>1, <2>1
<1>3. CASE ~(q >= Units(e))
  <2>1. CreditAt(e, q, l) = Part(t, S) /\ UnitsAt(e, l) = Part(a, S)
    BY <1>3 DEF CreditAt, UnitsAt
  <2>2. ASSUME NEW k \in D PROVE t[k] \in Int /\ t[k] <= a[k]
    <3> DEFINE before == Part(a, {j \in D : j > k})
               here == a[k]
    <3>1. t[k] = Share(q, here, before)
      BY <1>1 DEF FromTheBack
    <3>2. before \in Int /\ here \in Int
      <4>1. \A X : Part(a, X) \in Int
        <5> HIDE DEF a, D
        <5> QED BY <1>1, PartWhole
      <4> QED BY <1>1, <4>1
    <3> HIDE DEF before, here, t
    <3>3. Most(q - before, 0) \in Int
      BY <3>2, LeastMost
    <3>4. Share(q, here, before) \in Int /\ Share(q, here, before) <= here
      BY <3>2, <3>3, LeastMost DEF Share
    <3> QED BY <3>1, <3>4 DEF here
  <2>3. DOMAIN t = D /\ DOMAIN a = D
    BY <1>1 DEF FromTheBack
  <2>4. Part(t, S) = Sum(f) /\ Part(a, S) = Sum(h)
    BY <2>3 DEF Part
  <2>5. f \in [D -> Int] /\ h \in [D -> Int] /\ \A k \in D : f[k] <= h[k]
    BY <1>1, <2>2
  <2> HIDE DEF f, h, D
  <2>6. Sum(f) <= Sum(h)
    BY <1>1, <2>5, SumsCompare
  <2> QED BY <2>1, <2>4, <2>6
<1> QED BY <1>2, <1>3

\* A line that was taken at one place gets everything back there, refund by
\* refund.
LEMMA OnePlaceCredits ==
    ASSUME NEW e \in Seq(Entry), OnePlace(e), NEW l \in Location,
           NEW q \in Nat, NEW r \in Nat, q + r <= Units(e)
    PROVE  CreditAt(e, q + r, l) = CreditAt(e, q, l) + CreditAt(e, r, l)
<1> DEFINE at(x) == [k \in Location |-> CreditAt(e, x, k)]
<1>0. IsFiniteSet(Location) /\ q <= Units(e) /\ r <= Units(e) /\ q + r \in Nat /\ Units(e) \in Nat
  BY StockAssumption, EntryQuantities
<1>1. \A x \in Nat : x <= Units(e) =>
         /\ at(x) \in [Location -> Nat] /\ at(x) \in [Location -> Int] /\ Sum(at(x)) = x
         /\ \A k \in Location : at(x)[k] = CreditAt(e, x, k) /\ at(x)[k] <= UnitsAt(e, k)
  <2> TAKE x \in Nat
  <2> HAVE x <= Units(e)
  <2>1. /\ \A k \in Location : CreditAt(e, x, k) \in Nat
        /\ Sum([k \in Location |-> CreditAt(e, x, k)]) = x
    BY BackAddsUp
  <2>2. \A k \in Location : CreditAt(e, x, k) <= UnitsAt(e, k)
    BY CreditWithin
  <2> QED BY <2>1, <2>2
<1> HIDE DEF at
<1>2. \A k \in Location : UnitsAt(e, k) \in Nat
  BY EntriesAddUp
<1>3. \A j, k \in Location : UnitsAt(e, j) > 0 /\ UnitsAt(e, k) > 0 => j = k
  <2> SUFFICES ASSUME NEW j \in Location, NEW k \in Location,
                      UnitsAt(e, j) > 0, UnitsAt(e, k) > 0
               PROVE  j = k
    OBVIOUS
  <2>1. ASSUME NEW m \in Location, UnitsAt(e, m) > 0
        PROVE  \E n \in DOMAIN e : e[n].location = m /\ e[n].qty > 0
    <3> SUFFICES ASSUME \A n \in DOMAIN e : e[n].location = m => ~(e[n].qty > 0)
                 PROVE  FALSE
      OBVIOUS
    <3> DEFINE D == DOMAIN e
               a == Qty(e)
               g == [n \in D |-> IF n \in EntriesAt(e, m) THEN a[n] ELSE 0]
    <3>1. /\ IsFiniteSet(D) /\ a \in [D -> Nat]
          /\ \A n \in D : a[n] = e[n].qty
      BY EntryQuantities
    <3>2. g \in [D -> Int] /\ \A n \in D : g[n] = 0
      BY <3>1 DEF EntriesAt
    <3>3. UnitsAt(e, m) = Sum(g)
      <4>1. DOMAIN a = D
        BY <3>1
      <4> QED BY <4>1 DEF UnitsAt, Part
    <3> HIDE DEF g, D
    <3>4. Sum(g) = 0
      BY <3>1, <3>2, SumOfZeros
    <3> QED BY <2>1, <3>3, <3>4
  <2> QED BY <2>1 DEF OnePlace
<1>4. CASE UnitsAt(e, l) > 0
  <2>1. ASSUME NEW x \in Nat, x <= Units(e) PROVE CreditAt(e, x, l) = x
    <3> DEFINE row == at(x)
    <3>1. /\ row \in [Location -> Int] /\ Sum(row) = x /\ row[l] = CreditAt(e, x, l)
          /\ row \in [Location -> Nat] /\ \A k \in Location : row[k] <= UnitsAt(e, k)
      BY <1>1, <2>1
    <3>2. \A k \in Location \ {l} : row[k] = 0
      <4> TAKE k \in Location \ {l}
      <4>1. ~(UnitsAt(e, k) > 0) /\ UnitsAt(e, k) \in Nat
        BY <1>2, <1>3, <1>4
      <4>2. row[k] \in Nat /\ row[k] <= UnitsAt(e, k)
        BY <3>1
      <4> HIDE DEF row
      <4> QED BY <4>1, <4>2
    <3> HIDE DEF row
    <3>3. Sum(row) = row[l]
      BY <1>0, <3>1, <3>2, SumOfOne
    <3> QED BY <3>1, <3>3
  <2> QED BY <1>0, <2>1
<1>5. CASE ~(UnitsAt(e, l) > 0)
  <2>1. ASSUME NEW x \in Nat, x <= Units(e) PROVE CreditAt(e, x, l) = 0
    <3>1. at(x)[l] \in Nat /\ at(x)[l] = CreditAt(e, x, l) /\ at(x)[l] <= UnitsAt(e, l)
      BY <1>1, <2>1
    <3>2. UnitsAt(e, l) \in Nat
      BY <1>2
    <3> QED BY <1>5, <3>1, <3>2
  <2> QED BY <1>0, <2>1
<1> QED BY <1>4, <1>5

\* What sale s took of p at l and no refund brought back there
Place(s, p, l) ==
    IF Live(s)
    THEN OverLines(Recorded(s))[p][l] - OverLines(RefundedBy(s, unitsBack[s]))[p][l]
    ELSE 0

\* Each location lacks at least that.
PlacesBooked ==
    \A p \in Tracked, l \in Location :
        Sum([s \in Sale |-> Place(s, p, l)]) <= Opening[p][l] - stock[p][l]

\* A live sale's two tables.
LEMMA PlaceTables ==
    ASSUME StockInv, SaleInv, NEW s \in Sale, Live(s)
    PROVE  /\ IsFiniteSet(Line(s)) /\ unitsBack[s] \in [Line(s) -> Nat]
           /\ \A i \in Line(s) : /\ deductions[s][i] \in Seq(Entry)
                                 /\ unitsBack[s][i] <= Units(deductions[s][i])
           /\ Recorded(s) \in [Line(s) -> [Product -> [Location -> Nat]]]
           /\ RefundedBy(s, unitsBack[s]) \in [Line(s) -> [Product -> [Location -> Nat]]]
<1>1. /\ IsFiniteSet(Line(s)) /\ StockTypes /\ DOMAIN deductions[s] = Line(s)
      /\ \A i \in Line(s) : Units(deductions[s][i]) = Cart[s][i].qty
  BY CartLines DEF StockInv, LinesRecorded
<1>2. unitsBack[s] \in [Line(s) -> Nat] /\ \A i \in Line(s) : unitsBack[s][i] <= Cart[s][i].qty
  BY DEF SaleInv, SettledTypes, RefundsWithinSale
<1>3. \A i \in Line(s) : deductions[s][i] \in Seq(Entry)
  BY <1>1 DEF StockTypes
<1>4. Recorded(s) \in [Line(s) -> [Product -> [Location -> Nat]]]
  BY <1>1, RecordedLines
<1> DEFINE back == unitsBack[s]
<1>5. back \in [Line(s) -> Nat] /\ \A i \in Line(s) : back[i] > 0 => back[i] <= Units(deductions[s][i])
  BY <1>1, <1>2
<1> HIDE DEF back
<1>6. RefundedBy(s, back) \in [Line(s) -> [Product -> [Location -> Nat]]]
  BY <1>1, <1>5, RefundedLines
<1> QED BY <1>1, <1>2, <1>3, <1>4, <1>6 DEF back

\* It is a number, since no refund gives a place more than it gave.
LEMMA PlaceType ==
    ASSUME StockInv, SaleInv, NEW s \in Sale, NEW p \in Product, NEW l \in Location
    PROVE  Place(s, p, l) \in Nat
<1>1. CASE ~Live(s)
  BY <1>1 DEF Place
<1>2. CASE Live(s)
  <2> DEFINE v == RefundedBy(s, unitsBack[s])
             w == Recorded(s)
             f == [i \in Line(s) |-> v[i][p][l]]
             h == [i \in Line(s) |-> w[i][p][l]]
  <2>1. /\ IsFiniteSet(Line(s)) /\ unitsBack[s] \in [Line(s) -> Nat]
        /\ \A i \in Line(s) : /\ deductions[s][i] \in Seq(Entry)
                              /\ unitsBack[s][i] <= Units(deductions[s][i])
        /\ w \in [Line(s) -> [Product -> [Location -> Nat]]]
        /\ v \in [Line(s) -> [Product -> [Location -> Nat]]]
    BY <1>2, PlaceTables
  <2>2. f \in [Line(s) -> Nat] /\ h \in [Line(s) -> Nat] /\ f \in [Line(s) -> Int] /\ h \in [Line(s) -> Int]
    <3> HIDE DEF v, w
    <3> QED BY <2>1
  <2>3. ASSUME NEW i \in Line(s) PROVE f[i] <= h[i]
    <3>1. CASE unitsBack[s][i] > 0 /\ p = Cart[s][i].sku
      <4>1. f[i] = CreditAt(deductions[s][i], unitsBack[s][i], l)
        BY <3>1 DEF RefundedBy
      <4>2. h[i] = UnitsAt(deductions[s][i], l)
        BY <3>1 DEF Recorded
      <4>3. deductions[s][i] \in Seq(Entry) /\ unitsBack[s][i] \in Nat
        BY <2>1
      <4>4. CreditAt(deductions[s][i], unitsBack[s][i], l) <= UnitsAt(deductions[s][i], l)
        BY <4>3, CreditWithin
      <4> QED BY <4>1, <4>2, <4>4
    <3>2. CASE ~(unitsBack[s][i] > 0 /\ p = Cart[s][i].sku)
      <4>1. f[i] = 0
        BY <3>2 DEF RefundedBy
      <4>2. h[i] \in Nat
        BY <2>2
      <4> QED BY <4>1, <4>2
    <3> QED BY <3>1, <3>2
  <2>4. Place(s, p, l) = Sum(h) - Sum(f)
    <3>1. DOMAIN v = Line(s) /\ DOMAIN w = Line(s)
      BY <2>1
    <3> HIDE DEF v, w
    <3>2. OverLines(w)[p][l] = Sum(h) /\ OverLines(v)[p][l] = Sum(f)
      BY <3>1 DEF OverLines
    <3> QED BY <1>2, <3>2 DEF Place, v, w
  <2> HIDE DEF f, h, v, w
  <2>5. Sum(f) <= Sum(h)
    BY <2>1, <2>2, <2>3, SumsCompare
  <2>6. Sum(f) \in Nat /\ Sum(h) \in Nat
    BY <2>1, <2>2, SumOfNumbers
  <2> QED BY <2>4, <2>5, <2>6
<1> QED BY <1>1, <1>2

\* Before any refund it is all the sale took there.
LEMMA PlaceOfFresh ==
    ASSUME NEW s \in Sale, Live(s), \A i \in Line(s) : unitsBack[s][i] = 0,
           NEW p \in Product, NEW l \in Location, OverLines(Recorded(s))[p][l] \in Int
    PROVE  Place(s, p, l) = OverLines(Recorded(s))[p][l]
<1> DEFINE v == RefundedBy(s, unitsBack[s])
           f == [i \in Line(s) |-> v[i][p][l]]
<1>1. f \in [Line(s) -> Int] /\ (\A i \in Line(s) : f[i] = 0) /\ DOMAIN v = Line(s)
  BY DEF RefundedBy
<1>2. IsFiniteSet(Line(s))
  BY CartLines
<1> HIDE DEF v
<1>3. OverLines(v)[p][l] = Sum(f)
  BY <1>1 DEF OverLines
<1> HIDE DEF f
<1>4. Sum(f) = 0
  BY <1>1, <1>2, SumOfZeros
<1> QED BY <1>3, <1>4 DEF Place, v

\* An untouched sale keeps its places.
LEMMA PlaceStays ==
    ASSUME NEW r \in Sale, status'[r] = status[r], deductions'[r] = deductions[r],
           unitsBack'[r] = unitsBack[r], NEW p, NEW l
    PROVE  Place(r, p, l)' = Place(r, p, l)
<1>1. Recorded(r)' = Recorded(r)
  BY DEF Recorded
<1>2. RefundedBy(r, unitsBack[r])' = RefundedBy(r, unitsBack[r])
  BY DEF RefundedBy
<1>3. /\ OverLines(Recorded(r))' = OverLines(Recorded(r))
      /\ OverLines(RefundedBy(r, unitsBack[r]))' = OverLines(RefundedBy(r, unitsBack[r]))
  BY <1>1, <1>2 DEF OverLines
<1> QED BY <1>3 DEF Place, Live

\* Units that leave a location, of which one sale's place gets no more than
\* they are, keep every place covered.
LEMMA PlaceStep ==
    ASSUME StockInv, SaleInv, NEW p \in Product, NEW l \in Location, NEW s \in Sale, NEW d \in Int,
           Sum([r \in Sale |-> Place(r, p, l)]) <= Opening[p][l] - stock[p][l],
           stock'[p][l] = stock[p][l] - d,
           \A r \in Sale \ {s} : Place(r, p, l)' = Place(r, p, l),
           Place(s, p, l)' \in Int, Place(s, p, l)' <= Place(s, p, l) + d
    PROVE  (Sum([r \in Sale |-> Place(r, p, l)]) <= Opening[p][l] - stock[p][l])'
<1> DEFINE f == [r \in Sale |-> Place(r, p, l)]
           g == [r \in Sale |-> Place(r, p, l)']
<1>1. \A r \in Sale : Place(r, p, l) \in Int
  BY PlaceType
<1>2. f \in [Sale -> Int] /\ g \in [Sale -> Int] /\ g[s] <= f[s] + d
      /\ \A r \in Sale \ {s} : g[r] = f[r]
  BY <1>1
<1>3. Sum(f) <= Opening[p][l] - stock[p][l]
  OBVIOUS
<1>4. IsFiniteSet(Sale) /\ Opening[p][l] \in Int /\ stock[p][l] \in Int
  BY AmountsAssumption, StockAssumption DEF StockInv, StockTypes
<1> HIDE DEF f, g
<1>5. Sum(g) = Sum(f) + (g[s] - f[s])
  BY <1>2, <1>4, RowChanges
<1>6. Sum(f) \in Int /\ f[s] \in Int /\ g[s] \in Int
  BY <1>2, <1>4, SumType
<1>7. Sum(g) <= Opening[p][l] - stock'[p][l]
  BY <1>2, <1>3, <1>4, <1>5, <1>6
<1> QED BY <1>7 DEF g

\* A checkout takes what it records, and what its recipes use comes on top.
LEMMA TakesPlaces ==
    ASSUME StockInv, SaleInv, PlacesBooked, NEW s \in Sale, NEW units, NEW to, Takes(s, units, to)
    PROVE  PlacesBooked'
<1> SUFFICES ASSUME NEW p \in Tracked, NEW l \in Location
             PROVE  (Sum([r \in Sale |-> Place(r, p, l)]) <= Opening[p][l] - stock[p][l])'
  BY DEF PlacesBooked
<1> DEFINE all == OverLines(units)
           b == all[p][l]
<1>1. /\ StockTypes /\ SettledTypes /\ RefundsWithinSale /\ status \in [Sale -> Status]
      /\ deductions \in [Sale -> Seq(Seq(Entry))] /\ stock \in [Product -> [Location -> Int]]
  BY DEF StockInv, SaleInv, SettledTypes, StockTypes
<1>2. /\ IsFiniteSet(Line(s)) /\ p \in Product
      /\ units \in [Line(s) -> [Product -> [Location -> Nat]]]
  BY CartLines, StockAssumption DEF Takes
<1>3. b \in Nat
  <2>1. all[p] \in [Location -> Nat]
    BY <1>2, LinesCount
  <2> QED BY <2>1
<1>4. stock'[p][l] = stock[p][l] - b
  BY <1>2 DEF Takes, TakeStock
<1>5. PICK d \in Seq(Seq(Entry)) :
          /\ deductions' = [deductions EXCEPT ![s] = d]
          /\ DOMAIN d = Line(s)
          /\ \A i \in Line(s) : Units(d[i]) = Cart[s][i].qty
          /\ \A i \in Line(s), x \in Tracked :
                IF x = Cart[s][i].sku
                THEN \A k \in Location : units[i][x][k] = UnitsAt(d[i], k)
                ELSE Sum(units[i][x]) <= Uses(s, i, x)
  BY Zenon DEF Takes
<1>6. /\ status[s] = "absent" /\ to \in {"pending", "completed"}
      /\ status' = [status EXCEPT ![s] = to] /\ unitsBack' = unitsBack
      /\ status'[s] = to /\ deductions'[s] = d
      /\ \A r \in Sale \ {s} : status'[r] = status[r] /\ deductions'[r] = deductions[r]
  BY <1>1, <1>5 DEF Takes
<1>7. \A i \in Line(s) : unitsBack[s][i] = 0
  <2>1. unitsBack[s] \in [Line(s) -> Nat]
    BY <1>1 DEF SettledTypes
  <2>2. \A i \in Line(s) : ~(unitsBack[s][i] > 0)
    BY <1>1, <1>6 DEF RefundsWithinSale
  <2> QED BY <2>1, <2>2
<1> DEFINE rec == [i \in Line(s) |-> [x \in Product |-> [k \in Location |->
                     IF x = Cart[s][i].sku THEN UnitsAt(d[i], k) ELSE 0]]]
           none == [i \in Line(s) |-> [x \in Product |-> [k \in Location |-> 0]]]
           f == [i \in Line(s) |-> rec[i][p][l]]
           h == [i \in Line(s) |-> units[i][p][l]]
           z == [i \in Line(s) |-> none[i][p][l]]
<1>8. Place(s, p, l)' = OverLines(rec)[p][l] - OverLines(none)[p][l]
  <2>1. Recorded(s)' = rec
    BY <1>6 DEF Recorded
  <2>2. RefundedBy(s, unitsBack[s])' = none
    BY <1>6, <1>7 DEF RefundedBy
  <2>3. /\ OverLines(Recorded(s))' = OverLines(rec)
        /\ OverLines(RefundedBy(s, unitsBack[s]))' = OverLines(none)
    BY <2>1, <2>2 DEF OverLines
  <2>4. Live(s)'
    BY <1>6 DEF Live
  <2> HIDE DEF rec, none
  <2> QED BY <2>3, <2>4 DEF Place
<1>9. /\ OverLines(rec)[p][l] = Sum(f) /\ OverLines(none)[p][l] = Sum(z) /\ b = Sum(h)
  <2>1. DOMAIN rec = Line(s) /\ DOMAIN none = Line(s) /\ DOMAIN units = Line(s)
    BY <1>2
  <2> HIDE DEF rec, none
  <2> QED BY <1>2, <2>1 DEF OverLines
<1>10. /\ f \in [Line(s) -> Int] /\ h \in [Line(s) -> Int] /\ z \in [Line(s) -> Int]
       /\ \A i \in Line(s) : z[i] = 0
       /\ \A i \in Line(s) : f[i] <= h[i]
  <2>1. \A i \in Line(s) : /\ units[i][p][l] \in Nat
                           /\ rec[i][p][l] = 0 \/ rec[i][p][l] = units[i][p][l]
    <3> TAKE i \in Line(s)
    <3>1. units[i][p][l] \in Nat
      BY <1>2
    <3>2. CASE p = Cart[s][i].sku
      BY <1>2, <1>5, <3>1, <3>2
    <3>3. CASE p # Cart[s][i].sku
      BY <1>2, <3>1, <3>3
    <3> QED BY <3>2, <3>3
  <2>2. z \in [Line(s) -> Int] /\ \A i \in Line(s) : z[i] = 0
    BY <1>2
  <2> HIDE DEF rec, none, z
  <2> QED BY <2>1, <2>2
<1> HIDE DEF f, h, z, rec, none, all, b
<1>11. Sum(f) <= Sum(h) /\ Sum(z) = 0 /\ Sum(f) \in Int
  <2>1. Sum(f) <= Sum(h)
    BY <1>2, <1>10, SumsCompare
  <2>2. Sum(z) = 0
    BY <1>2, <1>10, SumOfZeros
  <2>3. Sum(f) \in Int
    BY <1>2, <1>10, SumType
  <2> QED BY <2>1, <2>2, <2>3
<1>12. Place(s, p, l) = 0
  BY <1>6 DEF Place, Live
<1>13. Place(s, p, l)' \in Int /\ Place(s, p, l)' <= Place(s, p, l) + b
  BY <1>3, <1>8, <1>9, <1>11, <1>12
<1>14. \A r \in Sale \ {s} : Place(r, p, l)' = Place(r, p, l)
  BY <1>6, PlaceStays
<1>15. Sum([r \in Sale |-> Place(r, p, l)]) <= Opening[p][l] - stock[p][l]
  BY DEF PlacesBooked
<1>16. b \in Int
  BY <1>3
<1> QED BY <1>2, <1>4, <1>13, <1>14, <1>15, <1>16, PlaceStep

\* A void gives each place back what it gave.
LEMMA VoidsPlaces ==
    ASSUME StockInv, SaleInv, PlacesBooked, NEW s \in Sale, Voids(s)
    PROVE  PlacesBooked'
<1> SUFFICES ASSUME NEW p \in Tracked, NEW l \in Location
             PROVE  (Sum([r \in Sale |-> Place(r, p, l)]) <= Opening[p][l] - stock[p][l])'
  BY DEF PlacesBooked
<1> DEFINE all == OverLines(Recorded(s))
           b == all[p][l]
           d == -b
<1>1. /\ status[s] = "pending" /\ status' = [status EXCEPT ![s] = "voided"]
      /\ deductions' = deductions /\ unitsBack' = unitsBack /\ status \in [Sale -> Status]
      /\ stock' = [x \in Product |-> [k \in Location |-> stock[x][k] + all[x][k]]]
      /\ SettledTypes /\ RefundsWithinSale /\ stock \in [Product -> [Location -> Int]]
      /\ p \in Product
  BY StockAssumption DEF Voids, CreditStock, SaleInv, SettledTypes, StockInv, StockTypes
<1>2. /\ IsFiniteSet(Line(s)) /\ Live(s)
      /\ Recorded(s) \in [Line(s) -> [Product -> [Location -> Nat]]]
  BY <1>1, PlaceTables DEF Live
<1>3. b \in Nat
  <2> DEFINE rec == Recorded(s)
  <2>1. rec \in [Line(s) -> [Product -> [Location -> Nat]]]
    BY <1>2
  <2> HIDE DEF rec
  <2>2. OverLines(rec)[p] \in [Location -> Nat]
    BY <1>1, <1>2, <2>1, LinesCount
  <2> QED BY <2>2 DEF rec
<1>4. Place(s, p, l) = b
  <2>1. unitsBack[s] \in [Line(s) -> Nat]
    BY <1>1 DEF SettledTypes
  <2>2. \A i \in Line(s) : ~(unitsBack[s][i] > 0)
    BY <1>1 DEF RefundsWithinSale
  <2>3. \A i \in Line(s) : unitsBack[s][i] = 0
    BY <2>1, <2>2
  <2> QED BY <1>1, <1>2, <1>3, <2>3, PlaceOfFresh
<1>5. Place(s, p, l)' = 0 /\ \A r \in Sale \ {s} : status'[r] = status[r]
  BY <1>1 DEF Place, Live
<1>6. \A r \in Sale \ {s} : Place(r, p, l)' = Place(r, p, l)
  BY <1>1, <1>5, PlaceStays
<1>7. stock'[p][l] = stock[p][l] + b /\ stock[p][l] \in Int
  BY <1>1
<1> HIDE DEF all, b
<1>8. /\ d \in Int /\ stock'[p][l] = stock[p][l] - d
      /\ Place(s, p, l)' \in Int /\ Place(s, p, l)' <= Place(s, p, l) + d
  BY <1>3, <1>4, <1>5, <1>7
<1>9. Sum([r \in Sale |-> Place(r, p, l)]) <= Opening[p][l] - stock[p][l]
  BY DEF PlacesBooked
<1> HIDE DEF d
<1> QED BY <1>1, <1>6, <1>8, <1>9, PlaceStep

\* A step of RefundsInOneGo
OneGo ==
    \A s \in Sale : \A i \in Line(s) :
        unitsBack'[s][i] # unitsBack[s][i]
            => unitsBack[s][i] = 0 \/ OnePlace(deductions[s][i])

\* A refund in one go gives each place back what it takes out of the sale's.
LEMMA GivesBackPlaces ==
    ASSUME StockInv, SaleInv, PlacesBooked, NEW s \in Sale, NEW qty \in [Line(s) -> Nat],
           GivesBack(s, qty), OneGo
    PROVE  PlacesBooked'
<1> SUFFICES ASSUME NEW p \in Tracked, NEW l \in Location
             PROVE  (Sum([r \in Sale |-> Place(r, p, l)]) <= Opening[p][l] - stock[p][l])'
  BY DEF PlacesBooked
<1> DEFINE ub == unitsBack[s]
           after == [i \in Line(s) |-> ub[i] + qty[i]]
           old == RefundedBy(s, ub)
           more == RefundedBy(s, qty)
           new == RefundedBy(s, after)
           b == OverLines(more)[p][l]
           d == -b
<1>1. /\ status[s] = "completed" /\ status' = status /\ deductions' = deductions
      /\ SettledTypes /\ unitsBack' = [unitsBack EXCEPT ![s] = after]
      /\ stock' = [x \in Product |-> [k \in Location |-> stock[x][k] + OverLines(more)[x][k]]]
      /\ stock \in [Product -> [Location -> Int]] /\ StockTypes /\ Live(s)
      /\ p \in Product /\ DOMAIN deductions[s] = Line(s)
  BY StockAssumption DEF GivesBack, CreditStock, SaleInv, SettledTypes, StockInv, StockTypes,
                         LinesRecorded, Live
<1>2. /\ IsFiniteSet(Line(s)) /\ ub \in [Line(s) -> Nat]
      /\ \A i \in Line(s) : deductions[s][i] \in Seq(Entry) /\ ub[i] <= Units(deductions[s][i])
      /\ old \in [Line(s) -> [Product -> [Location -> Nat]]]
  BY <1>1, PlaceTables
<1>3. \A i \in Line(s) : Units(deductions[s][i]) \in Nat
  BY <1>2, EntryQuantities
<1>4. \A i \in Line(s) : qty[i] > 0 => ub[i] + qty[i] <= Units(deductions[s][i])
  BY DEF GivesBack
<1>5. more \in [Line(s) -> [Product -> [Location -> Nat]]]
  <2>1. \A i \in Line(s) : qty[i] > 0 => qty[i] <= Units(deductions[s][i])
    BY <1>2, <1>3, <1>4
  <2> QED BY <1>1, <2>1, RefundedLines
<1>6. unitsBack'[s] = after /\ \A r \in Sale \ {s} : unitsBack'[r] = unitsBack[r]
  BY <1>1 DEF SettledTypes
<1>7. ASSUME NEW i \in Line(s)
      PROVE  new[i][p][l] = old[i][p][l] + more[i][p][l]
  <2> DEFINE e == deductions[s][i]
  <2>1. ub[i] \in Nat /\ qty[i] \in Nat /\ after[i] = ub[i] + qty[i] /\ e \in Seq(Entry)
    BY <1>2
  <2>2. /\ new[i][p][l] = IF after[i] > 0 /\ p = Cart[s][i].sku THEN CreditAt(e, after[i], l) ELSE 0
        /\ old[i][p][l] = IF ub[i] > 0 /\ p = Cart[s][i].sku THEN CreditAt(e, ub[i], l) ELSE 0
        /\ more[i][p][l] = IF qty[i] > 0 /\ p = Cart[s][i].sku THEN CreditAt(e, qty[i], l) ELSE 0
    BY <1>1 DEF RefundedBy
  <2>3. old[i][p][l] \in Nat /\ more[i][p][l] \in Nat
    <3> HIDE DEF old, more
    <3> QED BY <1>1, <1>2, <1>5
  <2> HIDE DEF new, old, more, after, ub, e
  <2>4. CASE p # Cart[s][i].sku
    BY <2>2, <2>4
  <2>5. CASE qty[i] = 0
    <3>1. after[i] = ub[i]
      BY <2>1, <2>5
    <3> QED BY <2>2, <2>3, <2>5, <3>1
  <2>6. CASE ub[i] = 0
    <3>1. after[i] = qty[i]
      BY <2>1, <2>6
    <3> QED BY <2>2, <2>3, <2>6, <3>1
  <2>7. CASE p = Cart[s][i].sku /\ qty[i] # 0 /\ ub[i] # 0
    <3>1. qty[i] > 0 /\ ub[i] > 0 /\ after[i] > 0
      BY <2>1, <2>7
    <3>2. OnePlace(e)
      <4>1. unitsBack'[s][i] = ub[i] + qty[i]
        BY <1>6, <2>1
      <4>2. unitsBack'[s][i] # unitsBack[s][i] /\ unitsBack[s][i] # 0
        BY <2>1, <2>7, <4>1 DEF ub
      <4> QED BY <4>2 DEF OneGo, e
    <3>3. ub[i] + qty[i] <= Units(e)
      BY <1>4, <3>1 DEF e
    <3>4. CreditAt(e, ub[i] + qty[i], l) = CreditAt(e, ub[i], l) + CreditAt(e, qty[i], l)
      BY <2>1, <3>2, <3>3, OnePlaceCredits
    <3> QED BY <2>1, <2>2, <2>7, <3>1, <3>4
  <2> QED BY <2>4, <2>5, <2>6, <2>7
<1>8. Place(s, p, l) = OverLines(Recorded(s))[p][l] - OverLines(old)[p][l]
  BY <1>1 DEF Place
<1>9. Place(s, p, l)' = OverLines(Recorded(s))[p][l] - OverLines(new)[p][l]
  <2>1. Recorded(s)' = Recorded(s)
    BY <1>1 DEF Recorded
  <2>2. RefundedBy(s, unitsBack[s])' = new
    BY <1>1, <1>6 DEF RefundedBy
  <2>3. /\ OverLines(Recorded(s))' = OverLines(Recorded(s))
        /\ OverLines(RefundedBy(s, unitsBack[s]))' = OverLines(new)
    BY <2>1, <2>2 DEF OverLines
  <2>4. Live(s)'
    BY <1>1 DEF Live
  <2> HIDE DEF new
  <2> QED BY <2>3, <2>4 DEF Place
<1>10. OverLines(new)[p][l] = OverLines(old)[p][l] + b
  <2> DEFINE f == [i \in Line(s) |-> old[i][p][l]]
             h == [i \in Line(s) |-> more[i][p][l]]
             k == [i \in Line(s) |-> new[i][p][l]]
  <2>1. DOMAIN new = Line(s) /\ DOMAIN old = Line(s) /\ DOMAIN more = Line(s)
    BY DEF RefundedBy
  <2>2. \A i \in Line(s) : old[i][p][l] \in Nat /\ more[i][p][l] \in Nat
    <3> HIDE DEF old, more
    <3> QED BY <1>1, <1>2, <1>5
  <2> HIDE DEF new, old, more
  <2>3. OverLines(new)[p][l] = Sum(k) /\ OverLines(old)[p][l] = Sum(f) /\ b = Sum(h)
    BY <1>1, <2>1 DEF OverLines
  <2>4. /\ f \in [Line(s) -> Int] /\ h \in [Line(s) -> Int] /\ k \in [Line(s) -> Int]
        /\ \A i \in Line(s) : k[i] = f[i] + h[i]
    BY <1>7, <2>2
  <2> DEFINE I == Line(s)
  <2>5. /\ IsFiniteSet(I) /\ f \in [I -> Int] /\ h \in [I -> Int] /\ k \in [I -> Int]
        /\ \A i \in I : k[i] = f[i] + h[i]
    BY <1>2, <2>4
  <2> HIDE DEF f, h, k, b, I
  <2>6. \A x, y, z \in [I -> Int] :
           (\A i \in I : z[i] = x[i] + y[i]) => Sum(z) = Sum(x) + Sum(y)
    BY <2>5, SumOfSums
  <2>7. Sum(k) = Sum(f) + Sum(h)
    BY <2>5, <2>6, Zenon
  <2> QED BY <2>3, <2>7
<1>11. /\ OverLines(old)[p][l] \in Nat /\ b \in Nat /\ OverLines(Recorded(s))[p][l] \in Nat
  <2> DEFINE rec == Recorded(s)
  <2>1. rec \in [Line(s) -> [Product -> [Location -> Nat]]]
    BY <1>1, PlaceTables
  <2> HIDE DEF rec, old, more
  <2>2. OverLines(rec)[p] \in [Location -> Nat]
    BY <1>1, <1>2, <2>1, LinesCount
  <2>3. OverLines(old)[p] \in [Location -> Nat]
    BY <1>1, <1>2, LinesCount
  <2>4. OverLines(more)[p] \in [Location -> Nat]
    BY <1>1, <1>2, <1>5, LinesCount
  <2> QED BY <2>2, <2>3, <2>4 DEF rec
<1>12. stock'[p][l] = stock[p][l] + b /\ stock[p][l] \in Int
  <2> HIDE DEF more
  <2> QED BY <1>1
<1>13. \A r \in Sale \ {s} : Place(r, p, l)' = Place(r, p, l)
  BY <1>1, <1>6, PlaceStays
<1>14. Sum([r \in Sale |-> Place(r, p, l)]) <= Opening[p][l] - stock[p][l]
  BY DEF PlacesBooked
<1> HIDE DEF old, new, more, after, ub, b
<1>15. /\ d \in Int /\ stock'[p][l] = stock[p][l] - d
       /\ Place(s, p, l)' \in Int /\ Place(s, p, l)' <= Place(s, p, l) + d
  BY <1>8, <1>9, <1>10, <1>11, <1>12
<1> HIDE DEF d
<1> QED BY <1>1, <1>13, <1>14, <1>15, PlaceStep

\* The places stay covered while refunds go in one go.
LEMMA PlacesStep ==
    ASSUME StockInv, SaleInv, PlacesBooked, [Next]_vars, [OneGo]_vars
    PROVE  PlacesBooked'
<1>1. \/ UNCHANGED Stocked
      \/ \E s \in Sale : \E units, to : Takes(s, units, to)
      \/ \E s \in Sale : Completes(s) \/ Voids(s)
      \/ \E s \in Sale : \E qty \in [Line(s) -> Nat] : GivesBack(s, qty)
  BY StepsMove DEF StockInv, SaleInv
<1>2. ASSUME UNCHANGED <<stock, deductions, unitsBack>>, \A r \in Sale : Live(r)' = Live(r)
      PROVE  PlacesBooked'
  <2>1. \A r \in Sale : \A p, l : Place(r, p, l)' = Place(r, p, l)
    <3> TAKE r \in Sale
    <3>1. Recorded(r)' = Recorded(r) /\ RefundedBy(r, unitsBack[r])' = RefundedBy(r, unitsBack[r])
      BY <1>2 DEF Recorded, RefundedBy
    <3>2. /\ OverLines(Recorded(r))' = OverLines(Recorded(r))
          /\ OverLines(RefundedBy(r, unitsBack[r]))' = OverLines(RefundedBy(r, unitsBack[r]))
      BY <3>1 DEF OverLines
    <3> QED BY <1>2, <3>2 DEF Place
  <2>2. \A p, l : Sum([r \in Sale |-> Place(r, p, l)])' = Sum([r \in Sale |-> Place(r, p, l)])
    BY <2>1
  <2> QED BY <1>2, <2>2 DEF PlacesBooked
<1>3. CASE UNCHANGED Stocked
  BY <1>2, <1>3 DEF Stocked, Live
<1>4. ASSUME NEW s \in Sale, Completes(s)
      PROVE  PlacesBooked'
  <2>1. status \in [Sale -> Status]
    BY DEF SaleInv, SettledTypes
  <2>2. \A r \in Sale : Live(r)' = Live(r)
    BY <1>4, <2>1 DEF Completes, Live
  <2> QED BY <1>2, <1>4, <2>2 DEF Completes
<1>5. OneGo \/ UNCHANGED Stocked
  BY DEF vars, Stocked
<1> QED BY <1>1, <1>3, <1>4, <1>5, TakesPlaces, VoidsPlaces, GivesBackPlaces

\* "Stock is credited back to the original deduction source locations", in the
\* circumstances in which it is: as long as no line that was taken at several
\* locations is refunded a second time, voids and refunds never leave a
\* location with more than it opened with.
THEOREM OneRefundCreditsWhereTaken == Spec /\ RefundsInOneGo => []CreditedWhereTaken
<1>1. Init => PlacesBooked
  <2> SUFFICES ASSUME Init, NEW p \in Tracked, NEW l \in Location
               PROVE  Sum([r \in Sale |-> Place(r, p, l)]) <= Opening[p][l] - stock[p][l]
    BY DEF PlacesBooked
  <2> DEFINE f == [r \in Sale |-> Place(r, p, l)]
  <2>1. f \in [Sale -> Int] /\ \A r \in Sale : f[r] = 0
    BY DEF Init, Place, Live
  <2>2. IsFiniteSet(Sale) /\ Opening[p][l] - stock[p][l] = 0
    BY AmountsAssumption, StockAssumption DEF Init
  <2> HIDE DEF f
  <2>3. Sum(f) = 0
    BY <2>1, <2>2, SumOfZeros
  <2> QED BY <2>2, <2>3 DEF f
<1>2. StockInv /\ SaleInv /\ PlacesBooked => CreditedWhereTaken
  <2> SUFFICES ASSUME StockInv, SaleInv, PlacesBooked, NEW p \in Tracked, NEW l \in Location
               PROVE  stock[p][l] <= Opening[p][l]
    BY DEF CreditedWhereTaken
  <2> DEFINE f == [r \in Sale |-> Place(r, p, l)]
  <2>1. p \in Product /\ IsFiniteSet(Sale) /\ Opening[p][l] \in Int /\ stock[p][l] \in Int
    BY AmountsAssumption, StockAssumption DEF StockInv, StockTypes
  <2>2. f \in [Sale -> Nat]
    BY <2>1, PlaceType
  <2>3. Sum(f) <= Opening[p][l] - stock[p][l]
    BY DEF PlacesBooked
  <2> HIDE DEF f
  <2>4. Sum(f) \in Nat
    BY <2>1, <2>2, SumOfNumbers
  <2> QED BY <2>1, <2>3, <2>4
<1>3. RefundsInOneGo <=> [][OneGo]_vars
  BY PTL DEF RefundsInOneGo, OneGo
<1>4. StockInv /\ SaleInv /\ PlacesBooked /\ [Next]_vars /\ [OneGo]_vars => PlacesBooked'
  BY PlacesStep
<1> QED BY <1>1, <1>2, <1>3, <1>4, StockInvariant, PTL DEF Spec

-----------------------------------------------------------------------------
(* The contract: what the abstract sale sees of a step                     *)

Shelf  == [p \in Tracked |-> Sum(stock[p])]
Back   == [s \in Sale |-> [p \in Tracked |-> Returned(s, p)]]
Points == [s \in Sale |-> earned[s] - reversed[s]]

\* What is credited at the locations is what the shelf gains.
LEMMA ShelfGains ==
    ASSUME StockTypes, NEW all, NEW p \in Product, all[p] \in [Location -> Nat],
           stock' = [q \in Product |-> [l \in Location |-> stock[q][l] + all[q][l]]]
    PROVE  Sum(stock'[p]) = Sum(stock[p]) + Sum(all[p])
<1> DEFINE f == stock[p]
           h == all[p]
           k == stock'[p]
<1>1. f \in [Location -> Int] /\ h \in [Location -> Nat] /\ IsFiniteSet(Location)
  BY StockAssumption DEF StockTypes
<1>2. k = [l \in Location |-> f[l] + h[l]]
  OBVIOUS
<1> HIDE DEF f, h, k
<1>3. h \in [Location -> Int] /\ k \in [Location -> Int] /\ \A l \in Location : k[l] = f[l] + h[l]
  BY <1>1, <1>2
<1>4. Sum(k) = Sum(f) + Sum(h)
  BY <1>1, <1>3, SumOfSums
<1> QED BY <1>4 DEF f, h, k

\* Likewise what is taken there is what it loses.
LEMMA ShelfLoses ==
    ASSUME StockTypes, NEW all, NEW p \in Product, all[p] \in [Location -> Nat],
           stock' = [q \in Product |-> [l \in Location |-> stock[q][l] - all[q][l]]]
    PROVE  Sum(stock[p]) = Sum(stock'[p]) + Sum(all[p])
<1> DEFINE f == stock[p]
           h == all[p]
           k == stock'[p]
<1>1. f \in [Location -> Int] /\ h \in [Location -> Nat] /\ IsFiniteSet(Location)
  BY StockAssumption DEF StockTypes
<1>2. k = [l \in Location |-> f[l] - h[l]]
  OBVIOUS
<1> HIDE DEF f, h, k
<1>3. h \in [Location -> Int] /\ k \in [Location -> Int] /\ \A l \in Location : f[l] = k[l] + h[l]
  BY <1>1, <1>2
<1>4. Sum(f) = Sum(k) + Sum(h)
  BY <1>1, <1>3, SumOfSums
<1> QED BY <1>4 DEF f, h, k

\* The shelf is counted in integers.
LEMMA ShelfType ==
    ASSUME StockTypes, NEW p \in Product
    PROVE  Sum(stock[p]) \in Int
<1>1. stock[p] \in [Location -> Int] /\ IsFiniteSet(Location)
  BY StockAssumption DEF StockTypes
<1> QED BY <1>1, SumType

\* A checkout takes off the shelf what the contract lets it.
LEMMA TakesFromShelf ==
    ASSUME StockInv, NEW s \in Sale, NEW units, NEW to, Takes(s, units, to)
    PROVE  /\ Shelf' \in [Tracked -> Int]
           /\ \A p \in Tracked : Shelf[p] - Shelf'[p] - Bought(s, p) \in 0 .. Called(s, p)
<1> DEFINE all == OverLines(units)
<1>1. StockTypes /\ IsFiniteSet(Line(s)) /\ Tracked \subseteq Product
      /\ units \in [Line(s) -> [Product -> [Location -> Nat]]]
  BY CartLines, StockAssumption DEF StockInv, Takes
<1>2. \A p \in Product : all[p] \in [Location -> Nat]
  BY <1>1, LinesCount
<1>3. stock' = [p \in Product |-> [l \in Location |-> stock[p][l] - all[p][l]]]
  BY DEF Takes, TakeStock
<1>4. ASSUME NEW p \in Tracked
      PROVE  /\ Sum(stock'[p]) \in Int
             /\ Sum(stock[p]) - Sum(stock'[p]) - Bought(s, p) \in 0 .. Called(s, p)
  <2>1. /\ Bought(s, p) \in Int /\ Called(s, p) \in Nat /\ Sum(all[p]) \in Int
        /\ Bought(s, p) <= Sum(all[p]) /\ Sum(all[p]) <= Bought(s, p) + Called(s, p)
    BY TakesCount
  <2> HIDE DEF all
  <2>2. p \in Product /\ all[p] \in [Location -> Nat]
    BY <1>1, <1>2
  <2>3. Sum(stock[p]) = Sum(stock'[p]) + Sum(all[p])
    BY <1>1, <1>3, <2>2, ShelfLoses
  <2>4. Sum(stock[p]) \in Int
    BY <1>1, <2>2, ShelfType
  <2>5. stock'[p] \in [Location -> Int] /\ IsFiniteSet(Location)
    <3>1. \A l \in Location : stock[p][l] - all[p][l] \in Int
      <4>1. stock[p] \in [Location -> Int]
        BY <1>1, <2>2 DEF StockTypes
      <4> QED BY <2>2, <4>1
    <3> QED BY <1>3, <2>2, <3>1, StockAssumption
  <2>6. Sum(stock'[p]) \in Int
    BY <2>5, SumType
  <2> QED BY <2>1, <2>3, <2>4, <2>6
<1> QED BY <1>4 DEF Shelf

\* A void puts back what the sale bought.
LEMMA VoidsToShelf ==
    ASSUME StockInv, NEW s \in Sale, Voids(s)
    PROVE  Shelf' = [p \in Tracked |-> Shelf[p] + Bought(s, p)]
<1> DEFINE all == OverLines(Recorded(s))
<1>1. StockTypes /\ LinesRecorded /\ Tracked \subseteq Product
  BY StockAssumption DEF StockInv
<1>2. stock' = [p \in Product |-> [l \in Location |-> stock[p][l] + all[p][l]]]
  BY DEF Voids, CreditStock
<1>3. \A p \in Product : all[p] \in [Location -> Nat] /\ Sum(all[p]) = Bought(s, p)
  BY <1>1, VoidCredits
<1> HIDE DEF all
<1>4. \A p \in Tracked : Sum(stock'[p]) = Sum(stock[p]) + Bought(s, p)
  <2> TAKE p \in Tracked
  <2>1. p \in Product /\ all[p] \in [Location -> Nat] /\ Sum(all[p]) = Bought(s, p)
    BY <1>1, <1>3
  <2>2. Sum(stock'[p]) = Sum(stock[p]) + Sum(all[p])
    BY <1>1, <1>2, <2>1, ShelfGains
  <2> QED BY <2>1, <2>2
<1> QED BY <1>4 DEF Shelf

\* What the refunds of a sale brought back, and what they bring back with this
\* one, is a number and no more than it bought.
LEMMA ReturnedGrows ==
    ASSUME SettledTypes, RefundsWithinSale', SettledTypes', NEW s \in Sale,
           NEW qty \in [Line(s) -> Nat], GivesBack(s, qty), NEW p \in Product
    PROVE  /\ Returned(s, p) \in Int /\ Returned(s, p)' \in Int /\ InRefund(s, qty, p) \in Nat
           /\ Returned(s, p)' = Returned(s, p) + InRefund(s, qty, p)
           /\ Returned(s, p)' <= Bought(s, p)
<1> DEFINE I == Line(s)
           f == [i \in I |-> IF Cart[s][i].sku = p THEN unitsBack[s][i] ELSE 0]
           h == [i \in I |-> IF Cart[s][i].sku = p THEN qty[i] ELSE 0]
           k == [i \in I |-> IF Cart[s][i].sku = p THEN unitsBack'[s][i] ELSE 0]
           b == [i \in I |-> IF Cart[s][i].sku = p THEN Cart[s][i].qty ELSE 0]
<1>1. /\ IsFiniteSet(I) /\ \A i \in I : Cart[s][i].qty \in Nat
      /\ unitsBack[s] \in [I -> Nat] /\ unitsBack'[s] \in [I -> Nat]
  BY CartLines DEF SettledTypes
<1>2. /\ unitsBack'[s] = [i \in I |-> unitsBack[s][i] + qty[i]]
      /\ \A i \in I : unitsBack'[s][i] <= Cart[s][i].qty
  BY DEF GivesBack, SettledTypes, RefundsWithinSale
<1>3. /\ f \in [I -> Int] /\ h \in [I -> Nat] /\ h \in [I -> Int] /\ k \in [I -> Int] /\ b \in [I -> Int]
      /\ \A i \in I : k[i] = f[i] + h[i] /\ k[i] <= b[i]
  BY <1>1, <1>2
<1>4. Returned(s, p) = Sum(f) /\ Returned(s, p)' = Sum(k) /\ InRefund(s, qty, p) = Sum(h)
      /\ Bought(s, p) = Sum(b)
  BY DEF Returned, InRefund, Bought
<1> HIDE DEF I, f, h, k, b
<1>5. Sum(k) = Sum(f) + Sum(h)
  <2>1. \A x, y, z \in [I -> Int] :
           (\A i \in I : z[i] = x[i] + y[i]) => Sum(z) = Sum(x) + Sum(y)
    BY <1>1, SumOfSums
  <2> QED BY <1>3, <2>1, Zenon
<1>6. Sum(k) <= Sum(b)
  BY <1>1, <1>3, SumsCompare
<1>7. Sum(f) \in Int /\ Sum(k) \in Int /\ Sum(h) \in Nat
  BY <1>1, <1>3, SumType, SumOfNumbers
<1> QED BY <1>4, <1>5, <1>6, <1>7

\* A refund puts on the shelf what it brings back, and for no sale but its own.
LEMMA RefundsToShelf ==
    ASSUME StockInv, SaleInv, SaleInv', NEW s \in Sale,
           NEW qty \in [Line(s) -> Nat], GivesBack(s, qty)
    PROVE  /\ Back' = [Back EXCEPT ![s] = Back'[s]]
           /\ Shelf' = [p \in Tracked |-> Shelf[p] + Back'[s][p] - Back[s][p]]
           /\ \A p \in Tracked : Back[s][p] <= Back'[s][p] /\ Back'[s][p] <= Bought(s, p)
<1> DEFINE all == OverLines(RefundedBy(s, qty))
<1>1. /\ StockTypes /\ SettledTypes /\ LinesRecorded /\ Tracked \subseteq Product
      /\ SettledTypes' /\ RefundsWithinSale'
  BY StockAssumption DEF StockInv, SaleInv
<1>2. stock' = [p \in Product |-> [l \in Location |-> stock[p][l] + all[p][l]]]
  BY DEF GivesBack, CreditStock
<1>3. \A p \in Product : all[p] \in [Location -> Nat] /\ Sum(all[p]) = InRefund(s, qty, p)
  BY <1>1, RefundCredits
<1> HIDE DEF all
<1>4. ASSUME NEW p \in Tracked
      PROVE  /\ Returned(s, p) <= Returned(s, p)' /\ Returned(s, p)' <= Bought(s, p)
             /\ Sum(stock'[p]) = Sum(stock[p]) + Returned(s, p)' - Returned(s, p)
  <2>1. p \in Product /\ all[p] \in [Location -> Nat] /\ Sum(all[p]) = InRefund(s, qty, p)
    BY <1>1, <1>3
  <2>2. Sum(stock'[p]) = Sum(stock[p]) + Sum(all[p])
    BY <1>1, <1>2, <2>1, ShelfGains
  <2>3. /\ Returned(s, p) \in Int /\ Returned(s, p)' \in Int /\ InRefund(s, qty, p) \in Nat
        /\ Returned(s, p)' = Returned(s, p) + InRefund(s, qty, p)
        /\ Returned(s, p)' <= Bought(s, p)
    BY <1>1, <2>1, ReturnedGrows
  <2>4. Sum(stock[p]) \in Int
    BY <1>1, <2>1, ShelfType
  <2> QED BY <2>1, <2>2, <2>3, <2>4
<1>5. \A r \in Sale \ {s} : \A p : Returned(r, p)' = Returned(r, p)
  <2>1. \A r \in Sale \ {s} : unitsBack'[r] = unitsBack[r]
    BY <1>1 DEF GivesBack, SettledTypes
  <2> QED BY <2>1 DEF Returned
<1>6. Back' = [Back EXCEPT ![s] = Back'[s]]
  BY <1>5 DEF Back
<1> QED BY <1>4, <1>6 DEF Shelf, Back

\* What may be awarded for a sale.
WorthOf == [s \in Sale |-> {Award[s], Charged[s]}]

\* An award is the sale's first, and nothing of it is gone; a repeated one
\* changes nothing.
LEMMA EarnsOnce ==
    ASSUME SaleInv, NEW s \in Sale, NEW n \in WorthOf[s],
           AwardPoints(s, n), UNCHANGED reversed
    PROVE  \/ /\ earned[s] = 0
              /\ earned' = [earned EXCEPT ![s] = n]
              /\ Points' = [Points EXCEPT ![s] = n]
           \/ earned' = earned /\ Points' = Points
<1>1. /\ earned \in [Sale -> Nat] /\ reversed \in [Sale -> Nat] /\ n \in Nat
      /\ reversed[s] <= earned[s]
  <2>1. Award[s] \in Nat /\ Charged[s] \in Nat
    BY AmountsAssumption
  <2>2. n \in Nat
    BY <2>1 DEF WorthOf
  <2> QED BY <2>2 DEF SaleInv, SettledTypes, AwardedOnce
<1>2. CASE earned[s] = 0
  <2>1. reversed[s] = 0 /\ earned' = [earned EXCEPT ![s] = n]
    BY <1>1, <1>2 DEF AwardPoints
  <2>2. \A r \in Sale : earned'[r] - reversed'[r] = IF r = s THEN n ELSE earned[r] - reversed[r]
    BY <1>1, <2>1
  <2> QED BY <1>2, <2>1, <2>2 DEF Points
<1>3. CASE earned[s] # 0
  <2>1. earned' = earned
    BY <1>1, <1>3 DEF AwardPoints
  <2> QED BY <2>1 DEF Points
<1> QED BY <1>2, <1>3

\* A refund pays back no more than is left of the total and takes back no more
\* points than are left of the award.
LEMMA RefundsMoney ==
    ASSUME SaleInv, SaleInv', NEW s \in Sale, NEW money \in Nat,
           NEW qty \in [Line(s) -> Nat], RefundOne(s, qty, money)
    PROVE  /\ moneyBack' = [moneyBack EXCEPT ![s] = moneyBack'[s]]
           /\ moneyBack'[s] \in moneyBack[s] .. Total[s]
           /\ Points' = [Points EXCEPT ![s] = Points'[s]]
           /\ Points'[s] \in 0 .. Points[s]
<1>1. /\ earned \in [Sale -> Nat] /\ reversed \in [Sale -> Nat] /\ moneyBack \in [Sale -> Nat]
      /\ Total[s] \in Nat /\ reversed[s] <= earned[s]
  BY AmountsAssumption DEF SaleInv, SettledTypes, AwardedOnce
<1>2. Reversal(s, money) \in Nat /\ Reversal(s, money) <= earned[s] - reversed[s]
  BY <1>1, ReversalBounded DEF SaleInv
<1>3. /\ moneyBack[s] + money <= Total[s]
      /\ moneyBack' = [moneyBack EXCEPT ![s] = moneyBack[s] + money]
      /\ earned' = earned
      /\ \A r \in Sale \ {s} : reversed'[r] = reversed[r]
      /\ reversed'[s] \in {reversed[s], reversed[s] + Reversal(s, money)}
  BY <1>1 DEF RefundOne
<1>4. \A r \in Sale \ {s} : Points'[r] = Points[r]
  BY <1>1, <1>3 DEF Points
<1>5. /\ Points[s] = earned[s] - reversed[s]
      /\ Points'[s] \in {earned[s] - reversed[s], earned[s] - (reversed[s] + Reversal(s, money))}
  BY <1>1, <1>3 DEF Points
<1>6. Points'[s] \in 0 .. Points[s]
  BY <1>1, <1>2, <1>5
<1>7. Points' = [Points EXCEPT ![s] = Points'[s]]
  BY <1>4 DEF Points
<1>8. moneyBack'[s] \in moneyBack[s] .. Total[s]
  BY <1>1, <1>3
<1> QED BY <1>1, <1>3, <1>6, <1>7, <1>8

\* Every step of the till is one the contract allows, or one it does not see.
LEMMA ContractStep ==
    ASSUME StockInv, SaleInv, SaleInv', [Next]_vars
    PROVE  [Contract!Next]_Contract!vars
<1>0. /\ Shelf = [p \in Tracked |-> Sum(stock[p])]
      /\ Back = [s \in Sale |-> [p \in Tracked |-> Returned(s, p)]]
      /\ Points = [s \in Sale |-> earned[s] - reversed[s]]
      /\ Shelf' = [p \in Tracked |-> Sum(stock'[p])]
      /\ Back' = [s \in Sale |-> [p \in Tracked |-> Returned(s, p)']]
      /\ Points' = [s \in Sale |-> earned'[s] - reversed'[s]]
  BY DEF Shelf, Back, Points
<1>1. /\ UNCHANGED unitsBack => Back' = Back
      /\ UNCHANGED stock => Shelf' = Shelf
      /\ UNCHANGED <<earned, reversed>> => Points' = Points
  BY DEF Back, Returned, Shelf, Points
<1>2. ASSUME NEW s \in Sale, Checkout(s) PROVE Contract!Sell(s)
  <2>1. Takes(s, TakenBy(s), "pending")
    BY <1>2, CheckoutTakes DEF StockInv, SaleInv
  <2>2. /\ Shelf' \in [Tracked -> Int]
        /\ \A p \in Tracked : Shelf[p] - Shelf'[p] - Bought(s, p) \in 0 .. Called(s, p)
    BY <2>1, TakesFromShelf
  <2>3. /\ status[s] = "absent" /\ status' = [status EXCEPT ![s] = "pending"]
        /\ Back' = Back /\ moneyBack' = moneyBack /\ earned' = earned /\ Points' = Points
    BY <1>1, <1>2 DEF Checkout
  <2> QED BY <1>0, <2>2, <2>3 DEF Contract!Sell, Contract!Take
<1>3. ASSUME NEW s \in Sale, NEW n \in WorthOf[s], AwardPoints(s, n), UNCHANGED reversed
       PROVE  Contract!MayEarn(s)
  <2>1. \/ /\ earned[s] = 0 /\ earned' = [earned EXCEPT ![s] = n]
           /\ Points' = [Points EXCEPT ![s] = n]
        \/ earned' = earned /\ Points' = Points
    BY <1>3, EarnsOnce
  <2> QED BY <1>0, <1>3, <2>1 DEF Contract!MayEarn, Contract!Awarded, WorthOf
<1>4. ASSUME NEW s \in Sale, AwardOnCompletion(s), UNCHANGED reversed
       PROVE  Contract!MayEarn(s)
  <2>1. CASE AwardPoints(s, Award[s])
    BY <1>3, <1>4, <2>1 DEF WorthOf
  <2>2. CASE UNCHANGED earned
    BY <1>0, <1>1, <1>4, <2>2 DEF Contract!MayEarn
  <2> QED BY <1>4, <2>1, <2>2 DEF AwardOnCompletion
<1>5. ASSUME NEW s \in Sale, NEW chosen \in Resolutions(s), CheckoutResolved(s, chosen)
      PROVE  Contract!SellAtOnce(s)
  <2>1. Takes(s, ResolvedBy(s, chosen), "completed")
    BY <1>5, ResolvedTakes
  <2>2. /\ Shelf' \in [Tracked -> Int]
        /\ \A p \in Tracked : Shelf[p] - Shelf'[p] - Bought(s, p) \in 0 .. Called(s, p)
    BY <2>1, TakesFromShelf
  <2>3. /\ status[s] = "absent" /\ status' = [status EXCEPT ![s] = "completed"]
        /\ AwardOnCompletion(s) /\ UNCHANGED reversed
        /\ Back' = Back /\ moneyBack' = moneyBack
    BY <1>1, <1>5 DEF CheckoutResolved
  <2>4. Contract!MayEarn(s)
    BY <1>4, <2>3
  <2> QED BY <1>0, <2>2, <2>3, <2>4 DEF Contract!SellAtOnce, Contract!Take
<1>6. ASSUME NEW s \in Sale, FinalizeSale(s) PROVE Contract!Capture(s)
  <2>1. /\ status[s] = "pending" /\ status' = [status EXCEPT ![s] = "completed"]
        /\ AwardOnCompletion(s) /\ UNCHANGED reversed
        /\ Shelf' = Shelf /\ Back' = Back /\ moneyBack' = moneyBack
    BY <1>1, <1>6 DEF FinalizeSale
  <2>2. Contract!MayEarn(s)
    BY <1>4, <2>1
  <2> QED BY <1>0, <2>1, <2>2 DEF Contract!Capture
<1>7. ASSUME NEW s \in Sale, VoidPending(s),
             UNCHANGED <<deductions, unitsBack, moneyBack, earned, reversed>>
      PROVE  Contract!Void(s)
  <2>1. Voids(s)
    BY <1>7 DEF VoidPending, Voids
  <2>2. Shelf' = [p \in Tracked |-> Shelf[p] + Bought(s, p)]
    BY <2>1, VoidsToShelf
  <2>3. /\ status[s] = "pending" /\ status' = [status EXCEPT ![s] = "voided"]
        /\ Back' = Back /\ moneyBack' = moneyBack /\ earned' = earned /\ Points' = Points
    BY <1>1, <1>7 DEF VoidPending
  <2> QED BY <1>0, <2>2, <2>3 DEF Contract!Void
<1>8. ASSUME NEW s \in Sale, NEW qty \in Refunds(s), NEW money \in 0 .. Total[s],
             NEW value \in [Line(s) -> 0 .. Total[s]], Refund(s, qty, value, money)
      PROVE  Contract!GiveBack(s)
  <2>1. /\ money \in Nat /\ qty \in [Line(s) -> Nat]
        /\ RefundOne(s, qty, money) /\ GivesBack(s, qty)
    BY <1>8, RefundSettles, RefundMoves
  <2>2. /\ Back' = [Back EXCEPT ![s] = Back'[s]]
        /\ Shelf' = [p \in Tracked |-> Shelf[p] + Back'[s][p] - Back[s][p]]
        /\ \A p \in Tracked : Back[s][p] <= Back'[s][p] /\ Back'[s][p] <= Bought(s, p)
    BY <2>1, RefundsToShelf
  <2>3. /\ moneyBack' = [moneyBack EXCEPT ![s] = moneyBack'[s]]
        /\ moneyBack'[s] \in moneyBack[s] .. Total[s]
        /\ Points' = [Points EXCEPT ![s] = Points'[s]]
        /\ Points'[s] \in 0 .. Points[s]
    BY <2>1, RefundsMoney
  <2>4. status[s] = "completed" /\ status' = status /\ earned' = earned
    BY <2>1 DEF GivesBack, RefundOne
  <2> QED BY <1>0, <2>2, <2>3, <2>4 DEF Contract!GiveBack
<1>9. ASSUME UNCHANGED <<status, stock, unitsBack, moneyBack, earned, reversed>>
      PROVE  UNCHANGED Contract!vars
  BY <1>0, <1>1, <1>9 DEF Contract!vars
<1>10. ASSUME NEW s \in Sale, ReapOne(s)
      PROVE  Contract!Void(s) \/ UNCHANGED Contract!vars
  BY <1>7, <1>9, <1>10 DEF ReapOne
<1>11. ASSUME NEW s \in Sale, VoidPendingSale(s) PROVE Contract!Void(s)
  BY <1>7, <1>11 DEF VoidPendingSale
<1>12. ASSUME NEW s \in Sale, Expire(s) \/ CreateTicket(s) \/ ServeTicket(s)
       PROVE  UNCHANGED Contract!vars
  BY <1>9, <1>12 DEF Expire, CreateTicket, ServeTicket
<1>13. CASE ReapScan
  BY <1>9, <1>13 DEF ReapScan
<1>14. CASE UNCHANGED vars
  BY <1>9, <1>14 DEF vars
<1>15. ASSUME NEW s \in Sale, EarnPoints(s) PROVE Contract!Earn(s) \/ UNCHANGED Contract!vars
  <2>1. /\ status[s] # "absent" /\ AwardPoints(s, Charged[s])
        /\ UNCHANGED <<status, stock, unitsBack, moneyBack, reversed>>
    BY <1>15 DEF EarnPoints
  <2>2. Contract!MayEarn(s)
    BY <1>3, <2>1 DEF WorthOf
  <2>3. Back' = Back /\ Shelf' = Shelf
    BY <1>1, <2>1
  <2> QED BY <1>0, <2>1, <2>2, <2>3 DEF Contract!MayEarn, Contract!Earn, Contract!vars
<1> QED BY <1>2, <1>5, <1>6, <1>8, <1>10, <1>11, <1>12, <1>13, <1>14, <1>15 DEF Next, Contract!Next

\* The till implements the contract for every cart, route, recipe and choice of
\* entries: seen without lines and locations, a sale leaves the shelf once, is
\* captured or voided once, gives back no more than it had, and is awarded its
\* points at most once, at whatever time.
THEOREM ImplementsContract == Spec => HonoursContract
<1>1. Init => Contract!Init
  <2> SUFFICES ASSUME Init PROVE Contract!Init
    OBVIOUS
  <2>1. /\ status = [s \in Sale |-> "absent"] /\ stock = Opening
        /\ moneyBack = [s \in Sale |-> 0]
        /\ earned = [s \in Sale |-> 0]
        /\ [s \in Sale |-> earned[s] - reversed[s]] = [s \in Sale |-> 0]
    BY DEF Init
  <2>2. \A s \in Sale, p \in Tracked : Returned(s, p) = 0
    <3> TAKE s \in Sale, p \in Tracked
    <3> DEFINE I == Line(s)
               f == [i \in I |-> IF Cart[s][i].sku = p THEN unitsBack[s][i] ELSE 0]
    <3>1. IsFiniteSet(I) /\ f \in [I -> Int] /\ \A i \in I : f[i] = 0
      BY CartLines DEF Init
    <3>2. Returned(s, p) = Sum(f)
      BY DEF Returned
    <3> HIDE DEF I, f
    <3> QED BY <3>1, <3>2, SumOfZeros
  <2> QED BY <2>1, <2>2 DEF Contract!Init
<1>2. StockInv /\ SaleInv /\ SaleInv' /\ [Next]_vars => [Contract!Next]_Contract!vars
  BY ContractStep
<1> QED BY <1>1, <1>2, StockInvariant, PTL DEF Spec, HonoursContract, Contract!Spec

-----------------------------------------------------------------------------
(* The columns no stock depends on.                                        *)

OtherTypes ==
    /\ overdue \subseteq Sale /\ stale \subseteq overdue
    /\ ticket \in [Sale -> {"none", "open", "served", "cancelled"}]
    /\ outbox \subseteq {"complete_sale", "refund_sale", "void_sale"} \X Sale

\* Every handler writes values of their types.
LEMMA OtherTypesStep == OtherTypes /\ [Next]_vars => OtherTypes'
<1> SUFFICES ASSUME OtherTypes, [Next]_vars PROVE OtherTypes'
  OBVIOUS
<1>1. ASSUME NEW s \in Sale, CancelTicket(s)
      PROVE  ticket' \in [Sale -> {"none", "open", "served", "cancelled"}]
  BY <1>1 DEF CancelTicket, OtherTypes
<1>2. ASSUME NEW s \in Sale,
             Checkout(s) \/ (\E chosen \in Resolutions(s) : CheckoutResolved(s, chosen))
      PROVE  OtherTypes'
  <2>1. /\ outbox' = outbox \cup {<<"complete_sale", s>>}
        /\ UNCHANGED <<overdue, stale, ticket>>
    BY <1>2, Zenon DEF Checkout, CheckoutResolved
  <2> QED BY <2>1 DEF OtherTypes
<1>3. ASSUME NEW s \in Sale, FinalizeSale(s) \/ VoidPendingSale(s)
      PROVE  OtherTypes'
  BY <1>1, <1>3 DEF FinalizeSale, VoidPendingSale, VoidPending, OtherTypes
<1>4. ASSUME NEW s \in Sale, EarnPoints(s) \/ Expire(s) \/ CreateTicket(s) \/ ServeTicket(s)
      PROVE  OtherTypes'
  BY <1>4 DEF EarnPoints, Expire, CreateTicket, ServeTicket, OtherTypes
<1>5. ASSUME NEW s \in Sale, ReapOne(s)
      PROVE  OtherTypes'
  BY <1>1, <1>5 DEF ReapOne, VoidPending, OtherTypes
<1>6. ASSUME NEW s \in Sale, NEW qty \in Refunds(s), NEW money \in 0 .. Total[s],
             NEW value \in [Line(s) -> 0 .. Total[s]], Refund(s, qty, value, money)
      PROVE  OtherTypes'
  <2>1. /\ CancelTicket(s) \/ UNCHANGED ticket
        /\ outbox' = outbox \cup {<<"refund_sale", s>>} /\ UNCHANGED <<overdue, stale>>
    BY <1>6 DEF Refund
  <2> QED BY <1>1, <2>1 DEF OtherTypes
<1>7. CASE ReapScan
  BY <1>7 DEF ReapScan, OtherTypes
<1>8. CASE UNCHANGED vars
  BY <1>8 DEF vars, OtherTypes
<1> QED BY <1>2, <1>3, <1>4, <1>5, <1>6, <1>7, <1>8 DEF Next

\* The shape of the tables, the recorded entries included.
THEOREM TypesHold == Spec => []TypeOK
<1>1. Init => OtherTypes
  BY DEF Init, OtherTypes
<1>2. StockInv /\ SaleInv /\ OtherTypes => TypeOK
  BY DEF StockInv, StockTypes, SaleInv, SettledTypes, OtherTypes, TypeOK
<1> QED BY <1>1, <1>2, OtherTypesStep, StockInvariant, PTL DEF Spec

\* What a product lost since opening is what its live sales took and refunds did
\* not bring back, and for an ingredient at most what the recipes of all sales
\* called for besides - for every route, cart and choice of entries, however
\* checkouts, voids, the reaper and partial refunds interleave.
THEOREM ShelfMatchesBooks == Spec => []BooksMatchShelf
<1>1. StockInv => BooksMatchShelf
  BY DEF StockInv
<1> QED BY <1>1, StockInvariant, PTL

\* adjust_stock_batch checks what all the lines of a sale take together, so no
\* location that may not goes below zero, though allocation looks at each line
\* on its own; voids and refunds only add.
THEOREM NothingOversold == Spec => []NoOverselling
<1>1. StockInv => NoOverselling
  BY DEF StockInv
<1> QED BY <1>1, StockInvariant, PTL

\* void_pending_sale puts every recorded unit back where it came from: with no
\* live sale left each location has exactly what it opened with.
THEOREM VoidsLeaveNoTrace == Spec => []LeavesNoTrace
<1>1. ASSUME StockInv, \A s \in Sale : ~Live(s), NEW p \in Tracked \ Ingredient
      PROVE  stock[p] = Opening[p]
  <2>1. IsFiniteSet(Sale) /\ p \in Product /\ stock \in [Product -> [Location -> Int]]
        /\ Opening \in [Product -> [Location -> Nat]]
    BY <1>1, AmountsAssumption, StockAssumption DEF StockInv, StockTypes
  <2>2. ASSUME NEW l \in Location PROVE stock[p][l] = Opening[p][l]
    <3> DEFINE f == [s \in Sale |-> Held(s, p, l)]
    <3>1. f \in [Sale -> Int] /\ \A s \in Sale : f[s] = 0
      BY <1>1 DEF Held, Live
    <3>2. Opening[p][l] - stock[p][l] = Sum(f)
      BY <1>1 DEF StockInv, PendingTrace, Live
    <3> HIDE DEF f
    <3>3. Sum(f) = 0
      BY <2>1, <3>1, SumOfZeros
    <3>4. Opening[p][l] \in Int /\ stock[p][l] \in Int
      BY <2>1
    <3> QED BY <3>2, <3>3, <3>4
  <2> QED BY <2>1, <2>2
<1>2. StockInv => LeavesNoTrace
  BY <1>1 DEF LeavesNoTrace
<1> QED BY <1>2, StockInvariant, PTL

=============================================================================
