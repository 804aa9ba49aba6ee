------------------------ MODULE CheckoutAttemptProofs --------------------------
(***************************************************************************)
(* Proofs about CheckoutAttempt for any number of taps and submissions and *)
(* any bound on the epochs.  The argument: the settlements of a basket     *)
(* fill the epochs without a gap, all but the last voided, so the count    *)
(* that replay_verdict takes is the next free epoch; a submission in       *)
(* flight carries a key whose predecessor is voided, and voids are final,  *)
(* so what it decided under the first lock still holds under the second.   *)
(***************************************************************************)
EXTENDS CheckoutAttempt, FiniteSetTheorems, TLAPS

\* The settlements of b fill the first m epochs, all but the last voided.
Prefix(b, m) ==
    /\ \A n \in 0 .. MaxEpoch : sale[<<b, n>>] # "none" <=> n < m
    /\ \A n \in 0 .. MaxEpoch : n + 1 < m => sale[<<b, n>>] = "voided"

Filled == \A b \in Baskets : \E m \in 0 .. (MaxEpoch + 1) : Prefix(b, m)

\* A re-key is only ever stamped by a submission of its basket.
RekeysOwned ==
    \A b \in Baskets, n \in 0 .. MaxEpoch :
        maker[<<b, n>>] # NoOne => Basket(maker[<<b, n>>]) = b

\* A basket is re-keyed only after the attempt's own key was used, by the
\* same basket only if that sale was voided.
BaseComesFirst(b) ==
    /\ sale[BaseKey] # "none"
    /\ b = Items /\ maker[BaseKey] \in Dialog => sale[BaseKey] = "voided"

RekeysFollowBase ==
    \A b \in Baskets, n \in 0 .. MaxEpoch :
        sale[<<b, n>>] # "none" => BaseComesFirst(b)

\* What a submission decided under the first lock
GoodStem(r) ==
    \/ stem[r] = BaseKey
    \/ \E n \in 0 .. MaxEpoch :
         /\ stem[r] = <<Basket(r), n>>
         /\ BaseComesFirst(Basket(r))
         /\ n > 0 => sale[<<Basket(r), n - 1>>] = "voided"

StemsGood == \A r \in Request : phase[r] # "idle" => GoodStem(r)

\* A sale of a tap means its cart is gone and nothing of it is in flight.
CartsConsumed ==
    \A r \in Tap :
        /\ phase[r] = "taken" => cart[r] = "taken"
        /\ cart[r] # "taken" \/ phase[r] = "taken"
               => \A k \in Key : maker[k] # r

Inv ==
    /\ TypeOK
    /\ RekeysOwned
    /\ Filled
    /\ RekeysFollowBase
    /\ StemsGood
    /\ CartsConsumed
    /\ CartSoldOnce

-----------------------------------------------------------------------------
(* Names                                                                   *)

\* The attempt's key is no re-key, and a request's basket is one.
LEMMA Names ==
    /\ BaseKey \in Key /\ BaseKey \notin Rekeys
    /\ \A r \in Request : Basket(r) \in Baskets
    /\ \A b \in Baskets, n \in 0 .. MaxEpoch : <<b, n>> \in Key
    /\ \A k \in Key : k # BaseKey =>
         \E b \in Baskets, n \in 0 .. MaxEpoch : k = <<b, n>>
    /\ NoOne \notin Request
    /\ \A r \in Request : r \in Tap \/ r \in Dialog
    /\ \A r \in Tap : Basket(r) = r /\ r \notin Dialog /\ r # Items
    /\ \A r \in Dialog : Basket(r) = Items
BY NamesAssumption DEF BaseKey, Key, Rekeys, Basket, Baskets, Request

\* Where the settled epochs are 0..m-1, count_rekey_settlements counts m.
LEMMA SettledIsPrefix ==
    ASSUME NEW b \in Baskets, NEW m \in 0 .. (MaxEpoch + 1),
           Prefix(b, m)
    PROVE  Settled(b) = m
<1>1. {n \in 0 .. MaxEpoch : sale[<<b, n>>] # "none"} = 0 .. (m - 1)
  BY NamesAssumption DEF Prefix
<1>2. Cardinality(0 .. (m - 1)) = m
  <2>1. CASE m = 0
    <3>1. 0 .. (m - 1) = {}
      BY <2>1
    <3> QED BY <3>1, <2>1, FS_EmptySet
  <2>2. CASE m > 0
    <3>1. 0 \in Int /\ m - 1 \in Int
      BY NamesAssumption
    <3>2. Cardinality(0 .. (m - 1)) = IF 0 > m - 1 THEN 0 ELSE (m - 1) - 0 + 1
      BY <3>1, FS_Interval
    <3> QED BY <3>2, <2>2, NamesAssumption
  <2> QED BY <2>1, <2>2, NamesAssumption
<1> QED BY <1>1, <1>2 DEF Settled

\* Only a voided or missing sale is not live.
LEMMA NotLive ==
    ASSUME TypeOK, NEW k \in Key, ~Live(k)
    PROVE  sale[k] \in {"none", "voided"}
BY DEF TypeOK, Live

-----------------------------------------------------------------------------
(* Steps that make no sale: stems keep what they were promised, because a  *)
(* sale that is there stays there and a voided one stays voided.           *)

\* What a step that only moves sales along leaves of the promises
LEMMA StemKept ==
    ASSUME TypeOK, NEW r \in Request, GoodStem(r), stem'[r] = stem[r],
           maker'[BaseKey] = maker[BaseKey] \/ maker[BaseKey] = NoOne,
           \A k \in Key : /\ sale[k] # "none" => sale'[k] # "none"
                          /\ sale[k] = "voided" => sale'[k] = "voided"
    PROVE  GoodStem(r)'
<1>1. CASE stem[r] = BaseKey
  BY <1>1 DEF GoodStem, BaseKey
<1>2. ASSUME NEW n \in 0 .. MaxEpoch,
             stem[r] = <<Basket(r), n>>,
             BaseComesFirst(Basket(r)),
             n > 0 => sale[<<Basket(r), n - 1>>] = "voided"
      PROVE  GoodStem(r)'
  <2>1. BaseKey \in Key
    BY Names
  <2>2. maker[BaseKey] # NoOne
    BY <1>2, <2>1 DEF BaseComesFirst, TypeOK
  <2>3. BaseComesFirst(Basket(r))'
    BY <1>2, <2>1, <2>2 DEF BaseComesFirst, Basket, BaseKey
  <2>4. n > 0 => sale'[<<Basket(r), n - 1>>] = "voided"
    <3>1. n > 0 => <<Basket(r), n - 1>> \in Key
      BY Names, NamesAssumption
    <3> QED BY <3>1, <1>2
  <2>5. stem'[r] = <<Basket(r), n>>
    BY <1>2
  <2> QED BY <2>3, <2>4, <2>5 DEF GoodStem, Basket
<1> QED BY <1>1, <1>2 DEF GoodStem

\* A step that makes no sale and only moves sales along
Moves ==
    /\ maker' = maker
    /\ \A k \in Key : /\ sale[k] = "none" <=> sale'[k] = "none"
                      /\ sale[k] = "voided" => sale'[k] = "voided"

\* Such a step keeps the settlements where they are.
LEMMA MovesKeepSales ==
    ASSUME Inv, Moves
    PROVE  RekeysOwned' /\ Filled' /\ RekeysFollowBase' /\ CartSoldOnce'
<1>1. RekeysOwned'
  BY DEF Inv, Moves, RekeysOwned, Basket
<1>2. Filled'
  <2> SUFFICES ASSUME NEW b \in Baskets
               PROVE  \E m \in 0 .. (MaxEpoch + 1) : Prefix(b, m)'
    BY DEF Filled
  <2>1. PICK m \in 0 .. (MaxEpoch + 1) : Prefix(b, m)
    BY DEF Inv, Filled
  <2>2. \A n \in 0 .. MaxEpoch : <<b, n>> \in Key
    BY Names
  <2>3. Prefix(b, m)'
    BY <2>1, <2>2 DEF Moves, Prefix
  <2> QED BY <2>3
<1>3. RekeysFollowBase'
  <2> SUFFICES ASSUME NEW b \in Baskets, NEW n \in 0 .. MaxEpoch,
                      sale'[<<b, n>>] # "none"
               PROVE  BaseComesFirst(b)'
    BY DEF RekeysFollowBase
  <2>1. <<b, n>> \in Key /\ BaseKey \in Key
    BY Names
  <2>2. BaseComesFirst(b)
    BY <2>1 DEF Inv, Moves, RekeysFollowBase
  <2> QED BY <2>1, <2>2 DEF Moves, BaseComesFirst, BaseKey
<1>4. CartSoldOnce'
  BY DEF Inv, Moves, CartSoldOnce, SalesOf, Basket
<1> QED BY <1>1, <1>2, <1>3, <1>4

-----------------------------------------------------------------------------
LEMMA InvInit == Init => Inv
<1> SUFFICES ASSUME Init PROVE Inv
  OBVIOUS
<1> USE DEF Init
<1>1. TypeOK
  BY Names DEF TypeOK
<1>2. RekeysOwned /\ RekeysFollowBase
  BY Names DEF RekeysOwned, RekeysFollowBase
<1>3. Filled
  <2>1. \A b \in Baskets : Prefix(b, 0)
    BY Names, NamesAssumption DEF Prefix
  <2>2. 0 \in 0 .. (MaxEpoch + 1)
    BY NamesAssumption
  <2> QED BY <2>1, <2>2 DEF Filled
<1>4. StemsGood
  BY DEF StemsGood
<1>5. CartsConsumed /\ CartSoldOnce
  BY Names DEF CartsConsumed, CartSoldOnce, SalesOf, Request
<1> QED BY <1>1, <1>2, <1>3, <1>4, <1>5 DEF Inv

\* The first lock: the key it chooses is free, and its predecessor is voided.
LEMMA DecideStep ==
    ASSUME Inv, NEW r \in Request, Decide(r)
    PROVE  Inv'
<1> USE DEF Decide
<1>a. Moves
  BY DEF Moves
<1>1. TypeOK'
  <2>1. NextKey(r) \in Key \/ Settled(Basket(r)) > MaxEpoch
    <3>1. PICK m \in 0 .. (MaxEpoch + 1) : Prefix(Basket(r), m)
      BY Names DEF Inv, Filled
    <3>2. Settled(Basket(r)) = m
      BY <3>1, Names, SettledIsPrefix
    <3> QED BY <3>2, Names, NamesAssumption DEF NextKey
  <2>2. CASE Replayed(r)
    BY <2>2 DEF Inv, TypeOK
  <2>3. CASE ~Replayed(r)
    <3>1. PICK m \in 0 .. (MaxEpoch + 1) : Prefix(Basket(r), m)
      BY Names DEF Inv, Filled
    <3>2. Settled(Basket(r)) = m
      BY <3>1, Names, SettledIsPrefix
    <3>3. NextKey(r) \in Key
      BY <2>1, <2>3, <3>2, NamesAssumption
    <3> QED BY <2>3, <3>3 DEF Inv, TypeOK
  <2> QED BY <2>2, <2>3
<1>2. StemsGood'
  <2> SUFFICES ASSUME NEW q \in Request, phase'[q] # "idle"
               PROVE  GoodStem(q)'
    BY DEF StemsGood
  <2>1. \A k \in Key : /\ sale[k] # "none" => sale'[k] # "none"
                       /\ sale[k] = "voided" => sale'[k] = "voided"
    OBVIOUS
  <2>2. CASE q # r \/ Replayed(r)
    <3>1. GoodStem(q) /\ stem'[q] = stem[q]
      BY <2>2 DEF Inv, TypeOK, StemsGood
    <3> QED BY <3>1, <2>1, StemKept DEF Inv
  <2>3. CASE q = r /\ ~Replayed(r)
    <3>1. PICK m \in 0 .. (MaxEpoch + 1) : Prefix(Basket(r), m)
      BY Names DEF Inv, Filled
    <3>2. Settled(Basket(r)) = m /\ m <= MaxEpoch
      BY <2>3, <3>1, Names, SettledIsPrefix
    <3>3. stem'[r] = NextKey(r)
      BY <2>3 DEF Inv, TypeOK
    <3>4. CASE m = 0 /\ sale[BaseKey] = "none"
      BY <2>3, <3>2, <3>3, <3>4 DEF NextKey, GoodStem, BaseKey
    <3>5. CASE ~(m = 0 /\ sale[BaseKey] = "none")
      <4>1. stem'[r] = <<Basket(r), m>>
        BY <3>2, <3>3, <3>5 DEF NextKey
      <4>2. m > 0 => sale[<<Basket(r), m - 1>>] = "voided"
        <5>1. SUFFICES ASSUME m > 0
                       PROVE  sale[<<Basket(r), m - 1>>] = "voided"
          OBVIOUS
        <5>2. m - 1 \in 0 .. MaxEpoch
          BY <5>1, <3>2, NamesAssumption
        <5>3. <<Basket(r), m - 1>> \in Key
          BY <5>2, Names
        <5>4. sale[<<Basket(r), m - 1>>] # "none"
          BY <5>2, <3>1 DEF Prefix
        <5>5. ~Live(<<Basket(r), m - 1>>)
          BY <5>1, <3>2, <2>3 DEF Replayed, OwnReceipt
        <5> QED BY <5>3, <5>4, <5>5, NotLive DEF Inv
      <4>3. BaseComesFirst(Basket(r))
        <5>1. CASE m > 0
          <6>1. sale[<<Basket(r), 0>>] # "none"
            BY <5>1, <3>1, NamesAssumption DEF Prefix
          <6> QED BY <6>1, Names, NamesAssumption DEF Inv, RekeysFollowBase
        <5>2. CASE m = 0
          <6>1. sale[BaseKey] # "none"
            BY <5>2, <3>5
          <6>2. r \in Dialog => ~Live(BaseKey)
            BY <2>3, <5>2, <3>2, Names DEF Replayed, AttemptReceipt
          <6>3. Basket(r) = Items => r \in Dialog
            BY Names
          <6> QED BY <6>1, <6>2, <6>3, Names, NotLive DEF Inv, BaseComesFirst
        <5> QED BY <5>1, <5>2, NamesAssumption
      <4>4. m \in 0 .. MaxEpoch
        BY <3>2, NamesAssumption
      <4> QED BY <2>3, <4>1, <4>2, <4>3, <4>4
             DEF GoodStem, BaseComesFirst, Basket, BaseKey
    <3> QED BY <3>4, <3>5
  <2> QED BY <2>2, <2>3
<1>3. CartsConsumed'
  <2>1. \A q \in Tap : q \in Request /\ (phase'[q] = "taken" => phase[q] = "taken")
    BY DEF Inv, TypeOK, Request
  <2>2. \A q \in Tap : phase[q] = "taken" => phase'[q] = "taken"
    BY DEF Inv, TypeOK, Request
  <2> QED BY <2>1, <2>2 DEF Inv, CartsConsumed
<1> QED BY <1>a, <1>1, <1>2, <1>3, MovesKeepSales DEF Inv

\* Carts that are built, taken or dropped, sales that are finalized or voided:
\* no promise is broken.
LEMMA MovesStep ==
    ASSUME Inv, Moves, stem' = stem, TypeOK',
           \A q \in Request : phase'[q] # "idle" => phase[q] # "idle",
           \A q \in Tap : /\ phase'[q] = "taken" => cart'[q] = "taken"
                          /\ \/ cart'[q] # "taken" \/ phase'[q] = "taken"
                                  => cart[q] # "taken" \/ phase[q] = "taken"
    PROVE  Inv'
<1>1. StemsGood'
  <2> SUFFICES ASSUME NEW q \in Request, phase'[q] # "idle"
               PROVE  GoodStem(q)'
    BY DEF StemsGood
  <2>1. GoodStem(q)
    BY DEF Inv, StemsGood
  <2> QED BY <2>1, StemKept DEF Moves, Inv
<1>2. CartsConsumed'
  BY DEF Inv, CartsConsumed, Moves
<1> QED BY <1>1, <1>2, MovesKeepSales DEF Inv

\* What a re-key in flight promises
LEMMA RekeyStem ==
    ASSUME NEW r \in Request, GoodStem(r),
           NEW b \in Baskets, NEW n \in 0 .. MaxEpoch, stem[r] = <<b, n>>
    PROVE  /\ Basket(r) = b
           /\ BaseComesFirst(b)
           /\ n > 0 => sale[<<b, n - 1>>] = "voided"
<1>1. stem[r] # BaseKey
  BY NamesAssumption DEF BaseKey, Baskets, Request
<1>2. PICK m \in 0 .. MaxEpoch :
        /\ stem[r] = <<Basket(r), m>>
        /\ BaseComesFirst(Basket(r))
        /\ m > 0 => sale[<<Basket(r), m - 1>>] = "voided"
  BY <1>1 DEF GoodStem
<1>3. Basket(r) = b /\ m = n
  BY <1>2
<1>4. BaseComesFirst(b)
  BY <1>2, <1>3 DEF BaseComesFirst
<1> QED BY <1>2, <1>3, <1>4

\* The settlement lock: a free key is the next epoch of its basket.
LEMMA SettleStep ==
    ASSUME Inv, NEW r \in Request, Settle(r)
    PROVE  Inv'
<1> USE DEF Settle
<1> DEFINE k == stem[r]
<1>0. /\ k \in Key /\ phase[r] # "idle" /\ GoodStem(r)
      /\ r \in Tap => phase[r] = "taken"
  BY DEF Inv, TypeOK, StemsGood, MaySettle
<1>1. CASE sale[k] # "none"
  <2>1. TypeOK'
    BY <1>1 DEF Inv, TypeOK
  <2>2. Moves
    BY <1>1 DEF Moves
  <2>3. \A q \in Request : phase'[q] # "idle" => phase[q] # "idle"
    BY DEF Inv, TypeOK
  <2>4. \A q \in Tap : phase'[q] = "taken" => phase[q] = "taken" /\ q # r
    BY DEF Inv, TypeOK, Request
  <2>5. \A q \in Tap : phase[q] = "taken" => cart[q] = "taken"
    BY DEF Inv, CartsConsumed
  <2> QED BY <2>1, <2>2, <2>3, <2>4, <2>5, MovesStep
<1>2. CASE sale[k] = "none"
  <2>1. /\ sale' = [sale EXCEPT ![k] = IF r \in Tap THEN "pending" ELSE "completed"]
        /\ maker' = [maker EXCEPT ![k] = r]
        /\ phase' = [phase EXCEPT ![r] = "idle"]
        /\ cart' = cart /\ stem' = stem
    BY <1>2
  <2> HIDE DEF Settle, k
  <2>2. /\ sale'[k] \in {"pending", "completed"} /\ maker'[k] = r
        /\ maker[k] = NoOne
        /\ \A j \in Key : j # k => sale'[j] = sale[j] /\ maker'[j] = maker[j]
    BY <2>1, <1>0, <1>2 DEF Inv, TypeOK, k
  <2>3. TypeOK'
    BY <2>1, <2>2, <1>0, Names DEF Inv, TypeOK, Request
  <2>4. \A j \in Key : /\ sale[j] # "none" => sale'[j] # "none"
                       /\ sale[j] = "voided" => sale'[j] = "voided"
    BY <2>2, <1>2 DEF k
  <2>5. maker'[BaseKey] = maker[BaseKey] \/ maker[BaseKey] = NoOne
    BY <2>2, Names
  <2>6. StemsGood'
    <3> SUFFICES ASSUME NEW q \in Request, phase'[q] # "idle"
                 PROVE  GoodStem(q)'
      BY DEF StemsGood
    <3>1. GoodStem(q) /\ stem'[q] = stem[q]
      BY <2>1 DEF Inv, TypeOK, StemsGood
    <3> QED BY <3>1, <2>4, <2>5, StemKept DEF Inv
  <2>7. RekeysOwned'
    <3> SUFFICES ASSUME NEW b \in Baskets, NEW n \in 0 .. MaxEpoch,
                        maker'[<<b, n>>] # NoOne
                 PROVE  Basket(maker'[<<b, n>>]) = b
      BY DEF RekeysOwned, Basket
    <3>1. CASE <<b, n>> = k
      <4>1. Basket(r) = b
        BY <3>1, <1>0, RekeyStem DEF k
      <4> QED BY <3>1, <4>1, <2>2
    <3>2. CASE <<b, n>> # k
      BY <3>2, <2>2, Names DEF Inv, RekeysOwned
    <3> QED BY <3>1, <3>2
  <2>8. Filled'
    <3> SUFFICES ASSUME NEW b \in Baskets
                 PROVE  \E m \in 0 .. (MaxEpoch + 1) : Prefix(b, m)'
      BY DEF Filled
    <3>1. PICK m \in 0 .. (MaxEpoch + 1) : Prefix(b, m)
      BY DEF Inv, Filled
    <3>2. CASE \A n \in 0 .. MaxEpoch : <<b, n>> # k
      <4>1. Prefix(b, m)'
        BY <3>1, <3>2, <2>2, Names DEF Prefix
      <4> QED BY <4>1
    <3>3. CASE \E n \in 0 .. MaxEpoch : <<b, n>> = k
      <4>1. PICK n \in 0 .. MaxEpoch : <<b, n>> = k
        BY <3>3
      <4>3. n > 0 => sale[<<b, n - 1>>] = "voided"
        BY <4>1, <1>0, RekeyStem DEF k
      <4>4. n = m
        <5>1. ~(n < m)
          BY <4>1, <3>1, <1>2 DEF Prefix, k
        <5>2. n > 0 => n - 1 < m
          <6> SUFFICES ASSUME n > 0 PROVE n - 1 < m
            OBVIOUS
          <6>1. n - 1 \in 0 .. MaxEpoch
            BY NamesAssumption
          <6>2. sale[<<b, n - 1>>] # "none"
            BY <4>3
          <6> QED BY <6>1, <6>2, <3>1 DEF Prefix
        <5> QED BY <5>1, <5>2, NamesAssumption
      <4>5. \A j \in 0 .. MaxEpoch :
              /\ j # m => sale'[<<b, j>>] = sale[<<b, j>>]
              /\ j = m => sale'[<<b, j>>] # "none"
        <5>1. \A j \in 0 .. MaxEpoch : j # m => <<b, j>> # k /\ <<b, j>> \in Key
          BY <4>1, <4>4, Names
        <5> QED BY <5>1, <4>1, <4>4, <2>2
      <4>6. \A j \in 0 .. MaxEpoch : sale'[<<b, j>>] # "none" <=> j < m + 1
        BY <4>5, <3>1, NamesAssumption DEF Prefix
      <4>7. \A j \in 0 .. MaxEpoch : j + 1 < m + 1 => sale'[<<b, j>>] = "voided"
        <5> SUFFICES ASSUME NEW j \in 0 .. MaxEpoch, j + 1 < m + 1
                     PROVE  sale'[<<b, j>>] = "voided"
          OBVIOUS
        <5>1. j # m /\ (j + 1 < m \/ j = m - 1)
          BY NamesAssumption
        <5> QED BY <5>1, <4>3, <4>4, <4>5, <3>1, NamesAssumption DEF Prefix
      <4>8. Prefix(b, m + 1)'
        BY <4>6, <4>7 DEF Prefix
      <4>9. m + 1 \in 0 .. (MaxEpoch + 1)
        BY <4>4, NamesAssumption
      <4> QED BY <4>8, <4>9
    <3> QED BY <3>2, <3>3
  <2>9. RekeysFollowBase'
    <3> SUFFICES ASSUME NEW b \in Baskets, NEW n \in 0 .. MaxEpoch,
                        sale'[<<b, n>>] # "none"
                 PROVE  BaseComesFirst(b)'
      BY DEF RekeysFollowBase
    <3>1. BaseComesFirst(b)
      <4>1. CASE <<b, n>> = k
        BY <4>1, <1>0, RekeyStem DEF k
      <4>2. CASE <<b, n>> # k
        <5>1. sale[<<b, n>>] # "none"
          BY <4>2, <2>2, Names
        <5> QED BY <5>1 DEF Inv, RekeysFollowBase
      <4> QED BY <4>1, <4>2
    <3>2. BaseKey # k
      BY <3>1, <1>2 DEF BaseComesFirst, k
    <3>3. sale'[BaseKey] = sale[BaseKey] /\ maker'[BaseKey] = maker[BaseKey]
      BY <3>2, <2>2, Names
    <3> QED BY <3>1, <3>3 DEF BaseComesFirst, BaseKey
  <2>10. CartsConsumed' /\ CartSoldOnce'
    <3>1. \A q \in Tap : q # r => phase'[q] = phase[q]
      BY <2>1 DEF Inv, TypeOK, Request
    <3>2. r \in Tap => /\ cart[r] = "taken" /\ phase'[r] # "taken"
                       /\ \A j \in Key : maker[j] # r
      BY <1>0, <2>1 DEF Inv, TypeOK, CartsConsumed, Request
    <3>3. CartsConsumed'
      <4> SUFFICES ASSUME NEW q \in Tap
                   PROVE  /\ phase'[q] = "taken" => cart'[q] = "taken"
                          /\ cart'[q] # "taken" \/ phase'[q] = "taken"
                               => \A j \in Key : maker'[j] # q
        BY DEF CartsConsumed
      <4>1. CASE q = r
        BY <4>1, <3>2, <2>1
      <4>2. CASE q # r
        BY <4>2, <3>1, <2>1, <2>2 DEF Inv, CartsConsumed
      <4> QED BY <4>1, <4>2
    <3>4. CartSoldOnce'
      <4> SUFFICES ASSUME NEW q \in Tap, NEW i \in Key, NEW j \in Key,
                          maker'[i] # NoOne, Basket(maker'[i]) = q,
                          maker'[j] # NoOne, Basket(maker'[j]) = q
                   PROVE  i = j
        BY DEF CartSoldOnce, SalesOf, Basket
      <4>1. maker'[i] = q /\ maker'[j] = q
        BY <2>3, Names DEF TypeOK
      <4>2. CASE q = r
        BY <4>1, <4>2, <3>2, <2>2
      <4>3. CASE q # r
        <5>1. maker[i] = q /\ maker[j] = q
          BY <4>1, <4>3, <2>2
        <5>2. q # NoOne /\ Basket(q) = q
          BY Names DEF Request
        <5>3. i \in SalesOf(q) /\ j \in SalesOf(q)
          BY <5>1, <5>2 DEF SalesOf
        <5> QED BY <5>3 DEF Inv, CartSoldOnce
      <4> QED BY <4>2, <4>3
    <3> QED BY <3>3, <3>4
  <2> QED BY <2>3, <2>6, <2>7, <2>8, <2>9, <2>10 DEF Inv
<1> QED BY <1>1, <1>2

LEMMA InvStep == Inv /\ [Next]_vars => Inv'
<1> SUFFICES ASSUME Inv, [Next]_vars PROVE Inv'
  OBVIOUS
<1>1. ASSUME NEW r \in Request, BuildCart(r) PROVE Inv'
  <2>1. TypeOK' /\ Moves
    BY <1>1 DEF BuildCart, Inv, TypeOK, Moves
  <2> QED BY <1>1, <2>1, MovesStep DEF BuildCart, Inv, TypeOK, CartsConsumed
<1>2. ASSUME NEW r \in Request, Decide(r) PROVE Inv'
  BY <1>2, DecideStep
<1>3. ASSUME NEW r \in Request, TakeCart(r) PROVE Inv'
  <2>1. TypeOK' /\ Moves
    BY <1>3 DEF TakeCart, Inv, TypeOK, Moves
  <2>2. \A q \in Request : phase'[q] # "idle" => phase[q] # "idle"
    BY <1>3 DEF TakeCart, Inv, TypeOK
  <2>3. \A q \in Tap : /\ phase'[q] = "taken" => cart'[q] = "taken"
                       /\ \/ cart'[q] # "taken" \/ phase'[q] = "taken"
                               => cart[q] # "taken" \/ phase[q] = "taken"
    BY <1>3 DEF TakeCart, Inv, TypeOK, CartsConsumed, Request
  <2> QED BY <1>3, <2>1, <2>2, <2>3, MovesStep DEF TakeCart
<1>4. ASSUME NEW r \in Request, Refuse(r) PROVE Inv'
  <2>1. TypeOK' /\ Moves
    BY <1>4 DEF Refuse, Inv, TypeOK, Moves
  <2>2. \A q \in Request : phase'[q] # "idle" => phase[q] # "idle"
    BY <1>4 DEF Refuse, Inv, TypeOK
  <2>3. \A q \in Tap : /\ phase'[q] = "taken" => cart'[q] = "taken"
                       /\ \/ cart'[q] # "taken" \/ phase'[q] = "taken"
                               => cart[q] # "taken" \/ phase[q] = "taken"
    BY <1>4 DEF Refuse, Inv, TypeOK, CartsConsumed, Request
  <2> QED BY <1>4, <2>1, <2>2, <2>3, MovesStep DEF Refuse
<1>5. ASSUME NEW r \in Request, Settle(r) PROVE Inv'
  BY <1>5, SettleStep
<1>6. ASSUME NEW k \in Key, Finalize(k) \/ Void(k) PROVE Inv'
  <2>1. TypeOK' /\ Moves
    BY <1>6 DEF Finalize, Void, Live, Inv, TypeOK, Moves
  <2> QED BY <1>6, <2>1, MovesStep DEF Finalize, Void, Inv, CartsConsumed
<1>7. CASE UNCHANGED vars
  <2>1. TypeOK' /\ Moves
    BY <1>7 DEF vars, Inv, TypeOK, Moves
  <2> QED BY <1>7, <2>1, MovesStep DEF vars, Inv, CartsConsumed
<1> QED BY <1>1, <1>2, <1>3, <1>4, <1>5, <1>6, <1>7 DEF Next

LEMMA Invariance == Spec => []Inv
<1>1. Init => Inv
  BY InvInit
<1>2. Inv /\ [Next]_vars => Inv'
  BY InvStep
<1> QED BY <1>1, <1>2, PTL DEF Spec

-----------------------------------------------------------------------------
\* replay_verdict and the unique index together: however submissions of one
\* basket - one cart, or the dialog's lines - are repeated, raced, refused and
\* voided, one of its sales at most is live.  (Of an attempt two may be: each
\* new cart is a basket of its own.)
THEOREM OneLiveSale == Spec => []OneLiveSalePerBasket
<1>1. Inv => OneLiveSalePerBasket
  <2> SUFFICES ASSUME Inv, NEW b \in Baskets,
                      NEW j \in SalesOf(b), NEW k \in SalesOf(b), Live(j), Live(k)
               PROVE  j = k
    BY DEF OneLiveSalePerBasket
  <2>1. CASE b \in Tap
    BY <2>1 DEF Inv, CartSoldOnce
  <2>2. CASE b = Items
    <3>1. /\ j \in Key /\ k \in Key
          /\ maker[j] \in Dialog /\ maker[k] \in Dialog
      BY <2>2, Names, NamesAssumption DEF Inv, TypeOK, SalesOf, Request, Basket
    <3>2. ASSUME NEW i \in Key, i # BaseKey, maker[i] \in Dialog
          PROVE  \E n \in 0 .. MaxEpoch : i = <<Items, n>>
      <4>1. PICK c \in Baskets, n \in 0 .. MaxEpoch : i = <<c, n>>
        BY <3>2, Names
      <4>2. maker[i] # NoOne /\ Basket(maker[i]) = Items
        BY <3>2, Names DEF Request
      <4>3. c = Items
        BY <4>1, <4>2 DEF Inv, RekeysOwned
      <4> QED BY <4>1, <4>3
    <3>3. Items \in Baskets
      BY DEF Baskets
    <3>4. ASSUME NEW m \in 0 .. MaxEpoch, maker[BaseKey] \in Dialog,
                 Live(<<Items, m>>), Live(BaseKey)
          PROVE  FALSE
      BY <3>3, <3>4 DEF Inv, RekeysFollowBase, BaseComesFirst, Live
    <3>5. ASSUME NEW m \in 0 .. MaxEpoch, NEW n \in 0 .. MaxEpoch,
                 Live(<<Items, m>>), Live(<<Items, n>>)
          PROVE  m = n
      <4>1. PICK p \in 0 .. (MaxEpoch + 1) : Prefix(Items, p)
        BY <3>3 DEF Inv, Filled
      <4>2. m < p /\ n < p /\ ~(m + 1 < p) /\ ~(n + 1 < p)
        BY <4>1, <3>5 DEF Prefix, Live
      <4> QED BY <4>2, NamesAssumption
    <3>6. CASE j = BaseKey /\ k = BaseKey
      BY <3>6
    <3>7. CASE j = BaseKey /\ k # BaseKey
      BY <3>7, <3>1, <3>2, <3>4
    <3>8. CASE j # BaseKey /\ k = BaseKey
      BY <3>8, <3>1, <3>2, <3>4
    <3>9. CASE j # BaseKey /\ k # BaseKey
      <4>1. PICK m \in 0 .. MaxEpoch : j = <<Items, m>>
        BY <3>9, <3>1, <3>2
      <4>2. PICK n \in 0 .. MaxEpoch : k = <<Items, n>>
        BY <3>9, <3>1, <3>2
      <4> QED BY <4>1, <4>2, <3>5
    <3> QED BY <3>6, <3>7, <3>8, <3>9
  <2> QED BY <2>1, <2>2 DEF Baskets
<1> QED BY <1>1, Invariance, PTL

\* Lock 1 of complete_sale_scoped sells a cart once and for all.
THEOREM CartsSellOnce == Spec => []CartSoldOnce
<1>1. Inv => CartSoldOnce
  BY DEF Inv
<1> QED BY <1>1, Invariance, PTL

\* count_rekey_settlements doubles as the next free epoch.
THEOREM DenseEpochs == Spec => []EpochsAreDense
<1>1. Inv => EpochsAreDense
  <2> SUFFICES ASSUME Inv, NEW b \in Baskets, NEW n \in 1 .. MaxEpoch,
                      sale[<<b, n>>] # "none"
               PROVE  sale[<<b, n - 1>>] = "voided"
    BY DEF EpochsAreDense
  <2>1. PICK m \in 0 .. (MaxEpoch + 1) : Prefix(b, m)
    BY DEF Inv, Filled
  <2>2. n < m
    BY <2>1, NamesAssumption DEF Prefix
  <2>3. n - 1 \in 0 .. MaxEpoch /\ (n - 1) + 1 < m
    BY <2>2, NamesAssumption
  <2> QED BY <2>1, <2>3 DEF Prefix
<1> QED BY <1>1, Invariance, PTL

\* The types of the tables.
THEOREM TypesHold == Spec => []TypeOK
<1>1. Inv => TypeOK
  BY DEF Inv
<1> QED BY <1>1, Invariance, PTL

\* The unique index on payments.idempotency_key never lets a key be re-pointed.
THEOREM ReceiptsAreStable == Spec => ReceiptsStay
<1>1. Inv /\ [Next]_vars => [\A k \in Key : maker[k] # NoOne => maker'[k] = maker[k]]_vars
  <2> SUFFICES ASSUME Inv, Next, NEW k \in Key, maker[k] # NoOne
               PROVE  maker'[k] = maker[k]
    OBVIOUS
  <2>1. ASSUME NEW r \in Request, Settle(r) PROVE maker'[k] = maker[k]
    BY <2>1 DEF Settle, Inv, TypeOK
  <2>2. CASE \E r \in Request : BuildCart(r) \/ Decide(r) \/ TakeCart(r) \/ Refuse(r)
    BY <2>2 DEF BuildCart, Decide, TakeCart, Refuse
  <2>3. CASE \E j \in Key : Finalize(j) \/ Void(j)
    BY <2>3 DEF Finalize, Void
  <2> QED BY <2>1, <2>2, <2>3 DEF Next
<1> QED BY <1>1, Invariance, PTL DEF Spec, ReceiptsStay

=============================================================================
