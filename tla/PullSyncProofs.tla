---------------------------- MODULE PullSyncProofs ----------------------------
(***************************************************************************)
(* Theorems about PullSync for every set of items, page size and retry     *)
(* budget: its type invariant, the exactness of the receipt ledger when    *)
(* effect keys name mutations, and the safety of the pull anchor when rows *)
(* reach the server in order.                                              *)
(***************************************************************************)
EXTENDS PullSync, FiniteSetTheorems, TLAPS

(* Facts about finite sets of numbers and pages                            *)

\* The smallest number of a set of naturals, as OldestCreated takes it.
LEMMA MinNat ==
    ASSUME NEW S \in SUBSET Nat, S # {}
    PROVE  Min(S) \in S /\ \A y \in S : Min(S) <= y
<1>1. \E x \in S : \A y \in S : <<y, x>> \notin OpToRel(<, Nat)
  BY WFMin, NatLessThanWellFounded, Zenon
<1>2. \E x \in S : \A y \in S : ~(y < x)
  BY <1>1 DEF OpToRel
<1>3. \E x \in S : \A y \in S : x <= y
  BY <1>2
<1>. QED
  BY <1>3 DEF Min

\* The last item of a finite set, as the cursor takes it.
LEMMA LastOfIsLast ==
    ASSUME NEW S \in SUBSET Item, S # {}
    PROVE  LastOf(S) \in S /\ \A j \in S : j = LastOf(S) \/ Before(j, LastOf(S))
<1>. DEFINE After(i) == {j \in S : Before(i, j)}
            Ranks == {Cardinality(After(i)) : i \in S}
<1>1. IsFiniteSet(S)
  BY FS_Subset, ConstantsAssumption
<1>2. \A i \in S : IsFiniteSet(After(i)) /\ Cardinality(After(i)) \in Nat
  BY <1>1, FS_Subset, FS_CardinalityType
<1>3. PICK i \in S : \A j \in S : Cardinality(After(i)) <= Cardinality(After(j))
  <2>1. Ranks \in SUBSET Nat /\ Ranks # {}
    BY <1>2
  <2>2. Min(Ranks) \in Ranks /\ \A r \in Ranks : Min(Ranks) <= r
    BY <2>1, MinNat
  <2>. QED
    BY <2>2
<1>4. \A j \in S : j = i \/ Before(j, i)
  <2>1. SUFFICES ASSUME NEW j \in S, j # i, ~Before(j, i) PROVE FALSE
    OBVIOUS
  <2>2. Before(i, j)
    BY <2>1, ConstantsAssumption DEF Before
  <2>3. After(j) \subseteq After(i) /\ After(j) # After(i)
    <3>1. \A k \in S : Before(j, k) => Before(i, k)
      BY <2>2, ConstantsAssumption DEF Before
    <3>2. j \in After(i) /\ j \notin After(j)
      BY <2>2, ConstantsAssumption DEF Before
    <3>. QED
      BY <3>1, <3>2
  <2>4. Cardinality(After(j)) < Cardinality(After(i))
    BY <2>3, <1>2, FS_Subset
  <2>5. /\ Cardinality(After(i)) \in Nat /\ Cardinality(After(j)) \in Nat
        /\ Cardinality(After(i)) <= Cardinality(After(j))
    BY <1>2, <1>3
  <2>. HIDE DEF After
  <2>. QED
    BY <2>4, <2>5
<1>. QED
  BY <1>4 DEF LastOf

\* The largest created_at of a page, as the new anchor takes it.
LEMMA MaxCreated ==
    ASSUME NEW S \in SUBSET Item, S # {}
    PROVE  /\ \E j \in S : Max({Created[i] : i \in S}) = Created[j]
           /\ \A i \in S : Created[i] <= Max({Created[j] : j \in S})
<1>. DEFINE T == {Created[i] : i \in S}
<1>1. LastOf(S) \in S /\ \A j \in S : Created[j] <= Created[LastOf(S)]
  <2>1. LastOf(S) \in S /\ \A j \in S : j = LastOf(S) \/ Before(j, LastOf(S))
    BY LastOfIsLast
  <2>2. \A j \in S : Created[j] \in Nat
    BY ConstantsAssumption
  <2>3. ASSUME NEW j \in S PROVE Created[j] <= Created[LastOf(S)]
    BY <2>1, <2>2 DEF Before
  <2>. QED
    BY <2>1, <2>3
<1>2. \E x \in T : \A y \in T : x >= y
  <2>1. Created[LastOf(S)] \in T
    BY <1>1
  <2>2. \A y \in T : Created[LastOf(S)] >= y
    BY <1>1, ConstantsAssumption
  <2>. QED
    BY <2>1, <2>2
<1>3. Max(T) \in T /\ \A y \in T : Max(T) >= y
  BY <1>2 DEF Max
<1>4. \A i \in S : Created[i] \in T /\ Created[i] \in Nat
  BY ConstantsAssumption
<1>. QED
  BY <1>3, <1>4, ConstantsAssumption

\* A page is a prefix of the rows in their order.
LEMMA FirstPageIsPrefix ==
    ASSUME NEW rows \in SUBSET Item,
           NEW j \in FirstPage(rows), NEW i \in rows \ FirstPage(rows)
    PROVE  Before(j, i)
<1>. DEFINE Ahead(k) == {l \in rows : Before(l, k)}
<1>1. SUFFICES ASSUME ~Before(j, i) PROVE FALSE
  OBVIOUS
<1>2. j \in rows /\ Cardinality(Ahead(j)) < PageSize
  BY DEF FirstPage
<1>3. Before(i, j)
  BY <1>1, <1>2, ConstantsAssumption DEF Before
<1>4. Ahead(i) \subseteq Ahead(j)
  <2>1. \A l \in rows : Before(l, i) => Before(l, j)
    BY <1>2, <1>3, ConstantsAssumption DEF Before
  <2>. QED
    BY <2>1
<1>5. IsFiniteSet(Ahead(j))
  BY FS_Subset, ConstantsAssumption
<1>6. /\ Cardinality(Ahead(i)) <= Cardinality(Ahead(j))
      /\ Cardinality(Ahead(i)) \in Nat /\ Cardinality(Ahead(j)) \in Nat
  BY <1>4, <1>5, FS_Subset, FS_CardinalityType
<1>7. Cardinality(Ahead(i)) < PageSize
  BY <1>2, <1>6, ConstantsAssumption
<1>. QED
  BY <1>7 DEF FirstPage

\* A page of some rows is not empty.
LEMMA FirstPageNonEmpty ==
    ASSUME NEW rows \in SUBSET Item, rows # {}
    PROVE  FirstPage(rows) # {}
<1>. DEFINE Ahead(k) == {l \in rows : Before(l, k)}
            Ranks == {Cardinality(Ahead(i)) : i \in rows}
<1>1. IsFiniteSet(rows)
  BY FS_Subset, ConstantsAssumption
<1>2. \A i \in rows : IsFiniteSet(Ahead(i)) /\ Cardinality(Ahead(i)) \in Nat
  BY <1>1, FS_Subset, FS_CardinalityType
<1>3. PICK i \in rows : \A j \in rows : Cardinality(Ahead(i)) <= Cardinality(Ahead(j))
  <2>1. Ranks \in SUBSET Nat /\ Ranks # {}
    BY <1>2
  <2>2. Min(Ranks) \in Ranks /\ \A r \in Ranks : Min(Ranks) <= r
    BY <2>1, MinNat
  <2>. QED
    BY <2>2
<1>4. Ahead(i) = {}
  <2>1. SUFFICES ASSUME NEW j \in Ahead(i) PROVE FALSE
    OBVIOUS
  <2>2. \A k \in rows : Before(k, j) => Before(k, i)
    BY <2>1, ConstantsAssumption DEF Before
  <2>3. ~Before(j, j)
    BY <2>1, ConstantsAssumption DEF Before
  <2>4. Ahead(j) \subseteq Ahead(i) /\ Ahead(j) # Ahead(i)
    BY <2>1, <2>2, <2>3
  <2>5. Cardinality(Ahead(j)) < Cardinality(Ahead(i))
    BY <2>1, <2>4, <1>2, FS_Subset
  <2>6. /\ Cardinality(Ahead(i)) \in Nat /\ Cardinality(Ahead(j)) \in Nat
        /\ Cardinality(Ahead(i)) <= Cardinality(Ahead(j))
    BY <2>1, <1>2, <1>3
  <2>. HIDE DEF Ahead
  <2>. QED
    BY <2>5, <2>6
<1>5. Cardinality(Ahead(i)) < PageSize
  <2>. HIDE DEF Ahead
  <2>1. Cardinality(Ahead(i)) = 0
    BY <1>4, FS_EmptySet
  <2>. QED
    BY <2>1, ConstantsAssumption
<1>. QED
  BY <1>5 DEF FirstPage

\* oldest_available is the created_at of a row and no row is older.
LEMMA OldestCreatedIsMin ==
    ASSUME server \subseteq Item, server # {}
    PROVE  /\ \E i \in server : OldestCreated = Created[i]
           /\ \A i \in server : OldestCreated <= Created[i]
<1>. DEFINE T == {Created[i] : i \in server}
<1>1. T \in SUBSET Nat /\ T # {}
  <2>1. \A i \in server : Created[i] \in Nat
    BY ConstantsAssumption
  <2>. QED
    BY <2>1
<1>2. Min(T) \in T /\ \A y \in T : Min(T) <= y
  BY <1>1, MinNat
<1>. QED
  BY <1>2 DEF OldestCreated

-----------------------------------------------------------------------------
(* Type correctness                                                        *)

\* A page in flight holds at least one row: empty answers end the tick.
PageInFlight == pc \in {"fetched", "applying"} => page # {}

TypeInv == TypeOK /\ PageInFlight

LEMMA TypeInvariant == Spec => []TypeInv
<1>1. Init => TypeInv
  <2>. SUFFICES ASSUME Init PROVE TypeInv
    OBVIOUS
  <2>1. 0 \in 0..MaxAttempts /\ 0 \in 0..MaxRequeue /\ 0 \in 0..MaxFaults
    BY ConstantsAssumption
  <2>. QED
    BY <2>1, Zenon DEF Init, TypeInv, TypeOK, PageInFlight, Phases, NoItem
<1>2. TypeInv /\ [Next]_vars => TypeInv'
  <2>. SUFFICES ASSUME TypeInv, [Next]_vars PROVE TypeInv'
    OBVIOUS
  <2>. USE ConstantsAssumption
       DEF TypeInv, TypeOK, PageInFlight, Phases, durable, tick, bounds, EndTick, Fault
  <2>0. Fault => faults' \in 0..MaxFaults
    OBVIOUS
  <2>1. ASSUME NEW m \in Mutation, LocalCommit(m) PROVE TypeInv'
    BY <2>1 DEF LocalCommit
  <2>2. ASSUME NEW i \in Item, Push(i) PROVE TypeInv'
    BY <2>2 DEF Push
  <2>3. ASSUME NEW i \in Item, Prune(Created[i]) PROVE TypeInv'
    BY <2>3 DEF Prune
  <2>5. ASSUME NEW i \in Item, Requeue(i) PROVE TypeInv'
    BY <2>5 DEF Requeue, WithoutFailure
  <2>6. CASE ReadAnchor
    BY <2>6 DEF ReadAnchor
  <2>7. CASE PullPage
    <3>. DEFINE rows == Visible(prevSince, prevCursor)
    <3>1. rows \subseteq Item /\ FirstPage(rows) \subseteq rows
      BY DEF Visible, FirstPage
    <3>2. rows # {} => FirstPage(rows) # {}
      BY <3>1, FirstPageNonEmpty
    <3>3. rows # {} => LastOf(FirstPage(rows)) \in Item
      BY <3>1, <3>2, LastOfIsLast
    <3>4. CASE rows = {}
      <4>1. EndTick /\ UNCHANGED <<server, pushed, durable, bounds>>
        BY <2>7, <3>4 DEF PullPage
      <4>. QED
        BY <4>1, Zenon
    <3>5. CASE rows # {}
      <4>. DEFINE first == FirstPage(rows)
      <4>1. /\ pc' = "fetched" /\ page' = first /\ todo' = first
            /\ nextCursor' \in {NoItem, LastOf(first)}
            /\ UNCHANGED <<prevSince, prevCursor, retryable>>
            /\ UNCHANGED <<server, pushed, durable, bounds>>
        BY <2>7, <3>5 DEF PullPage
      <4>. HIDE DEF first, rows
      <4>2. first \subseteq Item /\ first # {} /\ LastOf(first) \in Item
        BY <3>1, <3>2, <3>3, <3>5 DEF first
      <4>. QED
        BY <4>1, <4>2
    <3>. QED
      BY <3>4, <3>5
  <2>8. CASE PullExpired
    <3>1. OldestCreated \in Nat
      BY <2>8, OldestCreatedIsMin DEF PullExpired, AnchorExpired
    <3>. QED
      BY <2>8, <3>1 DEF PullExpired
  <2>9. CASE Recover
    BY <2>9 DEF Recover
  <2>10. CASE RequestFails
    BY <2>0, <2>10, Zenon DEF RequestFails
  <2>11. CASE BeginApply
    BY <2>11 DEF BeginApply
  <2>12. ASSUME NEW i \in Item, ApplyNext(i) PROVE TypeInv'
    <3>1. /\ receipts' \subseteq Item
          /\ attempts' \in [Item -> 0..MaxAttempts]
          /\ performed' \in [Mutation -> Nat]
          /\ retryable' \in BOOLEAN
      <4>1. CASE SkipQuarantined(i)
        BY <4>1 DEF SkipQuarantined
      <4>2. CASE SkipOwn(i)
        BY <4>2 DEF SkipOwn, WithReceipt, WithoutFailure
      <4>3. CASE SkipRecorded(i)
        BY <4>3 DEF SkipRecorded
      <4>4. CASE ArmSucceeds(i)
        BY <4>4 DEF ArmSucceeds, WithReceipt, WithoutFailure
      <4>5. CASE ArmFails(i)
        BY <4>5 DEF ArmFails, DeadLettered
      <4>. QED
        BY <2>12, <4>1, <4>2, <4>3, <4>4, <4>5 DEF ApplyNext
    <3>. QED
      BY <2>12, <3>1 DEF ApplyNext
  <2>13. CASE FinishPage
    <3>1. page # {} => \E j \in page : Max({Created[i] : i \in page}) = Created[j]
      BY MaxCreated
    <3>2. page # {} => Max({Created[i] : i \in page}) \in Nat
      BY <3>1
    <3>. QED
      BY <2>13, <3>2 DEF FinishPage
  <2>14. CASE RetainAnchor
    BY <2>0, <2>14, Zenon DEF RetainAnchor
  <2>15. CASE Crash
    BY <2>0, <2>15, Zenon DEF Crash
  <2>16. CASE UNCHANGED vars
    BY <2>16 DEF vars
  <2>. QED
    BY <2>1, <2>2, <2>3, <2>5, <2>6, <2>7, <2>8, <2>9, <2>10, <2>11,
       <2>12, <2>13, <2>14, <2>15, <2>16 DEF Next, Apply
<1>. QED
  BY <1>1, <1>2, PTL DEF Spec

\* Every row the daemon, the operator and the crashes leave in the database
\* is one its code can write; attempts never exceed the retry budget.
THEOREM TypeCorrect == Spec => []TypeOK
BY TypeInvariant, PTL DEF TypeInv

-----------------------------------------------------------------------------
(* The ledger                                                              *)

\* Performed mutations are exactly those made at this till or receipted, and
\* a mutation of this till has its rows before its item travels.
LedgerInv ==
    /\ \A m \in Mutation : performed[m] \in {0, 1}
    /\ \A m \in localRows : performed[m] = 1 /\ \E i \in Mine : Describes[i] = m
    /\ \A j \in receipts : performed[Describes[j]] = 1
    /\ \A m \in Mutation :
          performed[m] = 1
          => m \in localRows \/ \E j \in receipts : Describes[j] = m
    /\ \A i \in pushed \cap Mine : Describes[i] \in localRows
    /\ receipts \subseteq pushed
    /\ page \subseteq pushed

\* The ledger of the next state, for a step that leaves it and the page alone.
LEMMA LedgerKept ==
    ASSUME LedgerInv, UNCHANGED <<receipts, performed, localRows>>,
           pushed \subseteq pushed', page' \subseteq page,
           \A i \in pushed' \cap Mine : Describes[i] \in localRows
    PROVE  LedgerInv'
BY DEF LedgerInv

\* A mutation made at the till was not made before: if a receipt named it, the
\* item would be one of this till's and its rows would be here.
LEMMA LocalCommitKeepsLedger ==
    ASSUME TypeInv, LedgerInv, NEW m \in Mutation, LocalCommit(m)
    PROVE  LedgerInv'
<1>. USE DEF TypeInv, TypeOK
<1>1. /\ m \notin localRows /\ localRows' = localRows \cup {m}
      /\ performed' = [performed EXCEPT ![m] = @ + 1]
      /\ UNCHANGED <<pushed, receipts, page>>
  BY DEF LocalCommit, tick
<1>2. PICK i \in Mine : Describes[i] = m
  BY DEF LocalCommit
<1>3. \A j \in receipts : Describes[j] # m
  <2>1. SUFFICES ASSUME NEW j \in receipts, Describes[j] = m PROVE FALSE
    OBVIOUS
  <2>2. j \in Mine /\ j \in pushed
    BY <1>2, <2>1, OneOriginAssumption DEF LedgerInv
  <2>. QED
    BY <1>1, <2>1, <2>2 DEF LedgerInv
<1>4. performed[m] = 0
  BY <1>1, <1>3 DEF LedgerInv
<1>5. /\ performed'[m] = 1
      /\ \A n \in Mutation \ {m} : performed'[n] = performed[n]
      /\ \A j \in receipts : Describes[j] \in Mutation \ {m}
  BY <1>1, <1>3, <1>4, ConstantsAssumption
<1>. QED
  BY <1>1, <1>2, <1>5 DEF LedgerInv

\* Exactly one way out of apply_remote_atomic_full performs the mutation, and
\* only when neither the ledger nor this till's own rows know it.
LEMMA ApplyKeepsLedger ==
    ASSUME MutationsKeepKeys, OwnItemsRecognised, TypeInv, LedgerInv, NEW i \in Item, ApplyNext(i)
    PROVE  LedgerInv'
<1>. USE DEF TypeInv, TypeOK
<1>1. /\ i \in pushed /\ UNCHANGED <<pushed, page, localRows>>
  BY DEF ApplyNext, LedgerInv
<1>2. CASE SkipQuarantined(i) \/ SkipRecorded(i) \/ ArmFails(i)
  BY <1>1, <1>2, LedgerKept DEF SkipQuarantined, SkipRecorded, ArmFails, LedgerInv
<1>3. CASE SkipOwn(i)
  <2>1. performed[Describes[i]] = 1
    BY <1>1, <1>3, ConstantsAssumption DEF SkipOwn, LedgerInv
  <2>2. receipts \subseteq receipts' /\ receipts' \subseteq receipts \cup {i}
    BY <1>3 DEF SkipOwn, WithReceipt
  <2>3. performed' = performed
    BY <1>3 DEF SkipOwn
  <2>. QED
    BY <1>1, <2>1, <2>2, <2>3 DEF LedgerInv
<1>4. CASE ArmSucceeds(i)
  <2>. DEFINE m == Describes[i]
  <2>1. m \in Mutation
    BY ConstantsAssumption
  <2>2. receipts' = receipts \cup {i}
    BY <1>4 DEF ArmSucceeds, Already, WithReceipt
  <2>3. CASE m \in localRows
    <3>1. i \in Probed
      <4>1. \E k \in Mine : Describes[k] = Describes[i]
        BY <2>3 DEF LedgerInv
      <4>2. i \in Mine
        BY <4>1, OneOriginAssumption
      <4>. QED
        BY <1>4, <4>2 DEF ArmSucceeds, OwnItemsRecognised
    <3>2. performed' = performed /\ performed[m] = 1
      BY <1>4, <2>3, <3>1 DEF ArmSucceeds, LedgerInv
    <3>. QED
      BY <1>1, <2>2, <3>2 DEF LedgerInv
  <2>4. CASE m \notin localRows
    <3>1. \A j \in receipts : Describes[j] # m
      BY <1>4 DEF ArmSucceeds, Already, KeyRecorded, MutationsKeepKeys
    <3>2. performed[m] = 0
      BY <2>1, <2>4, <3>1 DEF LedgerInv
    <3>3. performed' = [performed EXCEPT ![m] = @ + 1]
      BY <1>4, <2>4 DEF ArmSucceeds
    <3>4. performed'[m] = 1 /\ \A n \in Mutation \ {m} : performed'[n] = performed[n]
      BY <2>1, <3>2, <3>3
    <3>5. \A j \in receipts : Describes[j] \in Mutation \ {m}
      BY <3>1, ConstantsAssumption
    <3>. HIDE DEF m
    <3>6. i \in receipts' /\ Describes[i] = m
      BY <2>2 DEF m
    <3>. QED
      BY <1>1, <2>1, <2>2, <2>4, <3>4, <3>5, <3>6 DEF LedgerInv
  <2>. QED
    BY <2>3, <2>4
<1>. QED
  BY <1>2, <1>3, <1>4 DEF ApplyNext

LEMMA LedgerInvariant ==
    ASSUME MutationsKeepKeys, OwnItemsRecognised
    PROVE  Spec => []LedgerInv
<1>1. Init => LedgerInv
  BY DEF Init, LedgerInv
<1>2. TypeInv /\ LedgerInv /\ [Next]_vars => LedgerInv'
  <2>. SUFFICES ASSUME TypeInv, LedgerInv, [Next]_vars PROVE LedgerInv'
    OBVIOUS
  <2>. USE DEF durable, tick, bounds, EndTick
  <2>1. ASSUME NEW m \in Mutation, LocalCommit(m) PROVE LedgerInv'
    BY <2>1, LocalCommitKeepsLedger
  <2>2. ASSUME NEW i \in Item, Push(i) PROVE LedgerInv'
    <3>1. /\ pushed' = pushed \cup {i} /\ (i \in Mine => Describes[i] \in localRows)
          /\ UNCHANGED <<receipts, performed, localRows, page>>
      BY <2>2 DEF Push
    <3>. QED
      BY <3>1 DEF LedgerInv
  <2>3. ASSUME NEW i \in Item, Prune(Created[i]) PROVE LedgerInv'
    BY <2>3, LedgerKept DEF Prune, LedgerInv
  <2>5. ASSUME NEW i \in Item, Requeue(i) PROVE LedgerInv'
    BY <2>5, LedgerKept DEF Requeue, LedgerInv
  <2>6. CASE ReadAnchor
    BY <2>6, LedgerKept DEF ReadAnchor, LedgerInv
  <2>7. CASE PullPage
    <3>1. FirstPage(Visible(prevSince, prevCursor)) \subseteq pushed
      BY DEF FirstPage, Visible, TypeInv, TypeOK
    <3>2. page' \subseteq pushed /\ UNCHANGED <<pushed, receipts, performed, localRows>>
      BY <2>7, <3>1 DEF PullPage
    <3>. QED
      BY <3>2 DEF LedgerInv
  <2>8. CASE PullExpired
    BY <2>8, LedgerKept DEF PullExpired, LedgerInv
  <2>9. CASE Recover
    BY <2>9, LedgerKept DEF Recover, LedgerInv
  <2>10. CASE RequestFails
    BY <2>10, LedgerKept DEF RequestFails, LedgerInv
  <2>11. CASE BeginApply
    BY <2>11, LedgerKept DEF BeginApply, LedgerInv
  <2>12. ASSUME NEW i \in Item, ApplyNext(i) PROVE LedgerInv'
    BY <2>12, ApplyKeepsLedger
  <2>13. CASE FinishPage
    BY <2>13, LedgerKept DEF FinishPage, LedgerInv
  <2>14. CASE RetainAnchor
    BY <2>14, LedgerKept DEF RetainAnchor, LedgerInv
  <2>15. CASE Crash
    BY <2>15, LedgerKept DEF Crash, LedgerInv
  <2>16. CASE UNCHANGED vars
    BY <2>16, LedgerKept DEF vars, LedgerInv
  <2>. QED
    BY <2>1, <2>2, <2>3, <2>5, <2>6, <2>7, <2>8, <2>9, <2>10, <2>11,
       <2>12, <2>13, <2>14, <2>15, <2>16 DEF Next, Apply
<1>. QED
  BY <1>1, <1>2, TypeInvariant, PTL DEF Spec

\* C3: when a mutation keeps its key, no mutation is made twice in this database,
\* however its items are redelivered, replayed, requeued or interrupted.
THEOREM EffectsAtMostOnce ==
    ASSUME MutationsKeepKeys, OwnItemsRecognised
    PROVE  Spec => []AtMostOnce
<1>1. LedgerInv => AtMostOnce
  BY DEF LedgerInv, AtMostOnce
<1>. QED
  BY <1>1, LedgerInvariant, PTL

\* When a key also names one mutation, every item the ledger skips describes a mutation
\* that was made here: a receipt never hides a lost mutation.
THEOREM LedgerIsExact ==
    ASSUME MutationsKeepKeys, KeysNameMutations, OwnItemsRecognised
    PROVE  Spec => []LedgerSkipsOnlyPerformed
<1>1. TypeInv /\ LedgerInv => LedgerSkipsOnlyPerformed
  <2>. SUFFICES ASSUME TypeInv, LedgerInv, NEW i \in pushed, Already(i)
                PROVE  performed[Describes[i]] >= 1
    BY DEF LedgerSkipsOnlyPerformed
  <2>1. \E j \in receipts : Describes[j] = Describes[i]
    BY DEF Already, KeyRecorded, KeysNameMutations, TypeInv, TypeOK
  <2>. QED
    BY <2>1 DEF LedgerInv
<1>. QED
  BY <1>1, TypeInvariant, LedgerInvariant, PTL

\* The daemon with its pages, receipts and faults implements the promise that
\* a terminal performs each mutation once, made here or published before.
THEOREM ImplementsDelivery ==
    ASSUME MutationsKeepKeys, OwnItemsRecognised
    PROVE  Spec => DeliversEffectsOnce
<1>. USE DEF Delivery!vars
<1>1. Init => Delivery!Init
  BY DEF Init, Delivery!Init
<1>2. TypeInv /\ LedgerInv /\ LedgerInv' /\ [Next]_vars
      => [Delivery!Next]_Delivery!vars
  <2>. SUFFICES ASSUME TypeInv, LedgerInv, LedgerInv', [Next]_vars
                PROVE  [Delivery!Next]_Delivery!vars
    OBVIOUS
  <2>. USE DEF TypeInv, TypeOK, durable, tick, bounds
  <2>1. CASE UNCHANGED <<pushed, performed>>
    BY <2>1
  <2>2. ASSUME NEW m \in Mutation, LocalCommit(m) PROVE Delivery!Make(m)
    <3>1. performed' = [performed EXCEPT ![m] = @ + 1] /\ UNCHANGED pushed
      BY <2>2 DEF LocalCommit
    <3>2. performed[m] = 0
      BY <3>1 DEF LedgerInv
    <3>3. \E i \in Mine : Describes[i] = m
      BY <2>2 DEF LocalCommit
    <3>. QED
      BY <3>1, <3>2, <3>3 DEF Delivery!Make, Delivery!Perform
  <2>3. ASSUME NEW i \in Item, Push(i) PROVE Delivery!Publish(Describes[i])
    BY <2>3 DEF Push, Delivery!Publish
  <2>4. ASSUME NEW i \in Item, ApplyNext(i)
        PROVE  UNCHANGED <<pushed, performed>> \/ Delivery!Deliver(Describes[i])
    <3>1. UNCHANGED pushed /\ i \in pushed
      BY <2>4 DEF ApplyNext, LedgerInv
    <3>2. CASE performed' = performed
      BY <3>1, <3>2
    <3>3. CASE performed' = [performed EXCEPT ![Describes[i]] = @ + 1]
      <4>1. Describes[i] \in Mutation
        BY ConstantsAssumption
      <4>2. performed[Describes[i]] = 0
        BY <3>3, <4>1 DEF LedgerInv
      <4>. QED
        BY <3>1, <3>3, <4>1, <4>2 DEF Delivery!Deliver, Delivery!Perform
    <3>. QED
      BY <2>4, <3>2, <3>3 DEF ApplyNext, SkipQuarantined, SkipOwn, SkipRecorded,
         ArmSucceeds, ArmFails
  <2>5. \A i \in Item : Describes[i] \in Mutation
    BY ConstantsAssumption
  <2>6. \/ UNCHANGED <<pushed, performed>>
        \/ \E m \in Mutation : LocalCommit(m)
        \/ \E i \in Item : Push(i) \/ ApplyNext(i)
    BY DEF Next, Apply, vars, Prune, Requeue, ReadAnchor, PullPage, PullExpired,
       Recover, RequestFails, BeginApply, FinishPage, RetainAnchor, Crash
  <2>. QED
    BY <2>1, <2>2, <2>3, <2>4, <2>5, <2>6 DEF Delivery!Next
<1>. QED
  BY <1>1, <1>2, TypeInvariant, LedgerInvariant, PTL
  DEF Spec, DeliversEffectsOnce, Delivery!Spec

-----------------------------------------------------------------------------
(* The pull anchor                                                         *)

\* A position no pushed row is beyond: later rows sort after it.
Reached(s, c) ==
    /\ s = 0 \/ \E j \in pushed : s <= Created[j]
    /\ c = NoItem \/ c \in pushed

\* The rows of the server outside the page in flight sort after it, unless
\* the tick's own anchor had already left them behind.
PageIsNext ==
    pc \in {"fetched", "applying"}
    => /\ page \subseteq pushed
       /\ nextCursor \in page \cup {NoItem}
       /\ \A i \in server \ page :
             i \in Visible(prevSince, prevCursor) => \A j \in page : Before(j, i)

\* What was processed is settled or holds the anchor back.
ProcessedSettled ==
    /\ pc # "applying" => todo = page
    /\ \A i \in page \ todo : Settled(i) \/ retryable

\* A recovering tick restarts at a row no retained row is older than.
RecoveryComplete ==
    pc = "recovering" => \A i \in server : prevSince <= Created[i]

AnchorInv ==
    /\ NoSkip
    /\ Reached(since, cursor)
    /\ Reached(prevSince, prevCursor)
    /\ PageIsNext
    /\ ProcessedSettled
    /\ RecoveryComplete

\* A row pushed in order is visible from every position reached so far.
LEMMA PushedIsVisible ==
    ASSUME TypeInv, NEW i \in Item, \A j \in pushed : Before(j, i),
           NEW s \in Nat, NEW c, Reached(s, c)
    PROVE  Created[i] >= s /\ (c # NoItem => Before(c, i))
<1>1. \A j \in pushed : j \in Item /\ Created[j] \in Nat /\ Created[j] <= Created[i]
  <2>1. \A j \in Item : Created[j] \in Nat
    BY ConstantsAssumption
  <2>. QED
    BY <2>1 DEF Before, TypeInv, TypeOK
<1>2. Created[i] \in Nat
  BY ConstantsAssumption
<1>. QED
  BY <1>1, <1>2 DEF Reached

\* The anchor moves past the page in flight only: everything else the server
\* holds is still visible from the new position.
LEMMA AdvanceSkipsNothing ==
    ASSUME TypeInv, AnchorInv, FinishPage
    PROVE  NoSkip' /\ Reached(since', cursor')
<1>. USE DEF TypeInv, TypeOK, PageInFlight
<1>1. /\ pc = "applying" /\ todo = {} /\ page # {}
      /\ UNCHANGED <<server, pushed, receipts, attempts>>
  BY DEF FinishPage
<1>2. CASE UNCHANGED <<since, cursor>>
  BY <1>1, <1>2 DEF AnchorInv, NoSkip, Visible, Settled, Already, KeyRecorded,
     DeadLettered, Reached
<1>3. CASE /\ ~retryable /\ since = prevSince /\ cursor = prevCursor
           /\ since' = Max({Created[i] : i \in page}) /\ cursor' = nextCursor
  <2>1. PICK last \in page : since' = Created[last] /\ \A j \in page : Created[j] <= since'
    BY <1>1, <1>3, MaxCreated
  <2>2. page \subseteq pushed /\ nextCursor \in page \cup {NoItem}
    BY <1>1 DEF AnchorInv, PageIsNext
  <2>3. Reached(since', cursor')
    <3>1. last \in pushed /\ Created[last] <= Created[last]
      BY <2>2, ConstantsAssumption
    <3>. QED
      BY <1>3, <2>1, <2>2, <3>1 DEF Reached
  <2>4. ASSUME NEW i \in server, i \notin Visible(since', cursor') PROVE Settled(i)
    <3>1. CASE i \in page
      BY <1>1, <1>3, <3>1 DEF AnchorInv, ProcessedSettled
    <3>2. CASE i \notin page /\ i \in Visible(prevSince, prevCursor)
      <4>1. \A j \in page : Before(j, i)
        BY <1>1, <3>2 DEF AnchorInv, PageIsNext
      <4>2. Created[i] >= since'
        BY <2>1, <4>1, ConstantsAssumption DEF Before
      <4>3. cursor' # NoItem => Before(cursor', i)
        BY <1>3, <2>2, <4>1
      <4>. QED
        BY <2>4, <3>2, <4>2, <4>3 DEF Visible
    <3>3. CASE i \notin Visible(prevSince, prevCursor)
      BY <1>3, <3>3 DEF AnchorInv, NoSkip
    <3>. QED
      BY <3>1, <3>2, <3>3
  <2>5. \A i \in server : Settled(i) => Settled(i)'
    BY <1>1 DEF Settled, Already, KeyRecorded, DeadLettered
  <2>6. \A i \in server : i \in Visible(since', cursor') => i \in Visible(since, cursor)'
    BY <1>1 DEF Visible
  <2>. QED
    BY <1>1, <2>3, <2>4, <2>5, <2>6 DEF NoSkip
<1>. QED
  BY <1>2, <1>3 DEF FinishPage

\* Processing an item settles it or asks for the page again, and unsettles
\* nothing.
LEMMA ApplySettles ==
    ASSUME TypeInv, NEW i \in Item, ApplyNext(i)
    PROVE  /\ \A j \in Item : Settled(j) => Settled(j)'
           /\ Settled(i)' \/ retryable'
           /\ retryable => retryable'
<1>. USE ConstantsAssumption DEF TypeInv, TypeOK, Settled, Already, KeyRecorded, DeadLettered
<1>1. CASE SkipQuarantined(i) \/ SkipRecorded(i)
  BY <1>1 DEF SkipQuarantined, SkipRecorded
<1>2. CASE SkipOwn(i) \/ ArmSucceeds(i)
  <2>1. /\ receipts' = WithReceipt(i) /\ attempts' = WithoutFailure(i)
        /\ ~DeadLettered(i) /\ retryable' = retryable
    BY <1>2 DEF SkipOwn, ArmSucceeds
  <2>2. receipts \subseteq receipts' /\ (i \in receipts' \/ KeyRecorded(i))
    BY <2>1 DEF WithReceipt
  <2>3. \A j \in Item \ {i} : attempts'[j] = attempts[j]
    BY <2>1 DEF WithoutFailure
  <2>. QED
    BY <2>1, <2>2, <2>3
<1>3. CASE ArmFails(i)
  <2>1. /\ receipts' = receipts /\ attempts[i] # MaxAttempts
        /\ attempts' = [attempts EXCEPT ![i] = @ + 1]
        /\ retryable' = (retryable \/ attempts'[i] < MaxAttempts)
    BY <1>3 DEF ArmFails
  <2>2. attempts'[i] = attempts[i] + 1 /\ \A j \in Item \ {i} : attempts'[j] = attempts[j]
    BY <2>1
  <2>3. attempts'[i] = MaxAttempts \/ attempts'[i] < MaxAttempts
    BY <2>1, <2>2
  <2>4. (retryable => retryable') /\ (attempts'[i] < MaxAttempts => retryable')
    BY <2>1, Zenon
  <2>. QED
    BY <2>1, <2>2, <2>3, <2>4
<1>. QED
  BY <1>1, <1>2, <1>3 DEF ApplyNext

\* A row pushed in order disturbs neither the durable anchor nor the tick.
LEMMA PushKeepsAnchor ==
    ASSUME InOrderPush, TypeInv, AnchorInv, NEW i \in Item, Push(i)
    PROVE  AnchorInv'
<1>. USE DEF TypeInv, TypeOK, durable, tick, bounds
<1>1. /\ server' = server \cup {i} /\ pushed' = pushed \cup {i}
      /\ \A j \in pushed : Before(j, i)
      /\ UNCHANGED <<since, cursor, receipts, attempts, tick>>
  BY DEF Push
<1>2. \A j \in Item : Settled(j)' = Settled(j)
  BY <1>1 DEF Settled, Already, KeyRecorded, DeadLettered
<1>3. Reached(since, cursor)' /\ Reached(prevSince, prevCursor)'
  BY <1>1 DEF AnchorInv, Reached
<1>4. Created[i] >= since /\ (cursor # NoItem => Before(cursor, i))
  BY <1>1, PushedIsVisible DEF AnchorInv
<1>5. NoSkip'
  BY <1>1, <1>2, <1>4 DEF AnchorInv, NoSkip, Visible, Settled
<1>6. PageIsNext'
  BY <1>1 DEF AnchorInv, PageIsNext, Visible
<1>7. ProcessedSettled'
  BY <1>1, <1>2 DEF AnchorInv, ProcessedSettled
<1>8. RecoveryComplete'
  <2>1. prevSince <= Created[i]
    BY <1>1, PushedIsVisible DEF AnchorInv
  <2>. QED
    BY <1>1, <2>1 DEF AnchorInv, RecoveryComplete
<1>. QED
  BY <1>3, <1>5, <1>6, <1>7, <1>8 DEF AnchorInv

\* A step that ends the tick and leaves anchor, ledger and server alone.
LEMMA EndTickKeepsAnchor ==
    ASSUME TypeInv, AnchorInv, EndTick,
           UNCHANGED <<server, pushed, since, cursor, receipts, attempts>>
    PROVE  AnchorInv'
BY DEF EndTick, AnchorInv, NoSkip, Visible, Settled, Already, KeyRecorded,
   DeadLettered, Reached, PageIsNext, ProcessedSettled, RecoveryComplete

\* A step that moves nothing the anchor depends on.
LEMMA AnchorKept ==
    ASSUME TypeInv, AnchorInv,
           UNCHANGED <<server, pushed, since, cursor, receipts, attempts, tick>>
    PROVE  AnchorInv'
BY DEF tick, AnchorInv, NoSkip, Visible, Settled, Already, KeyRecorded,
   DeadLettered, Reached, PageIsNext, ProcessedSettled, RecoveryComplete

\* Requeuing a dead letter rewinds the anchor before everything.
LEMMA RequeueKeepsAnchor ==
    ASSUME TypeInv, AnchorInv, NEW i \in Item, Requeue(i)
    PROVE  AnchorInv'
<1>. USE DEF TypeInv, TypeOK
<1>1. /\ since' = 0 /\ cursor' = NoItem /\ pc # "applying"
      /\ UNCHANGED <<server, pushed, receipts, tick>>
  BY DEF Requeue, LockFree
<1>2. NoSkip'
  <2>1. \A j \in server : Created[j] >= 0
    BY ConstantsAssumption
  <2>. QED
    BY <1>1, <2>1 DEF NoSkip, Visible, Settled
<1>3. ProcessedSettled'
  BY <1>1 DEF AnchorInv, ProcessedSettled, tick
<1>4. Reached(since, cursor)' /\ Reached(prevSince, prevCursor)'
  BY <1>1 DEF AnchorInv, Reached, tick
<1>5. PageIsNext' /\ RecoveryComplete'
  BY <1>1 DEF AnchorInv, PageIsNext, RecoveryComplete, Visible, tick
<1>. QED
  BY <1>2, <1>3, <1>4, <1>5 DEF AnchorInv

\* A fetched page is the next prefix of what the anchor can see.
LEMMA PullKeepsAnchor ==
    ASSUME TypeInv, AnchorInv, PullPage
    PROVE  AnchorInv'
<1>. USE DEF TypeInv, TypeOK, durable, bounds
<1>. DEFINE rows == Visible(prevSince, prevCursor)
            first == FirstPage(rows)
<1>1. CASE rows = {}
  <2>1. EndTick /\ UNCHANGED <<server, pushed, durable, bounds>>
    BY <1>1 DEF PullPage
  <2>. QED
    BY <2>1, EndTickKeepsAnchor
<1>2. CASE rows # {}
  <2>1. /\ pc' = "fetched" /\ page' = first /\ todo' = first
        /\ nextCursor' \in {NoItem, LastOf(first)}
        /\ UNCHANGED <<prevSince, prevCursor, retryable, server, pushed, since,
                       cursor, receipts, attempts>>
    BY <1>2 DEF PullPage
  <2>2. rows \in SUBSET Item /\ first \subseteq rows /\ first \subseteq pushed
    BY DEF Visible, FirstPage
  <2>3. first # {} /\ LastOf(first) \in first
    BY <1>2, <2>2, FirstPageNonEmpty, LastOfIsLast
  <2>4. \A i \in rows \ first, j \in first : Before(j, i)
    BY <2>2, FirstPageIsPrefix
  <2>5. Visible(prevSince, prevCursor)' = rows
    BY <2>1 DEF Visible
  <2>6. PageIsNext'
    <3>. HIDE DEF rows, first
    <3>. QED
      BY <2>1, <2>2, <2>3, <2>4, <2>5 DEF PageIsNext
  <2>7. NoSkip' /\ Reached(since, cursor)' /\ Reached(prevSince, prevCursor)'
    BY <2>1 DEF AnchorInv, NoSkip, Visible, Settled, Already, KeyRecorded,
       DeadLettered, Reached
  <2>8. ProcessedSettled' /\ RecoveryComplete'
    BY <2>1 DEF ProcessedSettled, RecoveryComplete
  <2>. QED
    BY <2>6, <2>7, <2>8 DEF AnchorInv
<1>. QED
  BY <1>1, <1>2

\* The restart point of a recovery is below everything the server retains.
LEMMA RecoverKeepsAnchor ==
    ASSUME TypeInv, AnchorInv, PullExpired \/ Recover
    PROVE  AnchorInv'
<1>. USE DEF TypeInv, TypeOK, durable, bounds
<1>1. CASE PullExpired
  <2>1. /\ prevSince' = OldestCreated /\ pc' = "recovering"
        /\ \E i \in server : OldestCreated = Created[i]
        /\ \A i \in server : OldestCreated <= Created[i]
    BY <1>1, OldestCreatedIsMin DEF PullExpired, AnchorExpired
  <2>2. \A i \in server : Created[i] <= Created[i]
    BY ConstantsAssumption
  <2>. HIDE DEF OldestCreated
  <2>3. /\ UNCHANGED <<server, pushed, since, cursor, receipts, attempts, prevCursor,
                       page, nextCursor, todo, retryable>>
        /\ pc = "pulling"
    BY <1>1 DEF PullExpired
  <2>4. \E i \in pushed : prevSince' <= Created[i]
    BY <2>1, <2>2
  <2>5. NoSkip' /\ Reached(since, cursor)' /\ Reached(prevSince, prevCursor)'
    BY <2>3, <2>4 DEF AnchorInv, NoSkip, Visible, Settled, Already, KeyRecorded,
       DeadLettered, Reached
  <2>6. PageIsNext' /\ ProcessedSettled' /\ RecoveryComplete'
    BY <2>1, <2>3 DEF AnchorInv, PageIsNext, ProcessedSettled, RecoveryComplete
  <2>. QED
    BY <2>5, <2>6 DEF AnchorInv
<1>2. CASE Recover
  <2>1. /\ since' = prevSince /\ cursor' = NoItem /\ pc = "recovering" /\ EndTick
        /\ UNCHANGED <<server, pushed, receipts, attempts>>
    BY <1>2 DEF Recover
  <2>2. \A i \in server : Created[i] >= prevSince
    BY <2>1, ConstantsAssumption DEF AnchorInv, RecoveryComplete
  <2>3. NoSkip'
    BY <2>1, <2>2 DEF NoSkip, Visible, Settled
  <2>4. Reached(since, cursor)' /\ Reached(prevSince, prevCursor)'
    BY <2>1 DEF AnchorInv, Reached, EndTick
  <2>5. PageIsNext' /\ ProcessedSettled' /\ RecoveryComplete'
    BY <2>1 DEF EndTick, PageIsNext, ProcessedSettled, RecoveryComplete
  <2>. QED
    BY <2>3, <2>4, <2>5 DEF AnchorInv
<1>. QED
  BY <1>1, <1>2

LEMMA AnchorInvariant ==
    ASSUME InOrderPush
    PROVE  Spec => []AnchorInv
<1>1. Init => AnchorInv
  BY DEF Init, AnchorInv, NoSkip, Reached, PageIsNext, ProcessedSettled,
     RecoveryComplete
<1>2. TypeInv /\ AnchorInv /\ [Next]_vars => AnchorInv'
  <2>. SUFFICES ASSUME TypeInv, AnchorInv, [Next]_vars PROVE AnchorInv'
    OBVIOUS
  <2>1. ASSUME NEW m \in Mutation, LocalCommit(m) PROVE AnchorInv'
    BY <2>1, AnchorKept DEF LocalCommit
  <2>2. ASSUME NEW i \in Item, Push(i) PROVE AnchorInv'
    BY <2>2, PushKeepsAnchor
  <2>3. ASSUME NEW i \in Item, Prune(Created[i]) PROVE AnchorInv'
    <3>1. /\ server' \subseteq server
          /\ UNCHANGED <<pushed, since, cursor, receipts, attempts, tick>>
      BY <2>3 DEF Prune, durable
    <3>. QED
      BY <3>1 DEF tick, AnchorInv, NoSkip, Visible, Settled, Already, KeyRecorded,
         DeadLettered, Reached, PageIsNext, ProcessedSettled, RecoveryComplete
  <2>5. ASSUME NEW i \in Item, Requeue(i) PROVE AnchorInv'
    BY <2>5, RequeueKeepsAnchor
  <2>6. CASE ReadAnchor
    BY <2>6 DEF ReadAnchor, durable, AnchorInv, NoSkip, Visible, Settled, Already,
       KeyRecorded, DeadLettered, Reached, PageIsNext, ProcessedSettled,
       RecoveryComplete
  <2>7. CASE PullPage
    BY <2>7, PullKeepsAnchor
  <2>8. CASE PullExpired \/ Recover
    BY <2>8, RecoverKeepsAnchor
  <2>9. CASE RequestFails \/ RetainAnchor \/ Crash
    BY <2>9, EndTickKeepsAnchor DEF RequestFails, RetainAnchor, Crash, durable
  <2>10. CASE BeginApply
    BY <2>10 DEF BeginApply, durable, AnchorInv, NoSkip, Visible, Settled, Already,
       KeyRecorded, DeadLettered, Reached, PageIsNext, ProcessedSettled,
       RecoveryComplete
  <2>11. ASSUME NEW i \in Item, ApplyNext(i) PROVE AnchorInv'
    <3>1. /\ pc = "applying" /\ todo' = todo \ {i}
          /\ UNCHANGED <<server, pushed, since, cursor, pc, prevSince, prevCursor,
                         page, nextCursor>>
      BY <2>11 DEF ApplyNext
    <3>2. /\ \A j \in Item : Settled(j) => Settled(j)'
          /\ Settled(i)' \/ retryable'
          /\ retryable => retryable'
      BY <2>11, ApplySettles
    <3>3. NoSkip' /\ Reached(since, cursor)' /\ Reached(prevSince, prevCursor)'
      BY <3>1, <3>2 DEF AnchorInv, NoSkip, Visible, Reached, TypeInv, TypeOK
    <3>4. PageIsNext' /\ RecoveryComplete'
      BY <3>1 DEF AnchorInv, PageIsNext, Visible, RecoveryComplete
    <3>5. ProcessedSettled'
      BY <3>1, <3>2 DEF AnchorInv, ProcessedSettled, TypeInv, TypeOK
    <3>. QED
      BY <3>3, <3>4, <3>5 DEF AnchorInv
  <2>12. CASE FinishPage
    <3>1. NoSkip' /\ Reached(since', cursor')
      BY <2>12, AdvanceSkipsNothing
    <3>2. EndTick /\ UNCHANGED pushed
      BY <2>12 DEF FinishPage
    <3>. QED
      BY <3>1, <3>2 DEF EndTick, AnchorInv, Reached, PageIsNext, ProcessedSettled,
         RecoveryComplete
  <2>13. CASE UNCHANGED vars
    BY <2>13, AnchorKept DEF vars, durable
  <2>. QED
    BY <2>1, <2>2, <2>3, <2>5, <2>6, <2>7, <2>8, <2>9, <2>10, <2>11,
       <2>12, <2>13 DEF Next, Apply
<1>. QED
  BY <1>1, <1>2, TypeInvariant, PTL DEF Spec

\* SYNC-01 and SYNC-09: when rows reach the server in order, the durable
\* anchor never leaves behind a retained row that is neither applied nor
\* quarantined, whatever pages, rewinds, prunes and crashes interleave.
THEOREM AnchorSkipsNothing ==
    ASSUME InOrderPush
    PROVE  Spec => []NoSkip
BY AnchorInvariant, PTL DEF AnchorInv

=============================================================================
