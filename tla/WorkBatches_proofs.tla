------------------------- MODULE WorkBatches_proofs -------------------------
(* A batch is what its limit and cursor allow, a cycle stays within its      *)
(* limits, and calls ensureReplica once for an item.                         *)
EXTENDS WorkBatches, FiniteSetTheorems, TLAPS

-----------------------------------------------------------------------------
(* Batches.                                                                *)

\* The ids up to i in the order of the batch.
UpTo(last, ids, i) == {j \in ids : j = i \/ Earlier(last, j, i)}

LEMMA FiniteIds ==
    ASSUME NEW ids \in SUBSET Items
    PROVE  IsFiniteSet(ids) /\ Cardinality(ids) \in Nat
BY BatchAssumption, FS_Subset, FS_CardinalityType

\* The order is total.
LEMMA EarlierOrders ==
    ASSUME NEW last \in Nat, NEW i \in Nat, NEW j \in Nat, NEW k \in Nat
    PROVE  /\ ~Earlier(last, i, i)
           /\ i = j \/ Earlier(last, i, j) \/ Earlier(last, j, i)
           /\ Earlier(last, i, j) /\ Earlier(last, j, k) => Earlier(last, i, k)
BY DEF Earlier

\* Every id has its place, and no two have the same.
LEMMA RankPlaces ==
    ASSUME NEW last \in Nat, NEW ids \in SUBSET Items
    PROVE  /\ \A i \in ids : Rank(last, ids, i) \in 1 .. Cardinality(ids)
           /\ \A i, j \in ids : Earlier(last, i, j) => Rank(last, ids, i) < Rank(last, ids, j)
           /\ \A i, j \in ids : Rank(last, ids, i) = Rank(last, ids, j) => i = j
<1>1. IsFiniteSet(ids) /\ Cardinality(ids) \in Nat /\ ids \subseteq Nat
    BY FiniteIds, BatchAssumption
<1>2. ASSUME NEW i \in ids
      PROVE  /\ UpTo(last, ids, i) \in SUBSET ids /\ UpTo(last, ids, i) # {}
             /\ IsFiniteSet(UpTo(last, ids, i))
             /\ Rank(last, ids, i) = Cardinality(UpTo(last, ids, i))
             /\ Rank(last, ids, i) \in 1 .. Cardinality(ids)
    <2>1. UpTo(last, ids, i) \in SUBSET ids /\ i \in UpTo(last, ids, i)
          /\ Rank(last, ids, i) = Cardinality(UpTo(last, ids, i))
        BY DEF UpTo, Rank
    <2>2. IsFiniteSet(UpTo(last, ids, i)) /\ Cardinality(UpTo(last, ids, i)) \in Nat
          /\ Cardinality(UpTo(last, ids, i)) <= Cardinality(ids)
          /\ Cardinality(UpTo(last, ids, i)) # 0
        BY <1>1, <2>1, FS_Subset, FS_CardinalityType, FS_EmptySet
    <2> QED
        BY <1>1, <2>1, <2>2
<1>3. ASSUME NEW i \in ids, NEW j \in ids, Earlier(last, i, j)
      PROVE  Rank(last, ids, i) < Rank(last, ids, j)
    <2>1. UpTo(last, ids, i) \in SUBSET UpTo(last, ids, j)
        BY <1>1, <1>3, EarlierOrders DEF UpTo
    <2>2. j \in UpTo(last, ids, j) /\ j \notin UpTo(last, ids, i)
        BY <1>1, <1>3, EarlierOrders DEF UpTo
    <2>3. Cardinality(UpTo(last, ids, i)) <= Cardinality(UpTo(last, ids, j))
          /\ Cardinality(UpTo(last, ids, i)) # Cardinality(UpTo(last, ids, j))
        BY <1>2, <2>1, <2>2, FS_Subset
    <2> QED
        BY <1>1, <1>2, <2>3
<1>4. ASSUME NEW i \in ids, NEW j \in ids, Rank(last, ids, i) = Rank(last, ids, j)
      PROVE  i = j
    BY <1>1, <1>2, <1>3, <1>4, EarlierOrders
<1> QED
    BY <1>2, <1>3, <1>4

\* Every place is taken.
LEMMA RankCovers ==
    ASSUME NEW last \in Nat, NEW ids \in SUBSET Items
    PROVE  \A k \in 1 .. Cardinality(ids) : \E i \in ids : Rank(last, ids, i) = k
<1> DEFINE n == Cardinality(ids)
           f == [i \in ids |-> Rank(last, ids, i)]
<1>1. IsFiniteSet(ids) /\ n \in Nat
    BY FiniteIds
<1>2. f \in Injection(ids, 1 .. n)
    BY RankPlaces DEF Injection, IsInjective
<1>3. IsFiniteSet(1 .. n) /\ Cardinality(1 .. n) = n
    BY <1>1, FS_Interval
<1>4. f \in Surjection(ids, 1 .. n)
    BY <1>2, <1>3, FS_Injection
<1> QED
    BY <1>4 DEF Surjection

\* A batch has at most n of the ids, each once, in the order from the cursor, and
\* leaves none out that comes before another one of it.
LEMMA BatchIs ==
    ASSUME NEW last \in Nat, NEW ids \in SUBSET Items, NEW n \in Nat
    PROVE  LET b == BatchAfter(last, ids, n)
           IN  /\ b \in Seq(ids) /\ IsInjective(b) /\ Range(b) \subseteq ids
               /\ Len(b) <= n /\ Len(b) <= Cardinality(ids)
               /\ \A i \in ids, j \in Range(b) : Earlier(last, i, j) => i \in Range(b)
<1> DEFINE b == BatchAfter(last, ids, n)
           m == IF n < Cardinality(ids) THEN n ELSE Cardinality(ids)
<1>1. Cardinality(ids) \in Nat /\ m \in Nat /\ m <= n /\ m <= Cardinality(ids)
    BY FiniteIds
<1>2. b = [k \in 1 .. m |-> CHOOSE i \in ids : Rank(last, ids, i) = k]
    BY DEF BatchAfter
<1> HIDE DEF b, m
<1>3. \A k \in 1 .. m : b[k] \in ids /\ Rank(last, ids, b[k]) = k
    BY <1>1, <1>2, RankCovers
<1>4. b \in Seq(ids) /\ Len(b) = m /\ DOMAIN b = 1 .. m
    BY <1>1, <1>2, <1>3
<1>5. IsInjective(b)
    BY <1>3, <1>4 DEF IsInjective
<1>6. Range(b) \subseteq ids
    BY <1>3, <1>4 DEF Range
<1>7. ASSUME NEW i \in ids, NEW j \in Range(b), Earlier(last, i, j)
      PROVE  i \in Range(b)
    <2>1. PICK k \in 1 .. m : b[k] = j
        BY <1>4 DEF Range
    <2>2. Rank(last, ids, i) < k /\ Rank(last, ids, i) \in 1 .. m
        BY <1>1, <1>3, <1>6, <1>7, <2>1, RankPlaces
    <2>3. b[Rank(last, ids, i)] = i
        BY <1>3, <2>2, RankPlaces
    <2> QED
        BY <1>4, <2>2, <2>3 DEF Range
<1> QED
    BY <1>1, <1>4, <1>5, <1>6, <1>7 DEF b

-----------------------------------------------------------------------------
(* The inductive invariant.                                                *)

\* What a cycle keeps in memory is gone when it ends.
Forgotten == pc = "idle" => attempted = [k \in Kinds |-> {}] /\ ensured = {} /\ album = 0

\* No item is twice in a batch, and the rest of an audit was not audited yet.
BatchInOrder ==
    /\ IsInjective(batch)
    /\ pc = "audit" => \A i \in Range(batch) : row[i] = "ready" /\ i \notin ensured

\* The rest of a batch of preparations failed no audit, and still needs its
\* preparation or was attempted for an earlier album.
PreparesInOrder ==
    pc = "prepare" => \A i \in Range(batch) :
       i \notin auditFailed /\ (row[i] = "prepare" \/ i \in attempted["prepare"])

\* Where an item is after ensureReplica: nowhere from where a batch is chosen,
\* or among those that were attempted or failed.
EnsuredIsMarked ==
    \A i \in ensured : i \in attempted["prepare"] \cup auditFailed \/ row[i] \in {"pending", "ready"}

Inv ==
    /\ TypeOK /\ Forgotten /\ BatchInOrder /\ PreparesInOrder /\ EnsuredIsMarked /\ BudgetKept

-----------------------------------------------------------------------------
(* One item after the other.                                               *)

LEMMA NextOfBatch ==
    ASSUME NEW S, NEW s \in Seq(S), s # << >>, IsInjective(s)
    PROVE  /\ Head(s) \in S /\ Head(s) \in Range(s)
           /\ Tail(s) \in Seq(S) /\ IsInjective(Tail(s)) /\ Range(Tail(s)) = Range(s) \ {Head(s)}
<1>1. Len(s) \in Nat \ {0} /\ DOMAIN s = 1 .. Len(s) /\ Head(s) = s[1]
    OBVIOUS
<1>2. /\ Tail(s) \in Seq(S) /\ Len(Tail(s)) = Len(s) - 1 /\ DOMAIN Tail(s) = 1 .. Len(s) - 1
      /\ \A k \in 1 .. Len(s) - 1 : Tail(s)[k] = s[k + 1]
    BY <1>1
<1>3. IsInjective(Tail(s))
    <2>1. ASSUME NEW j \in 1 .. Len(s) - 1, NEW k \in 1 .. Len(s) - 1, Tail(s)[j] = Tail(s)[k]
          PROVE  j = k
        <3>1. s[j + 1] = s[k + 1] /\ j + 1 \in 1 .. Len(s) /\ k + 1 \in 1 .. Len(s)
            BY <1>1, <1>2, <2>1
        <3>2. j + 1 = k + 1
            BY <1>1, <3>1 DEF IsInjective
        <3> QED
            BY <3>2
    <2> QED
        BY <1>2, <2>1 DEF IsInjective
<1>4. Range(Tail(s)) = Range(s) \ {Head(s)}
    <2>1. ASSUME NEW x \in Range(Tail(s))
          PROVE  x \in Range(s) \ {Head(s)}
        <3>1. PICK k \in 1 .. Len(s) - 1 : x = s[k + 1]
            BY <1>2 DEF Range
        <3>2. k + 1 \in 1 .. Len(s) /\ k + 1 # 1
            BY <1>1
        <3> QED
            BY <1>1, <3>1, <3>2 DEF Range, IsInjective
    <2>2. ASSUME NEW x \in Range(s), x # Head(s)
          PROVE  x \in Range(Tail(s))
        <3>1. PICK k \in 1 .. Len(s) : x = s[k]
            BY <1>1 DEF Range
        <3>2. k - 1 \in 1 .. Len(s) - 1 /\ (k - 1) + 1 = k
            BY <1>1, <2>2, <3>1
        <3> QED
            BY <1>2, <3>1, <3>2 DEF Range
    <2> QED
        BY <2>1, <2>2
<1>5. Head(s) \in S /\ Head(s) \in Range(s)
    <2>1. 1 \in DOMAIN s /\ s[1] \in S
        BY <1>1
    <2> QED
        BY <1>1, <2>1 DEF Range
<1> QED
    BY <1>2, <1>3, <1>4, <1>5

LEMMA BatchCounted ==
    ASSUME NEW S, NEW s \in Seq(S), NEW T
    PROVE  /\ IsFiniteSet(Range(s) \ T) /\ Cardinality(Range(s) \ T) \in Nat
           /\ Cardinality(Range(s) \ T) <= Len(s)
<1>1. Len(s) \in Nat /\ DOMAIN s = 1 .. Len(s)
    OBVIOUS
<1>2. s \in Surjection(1 .. Len(s), Range(s))
    BY <1>1 DEF Surjection, Range
<1>3. IsFiniteSet(1 .. Len(s)) /\ Cardinality(1 .. Len(s)) = Len(s)
    BY <1>1, FS_Interval
<1>4. IsFiniteSet(Range(s)) /\ Cardinality(Range(s)) <= Len(s) /\ Cardinality(Range(s)) \in Nat
    BY <1>2, <1>3, FS_Surjection, FS_CardinalityType
<1>5. IsFiniteSet(Range(s) \ T) /\ Cardinality(Range(s) \ T) <= Cardinality(Range(s))
      /\ Cardinality(Range(s) \ T) \in Nat
    BY <1>4, FS_Subset, FS_CardinalityType
<1> QED
    BY <1>1, <1>4, <1>5

\* An attempt takes one from what is left and from the batch.
LEMMA AttemptKeeps ==
    ASSUME Inv, NEW kind \in {"prepare", "lookup"}, pc = kind, pc' = pc, limit' = limit,
           batch # << >>, batch' = Tail(batch), Head(batch) \notin attempted[kind],
           attempted' = [attempted EXCEPT ![kind] = @ \cup {Head(batch)}],
           left' = [left EXCEPT ![kind] = @ - 1]
    PROVE  /\ left' \in [Kinds -> Nat] /\ attempted' \in [Kinds -> SUBSET Items] /\ BudgetKept'
           /\ \A i \in Items : i \in attempted'["prepare"] <=>
                 i \in attempted["prepare"] \/ (kind = "prepare" /\ i = Head(batch))
<1> DEFINE i == Head(batch)
           rest == Range(batch) \ attempted[kind]
<1>1. /\ batch \in Seq(Items) /\ IsInjective(batch) /\ limit \in [Kinds -> Nat]
      /\ left \in [Kinds -> Nat] /\ attempted \in [Kinds -> SUBSET Items] /\ BudgetKept
    BY BatchAssumption DEF Inv, TypeOK, BatchInOrder
<1>2. /\ i \in Items /\ i \in Range(batch) /\ Range(batch') = Range(batch) \ {i}
    BY <1>1, NextOfBatch
<1>3. /\ IsFiniteSet(rest) /\ Cardinality(rest) \in Nat /\ Cardinality(rest) <= left[kind]
    BY <1>1, BatchCounted DEF BudgetKept
<1>4. i \in rest
    BY <1>2
<1>5. Cardinality(rest \ {i}) = Cardinality(rest) - 1 /\ Cardinality(rest) # 0
    BY <1>3, <1>4, FS_RemoveElement, FS_EmptySet
<1>6. left[kind] \in Nat /\ left[kind] - 1 \in Nat /\ kind \in Kinds
    BY <1>1, <1>3, <1>5 DEF Kinds
<1>7. /\ left' \in [Kinds -> Nat] /\ left'[kind] = left[kind] - 1
      /\ \A k \in Kinds : k # kind => left'[k] = left[k]
    BY <1>1, <1>6
<1>8. /\ attempted' \in [Kinds -> SUBSET Items] /\ attempted'[kind] = attempted[kind] \cup {i}
      /\ \A k \in Kinds : k # kind => attempted'[k] = attempted[k]
    BY <1>1, <1>2, <1>6
<1>9. IsFiniteSet(attempted[kind]) /\ Cardinality(attempted[kind]) \in Nat
    BY <1>1, <1>6, FiniteIds
<1>10. Cardinality(attempted'[kind]) = Cardinality(attempted[kind]) + 1
    BY <1>8, <1>9, FS_AddElement
<1>11. Range(batch') \ attempted'[kind] = rest \ {i}
    BY <1>2, <1>8
<1> HIDE DEF rest
<1>12. Cardinality(attempted'[kind]) + left'[kind] = limit[kind]
    BY <1>1, <1>6, <1>7, <1>9, <1>10 DEF BudgetKept
<1>13. Cardinality(Range(batch') \ attempted'[kind]) <= left'[kind]
    <2>1. Cardinality(rest \ {i}) <= left[kind] - 1
        BY <1>3, <1>5, <1>6
    <2> QED
        BY <1>7, <1>11, <2>1
<1>14. BudgetKept'
    <2> SUFFICES ASSUME NEW k \in {"prepare", "lookup"}
                 PROVE  /\ Cardinality(attempted'[k]) + left'[k] = limit'[k]
                        /\ pc' = k => Cardinality(Range(batch') \ attempted'[k]) <= left'[k]
        BY DEF BudgetKept
    <2>1. CASE k = kind
        BY <1>12, <1>13, <2>1
    <2>2. CASE k # kind
        BY <1>1, <1>7, <1>8, <2>2 DEF BudgetKept, Kinds
    <2> QED
        BY <2>1, <2>2
<1> QED
    BY <1>7, <1>8, <1>14 DEF Kinds

\* A batch that is chosen fits what is left.
LEMMA ChooseKeeps ==
    ASSUME Inv, NEW kind \in {"prepare", "lookup"}, pc' = kind, NEW ids \in SUBSET Items,
           Choose(kind, ids, left[kind]), UNCHANGED <<limit, left, attempted>>
    PROVE  /\ batch' \in Seq(Items) /\ IsInjective(batch') /\ Range(batch') \subseteq ids
           /\ cursor' \in [Kinds -> Items \cup {0}] /\ BudgetKept'
<1> DEFINE b == BatchAfter(cursor[kind], ids, left[kind])
<1>1. /\ kind \in Kinds /\ cursor \in [Kinds -> Items \cup {0}] /\ left \in [Kinds -> Nat]
      /\ Items \subseteq Nat /\ BudgetKept
    BY BatchAssumption DEF Inv, TypeOK, Kinds
<1>2. cursor[kind] \in Nat /\ left[kind] \in Nat
    <2>1. cursor[kind] \in Items \cup {0} /\ left[kind] \in Nat
        BY <1>1
    <2>2. Items \cup {0} \subseteq Nat
        BY <1>1
    <2> QED
        BY <2>1, <2>2
<1>3. /\ b \in Seq(ids) /\ IsInjective(b) /\ Range(b) \subseteq ids /\ Len(b) <= left[kind]
    BY <1>2, BatchIs
<1>4. batch' = b /\ cursor' = Advance(cursor, kind, b)
    BY DEF Choose
<1> HIDE DEF b
<1>5. b \in Seq(Items)
    BY <1>3
<1>6. cursor' \in [Kinds -> Items \cup {0}]
    <2>1. b # << >> => Last(b) \in Items
        BY <1>5 DEF Last
    <2> QED
        BY <1>1, <1>4, <2>1 DEF Advance
<1>7. Cardinality(Range(batch') \ attempted[kind]) <= left[kind]
    <2>1. Cardinality(Range(b) \ attempted[kind]) \in Nat
          /\ Cardinality(Range(b) \ attempted[kind]) <= Len(b)
        BY <1>5, BatchCounted
    <2>2. Len(b) \in Nat
        BY <1>5
    <2> QED
        BY <1>2, <1>3, <1>4, <2>1, <2>2
<1>8. BudgetKept'
    BY <1>1, <1>7 DEF BudgetKept
<1> QED
    BY <1>3, <1>4, <1>5, <1>6, <1>8

-----------------------------------------------------------------------------
(* Every step.                                                             *)

LEMMA InitKeeps ==
    Init => Inv
<1> SUFFICES ASSUME Init PROVE Inv
    OBVIOUS
<1>1. plan \in Seq(SUBSET Items) /\ limit \in [Kinds -> Nat] /\ Len(plan) \in Nat
    BY BatchAssumption DEF Init
<1>2. TypeOK
    BY <1>1 DEF Init, TypeOK, Work
<1>3. Cardinality({}) = 0 /\ Range(<< >>) = {}
    BY FS_EmptySet DEF Range
<1>4. BudgetKept
    BY <1>1, <1>3 DEF Init, BudgetKept, Kinds
<1>5. BatchInOrder
    BY <1>3 DEF Init, BatchInOrder, IsInjective
<1> QED
    BY <1>2, <1>4, <1>5 DEF Init, Inv, Forgotten, PreparesInOrder, EnsuredIsMarked

\* The end of a cycle.
LEMMA ForgetKeeps ==
    ASSUME Inv, Forget, UNCHANGED row, saved' \in [Kinds -> Items \cup {0}]
    PROVE  Inv'
<1>1. plan \in Seq(SUBSET Items) /\ limit \in [Kinds -> Nat] /\ Len(plan) \in Nat
    BY BatchAssumption DEF Inv, TypeOK
<1>2. TypeOK'
    BY <1>1 DEF Forget, Inv, TypeOK, Work
<1>3. Cardinality({}) = 0 /\ Range(<< >>) = {}
    BY FS_EmptySet DEF Range
<1>4. BudgetKept'
    BY <1>1, <1>3 DEF Forget, BudgetKept, Kinds
<1>5. BatchInOrder'
    BY <1>3 DEF Forget, BatchInOrder, IsInjective
<1> QED
    BY <1>2, <1>4, <1>5 DEF Forget, Inv, Forgotten, PreparesInOrder, EnsuredIsMarked

LEMMA StartCycleKeeps ==
    ASSUME Inv, StartCycle
    PROVE  Inv'
<1>1. PICK l \in Limits, p \in Plans :
         /\ limit' = l /\ left' = l /\ plan' = p
         /\ LET ready == {i \in UNION Range(p) : row[i] = "ready"}
                b == BatchAfter(saved["audit"], ready, l["audit"])
            IN  batch' = b /\ cursor' = Advance(saved, "audit", b)
    BY DEF StartCycle
<1> DEFINE ready == {i \in UNION Range(p) : row[i] = "ready"}
           b == BatchAfter(saved["audit"], ready, l["audit"])
<1>2. /\ p \in Seq(SUBSET Items) /\ Len(p) \in Nat /\ l \in [Kinds -> Nat] /\ Items \subseteq Nat
      /\ saved \in [Kinds -> Items \cup {0}]
    BY BatchAssumption DEF Inv, TypeOK
<1>3. attempted = [k \in Kinds |-> {}] /\ ensured = {} /\ pc' = "audit" /\ album = 0
      /\ UNCHANGED <<row, saved, attempted, auditFailed, album, pending, ensured>>
    BY DEF StartCycle, Inv, Forgotten
<1>4. ready \in SUBSET Items /\ \A i \in ready : row[i] = "ready"
    BY <1>2 DEF Range
<1>5. saved["audit"] \in Nat /\ l["audit"] \in Nat
    <2>1. saved["audit"] \in Items \cup {0} /\ l["audit"] \in Nat
        BY <1>2 DEF Kinds
    <2>2. Items \cup {0} \subseteq Nat
        BY <1>2
    <2> QED
        BY <2>1, <2>2
<1> HIDE DEF ready
<1>6. b \in Seq(ready) /\ IsInjective(b) /\ Range(b) \subseteq ready
    BY <1>4, <1>5, BatchIs
<1>7. batch' = b /\ cursor' = Advance(saved, "audit", b)
    BY <1>1 DEF ready
<1> HIDE DEF b
<1>8. b \in Seq(Items)
    BY <1>4, <1>6
<1>9. cursor' \in [Kinds -> Items \cup {0}]
    <2>1. b # << >> => Last(b) \in Items
        BY <1>8 DEF Last
    <2> QED
        BY <1>2, <1>7, <2>1 DEF Advance
<1>10. TypeOK'
    <2>1. plan' \in Plans /\ limit' \in Limits /\ left' \in [Kinds -> Nat] /\ album' \in 0 .. Len(plan')
        BY <1>1, <1>2, <1>3
    <2>2. TypeOK
        BY DEF Inv
    <2> QED
        BY <1>3, <1>7, <1>8, <1>9, <2>1, <2>2 DEF TypeOK
<1>11. BudgetKept'
    <2>1. Cardinality({}) = 0
        BY FS_EmptySet
    <2> QED
        BY <1>1, <1>2, <1>3, <2>1 DEF BudgetKept, Kinds
<1>12. BatchInOrder'
    BY <1>3, <1>4, <1>6, <1>7 DEF BatchInOrder
<1> QED
    BY <1>3, <1>10, <1>11, <1>12 DEF Inv, Forgotten, PreparesInOrder, EnsuredIsMarked

LEMMA AuditItemKeeps ==
    ASSUME Inv, NEW i \in Items, AuditItem(i)
    PROVE  Inv' /\ i \notin ensured
<1>1. /\ pc = "audit" /\ batch # << >> /\ i = Head(batch) /\ batch' = Tail(batch)
      /\ ensured' = ensured \cup {i}
      /\ UNCHANGED <<saved, pc, cursor, limit, left, attempted, plan, album, pending>>
    BY DEF AuditItem
<1>2. /\ batch \in Seq(Items) /\ IsInjective(batch) /\ row \in [Items -> Work]
      /\ ensured \subseteq Items /\ auditFailed \subseteq Items
      /\ \A j \in Range(batch) : row[j] = "ready" /\ j \notin ensured
    BY <1>1 DEF Inv, TypeOK, BatchInOrder
<1>3. /\ i \in Range(batch) /\ batch' \in Seq(Items) /\ IsInjective(batch')
      /\ Range(batch') = Range(batch) \ {i}
    BY <1>1, <1>2, NextOfBatch
<1>4. i \notin ensured /\ row[i] = "ready"
    BY <1>2, <1>3
<1>5. /\ auditFailed \subseteq auditFailed' /\ auditFailed' \subseteq Items
      /\ row' \in [Items -> Work] /\ \A j \in Items : j # i => row'[j] = row[j]
      /\ i \in auditFailed' \/ row'[i] \in {"pending", "ready"}
    <2>1. CASE UNCHANGED <<row, auditFailed>>
        BY <1>2, <1>4, <2>1
    <2>2. CASE row' = [row EXCEPT ![i] = "pending"] /\ UNCHANGED auditFailed
        BY <1>2, <2>2 DEF Work
    <2>3. CASE /\ auditFailed' = auditFailed \cup {i}
               /\ \E w \in {"ready", "prepare"} : row' = [row EXCEPT ![i] = w]
        BY <1>2, <2>3 DEF Work
    <2> QED
        BY <2>1, <2>2, <2>3 DEF AuditItem
<1>6. TypeOK'
    BY <1>1, <1>2, <1>3, <1>5 DEF Inv, TypeOK
<1>7. Forgotten' /\ PreparesInOrder'
    BY <1>1 DEF Forgotten, PreparesInOrder
<1>8. Range(batch) \subseteq Items
    BY <1>2 DEF Range
<1>9. BatchInOrder'
    BY <1>1, <1>2, <1>3, <1>5, <1>8 DEF BatchInOrder
<1>10. EnsuredIsMarked'
    BY <1>1, <1>2, <1>5 DEF Inv, EnsuredIsMarked
<1>11. BudgetKept'
    BY <1>1 DEF Inv, BudgetKept
<1> QED
    BY <1>4, <1>6, <1>7, <1>9, <1>10, <1>11 DEF Inv

LEMMA ChoosePrepareKeeps ==
    ASSUME Inv, ChoosePrepare
    PROVE  Inv'
<1> DEFINE ids == {i \in ItemsOf(album') : row[i] = "prepare"}
<1>1. /\ album < Len(plan) /\ album' = album + 1 /\ pc' = "prepare"
      /\ pending' = {i \in ItemsOf(album') : row[i] = "pending"}
      /\ Choose("prepare", ids, left["prepare"])
      /\ UNCHANGED <<row, saved, limit, left, attempted, auditFailed, plan, ensured>>
    BY DEF ChoosePrepare
<1>2. plan \in Seq(SUBSET Items) /\ Len(plan) \in Nat /\ album \in 0 .. Len(plan)
    BY BatchAssumption DEF Inv, TypeOK
<1>3. album' \in 1 .. Len(plan) /\ plan[album'] \subseteq Items
    BY <1>1, <1>2
<1>4. ids \in SUBSET Items /\ \A i \in ids : i \notin auditFailed /\ row[i] = "prepare"
    BY <1>3 DEF ItemsOf
<1> HIDE DEF ids
<1>5. /\ batch' \in Seq(Items) /\ IsInjective(batch') /\ Range(batch') \subseteq ids
      /\ cursor' \in [Kinds -> Items \cup {0}] /\ BudgetKept'
    BY <1>1, <1>4, ChooseKeeps
<1>6. pending' \subseteq Items
    BY <1>1, <1>3 DEF ItemsOf
<1>7. TypeOK'
    BY <1>1, <1>2, <1>3, <1>5, <1>6 DEF Inv, TypeOK
<1>8. Forgotten' /\ BatchInOrder' /\ PreparesInOrder'
    BY <1>1, <1>4, <1>5 DEF Forgotten, BatchInOrder, PreparesInOrder
<1>9. EnsuredIsMarked'
    BY <1>1 DEF Inv, EnsuredIsMarked
<1> QED
    BY <1>5, <1>7, <1>8, <1>9 DEF Inv

LEMMA PrepareItemKeeps ==
    ASSUME Inv, NEW i \in Items, PrepareItem(i)
    PROVE  Inv' /\ i \notin ensured
<1>1. /\ pc = "prepare" /\ batch # << >> /\ i = Head(batch) /\ batch' = Tail(batch)
      /\ i \notin attempted["prepare"] /\ ensured' = ensured \cup {i}
      /\ attempted' = [attempted EXCEPT !["prepare"] = @ \cup {Head(batch)}]
      /\ left' = [left EXCEPT !["prepare"] = @ - 1]
      /\ UNCHANGED <<saved, pc, cursor, limit, auditFailed, plan, album>>
    BY DEF PrepareItem
<1>2. PICK w \in Work : /\ row' = [row EXCEPT ![i] = w]
                        /\ pending' = IF w = "pending" THEN pending \cup {i} ELSE pending
    BY DEF PrepareItem
<1>3. /\ batch \in Seq(Items) /\ IsInjective(batch) /\ row \in [Items -> Work]
      /\ ensured \subseteq Items /\ pending \subseteq Items
      /\ \A j \in Range(batch) : j \notin auditFailed
                                 /\ (row[j] = "prepare" \/ j \in attempted["prepare"])
    BY <1>1 DEF Inv, TypeOK, BatchInOrder, PreparesInOrder
<1>4. /\ i \in Range(batch) /\ batch' \in Seq(Items) /\ IsInjective(batch')
      /\ Range(batch') = Range(batch) \ {i}
    BY <1>1, <1>3, NextOfBatch
<1>5. i \notin ensured
    BY <1>1, <1>3, <1>4 DEF Inv, EnsuredIsMarked
<1>6. /\ left' \in [Kinds -> Nat] /\ attempted' \in [Kinds -> SUBSET Items] /\ BudgetKept'
      /\ \A j \in Items : j \in attempted'["prepare"] <=> j \in attempted["prepare"] \/ j = i
    BY <1>1, AttemptKeeps
<1>7. row' \in [Items -> Work] /\ \A j \in Items : j # i => row'[j] = row[j]
    BY <1>2, <1>3
<1>8. pending' \subseteq Items
    BY <1>2, <1>3
<1>9. TypeOK'
    BY <1>1, <1>3, <1>4, <1>6, <1>7, <1>8 DEF Inv, TypeOK
<1>10. Range(batch) \subseteq Items
    BY <1>3 DEF Range
<1>11. Forgotten' /\ BatchInOrder'
    BY <1>1, <1>4 DEF Forgotten, BatchInOrder
<1>12. PreparesInOrder'
    BY <1>1, <1>3, <1>4, <1>6, <1>7, <1>10 DEF PreparesInOrder
<1>13. EnsuredIsMarked'
    BY <1>1, <1>3, <1>6, <1>7 DEF Inv, EnsuredIsMarked
<1> QED
    BY <1>5, <1>6, <1>9, <1>11, <1>12, <1>13 DEF Inv

LEMMA SkipAttemptedKeeps ==
    ASSUME Inv, SkipAttempted
    PROVE  Inv'
<1>1. /\ pc \in {"prepare", "lookup"} /\ batch # << >> /\ Head(batch) \in attempted[pc]
      /\ batch' = Tail(batch)
      /\ UNCHANGED <<row, saved, pc, cursor, limit, left, attempted, auditFailed, plan, album,
                     pending, ensured>>
    BY DEF SkipAttempted
<1>2. batch \in Seq(Items) /\ IsInjective(batch)
    BY DEF Inv, TypeOK, BatchInOrder
<1>3. /\ batch' \in Seq(Items) /\ IsInjective(batch')
      /\ Range(batch') = Range(batch) \ {Head(batch)}
    BY <1>1, <1>2, NextOfBatch
<1>4. Range(batch') \ attempted[pc] = Range(batch) \ attempted[pc]
    BY <1>1, <1>3
<1>5. BudgetKept'
    BY <1>1, <1>4 DEF Inv, BudgetKept
<1>6. TypeOK'
    BY <1>1, <1>3 DEF Inv, TypeOK
<1>7. Forgotten' /\ BatchInOrder' /\ PreparesInOrder' /\ EnsuredIsMarked'
    BY <1>1, <1>3 DEF Inv, Forgotten, BatchInOrder, PreparesInOrder, EnsuredIsMarked
<1> QED
    BY <1>5, <1>6, <1>7 DEF Inv

LEMMA ChooseLookupKeeps ==
    ASSUME Inv, ChooseLookup
    PROVE  Inv'
<1>1. /\ pc' = "lookup" /\ Choose("lookup", pending, left["lookup"])
      /\ UNCHANGED <<row, saved, limit, left, attempted, auditFailed, plan, album, pending, ensured>>
    BY DEF ChooseLookup
<1>2. pending \in SUBSET Items
    BY DEF Inv, TypeOK
<1>3. /\ batch' \in Seq(Items) /\ IsInjective(batch')
      /\ cursor' \in [Kinds -> Items \cup {0}] /\ BudgetKept'
    BY <1>1, <1>2, ChooseKeeps
<1>4. TypeOK'
    BY <1>1, <1>3 DEF Inv, TypeOK
<1>5. Forgotten' /\ BatchInOrder' /\ PreparesInOrder' /\ EnsuredIsMarked'
    BY <1>1, <1>3 DEF Inv, Forgotten, BatchInOrder, PreparesInOrder, EnsuredIsMarked
<1> QED
    BY <1>3, <1>4, <1>5 DEF Inv

LEMMA LookUpItemKeeps ==
    ASSUME Inv, NEW i \in Items, LookUpItem(i)
    PROVE  Inv'
<1>1. /\ pc = "lookup" /\ batch # << >> /\ i = Head(batch) /\ batch' = Tail(batch)
      /\ i \notin attempted["lookup"]
      /\ attempted' = [attempted EXCEPT !["lookup"] = @ \cup {Head(batch)}]
      /\ left' = [left EXCEPT !["lookup"] = @ - 1]
      /\ UNCHANGED <<saved, pc, cursor, limit, auditFailed, plan, album, pending, ensured>>
    BY DEF LookUpItem
<1>2. PICK w \in {"pending", "ready"} : row' = [row EXCEPT ![i] = w]
    BY DEF LookUpItem
<1>3. batch \in Seq(Items) /\ IsInjective(batch) /\ row \in [Items -> Work] /\ ensured \subseteq Items
    BY DEF Inv, TypeOK, BatchInOrder
<1>4. batch' \in Seq(Items) /\ IsInjective(batch')
    BY <1>1, <1>3, NextOfBatch
<1>5. /\ left' \in [Kinds -> Nat] /\ attempted' \in [Kinds -> SUBSET Items] /\ BudgetKept'
      /\ \A j \in Items : j \in attempted'["prepare"] <=> j \in attempted["prepare"]
    BY <1>1, AttemptKeeps
<1>6. row' \in [Items -> Work] /\ row'[i] \in {"pending", "ready"}
      /\ \A j \in Items : j # i => row'[j] = row[j]
    BY <1>2, <1>3 DEF Work
<1>7. TypeOK'
    BY <1>1, <1>3, <1>4, <1>5, <1>6 DEF Inv, TypeOK
<1>8. Forgotten' /\ BatchInOrder' /\ PreparesInOrder'
    BY <1>1, <1>4 DEF Forgotten, BatchInOrder, PreparesInOrder
<1>9. EnsuredIsMarked'
    BY <1>1, <1>3, <1>5, <1>6 DEF Inv, EnsuredIsMarked
<1> QED
    BY <1>5, <1>7, <1>8, <1>9 DEF Inv

LEMMA NextKeeps ==
    Inv /\ [Next]_vars => Inv'
<1> SUFFICES ASSUME Inv, [Next]_vars PROVE Inv'
    OBVIOUS
<1>1. saved \in [Kinds -> Items \cup {0}] /\ cursor \in [Kinds -> Items \cup {0}]
    BY DEF Inv, TypeOK
<1>2. CASE StartCycle
    BY <1>2, StartCycleKeeps
<1>3. CASE ChoosePrepare
    BY <1>3, ChoosePrepareKeeps
<1>4. CASE SkipAttempted
    BY <1>4, SkipAttemptedKeeps
<1>5. CASE ChooseLookup
    BY <1>5, ChooseLookupKeeps
<1>6. CASE Finish
    BY <1>1, <1>6, ForgetKeeps DEF Finish
<1>7. CASE Abort
    BY <1>1, <1>7, ForgetKeeps DEF Abort
<1>8. CASE \E i \in Items : AuditItem(i) \/ PrepareItem(i) \/ LookUpItem(i)
    BY <1>8, AuditItemKeeps, PrepareItemKeeps, LookUpItemKeeps
<1>9. CASE UNCHANGED vars
    BY <1>9 DEF vars, memory, Inv, TypeOK, Forgotten, BatchInOrder, PreparesInOrder,
                EnsuredIsMarked, BudgetKept
<1> QED
    BY <1>2, <1>3, <1>4, <1>5, <1>6, <1>7, <1>8, <1>9 DEF Next, Step

-----------------------------------------------------------------------------
(* Theorems.                                                               *)

\* Rows, cursors and the memory of a cycle keep their types.
THEOREM TypeCorrect == Spec => []TypeOK
<1>1. Inv => TypeOK
    BY DEF Inv
<1> QED
    BY InitKeeps, NextKeeps, <1>1, PTL DEF Spec

\* A cycle attempts at most as much of each kind as its limit, over all albums, and no
\* batch in hand is larger than what is left of it.
THEOREM WithinLimits == Spec => []BudgetKept
<1>1. Inv => BudgetKept
    BY DEF Inv
<1> QED
    BY InitKeeps, NextKeeps, <1>1, PTL DEF Spec

\* ensureReplica is called once for an item in a cycle: not by the audit and then by
\* the preparation, nor for two albums.
THEOREM NeverEnsuredTwice == Spec => EnsuredOnce
<1>1. Inv /\ [Next]_vars => [\A i \in Items : AuditItem(i) \/ PrepareItem(i) => i \notin ensured]_vars
    BY AuditItemKeeps, PrepareItemKeeps
<1> QED
    BY InitKeeps, NextKeeps, <1>1, PTL DEF Spec, EnsuredOnce
=============================================================================
