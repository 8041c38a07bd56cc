---------------------------- MODULE Stacks_proofs ----------------------------
(* What Stacks creates and removes at the recipient has a source, for any  *)
(* numbers of assets, stacks, edits and faults.                            *)
EXTENDS Stacks, FiniteSetTheorems, TLAPS

-----------------------------------------------------------------------------
(* The inductive invariant: the stacks there are, and what a pass knows.   *)

\* The pass works on one stack.
AtWork == {"confirm", "delete", "inspect", "create", "write"}

\* The recipient's stacks have members, which exist, and share none.
StacksExist ==
    /\ \A s \in stacks :
          /\ s = [id |-> s.id, primary |-> s.primary, members |-> s.members]
          /\ s.members # {}
          /\ \A c \in s.members : copies[c[1]] = c[2]
    /\ \A s, t \in stacks : s # t => s.members \cap t.members = {}

\* A pass works on recorded source stacks, and forgets what it wanted with each.
WorkIsKnown ==
    /\ \A k \in todo : source[k] # None
    /\ IF pc \in AtWork THEN key \in StackIds \ todo /\ source[key] # None
       ELSE wanted = None
    /\ pc = "create" => wanted \in Lists

\* What the pass can read is what the source stack has been since it began.
SeenIsSince ==
    /\ stack \in seen
    /\ \A k \in StackIds : cache[k] # None => cache[k] \in seen

\* The list is the image of s.
IsImage(list, s) ==
    /\ list.primary \in list.members
    /\ list.primary[1] = s.primary
    /\ {c[1] : c \in list.members} = s.members

\* What the pass wants of the recipient was right at some time since it began.
WantedWasSeen ==
    /\ wanted \in Lists => \E s \in seen \ {None} : s.id = key /\ IsImage(wanted, s)
    /\ wanted = Gone =>
          /\ pc \in AtWork
          /\ \E s \in seen : s # None /\ s.id = key => source[key] \notin s.members

Inv == TypeOK /\ StacksExist /\ WorkIsKnown /\ SeenIsSince /\ WantedWasSeen

-----------------------------------------------------------------------------
(* Ids and stacks. *)

\* A set of numbers has a least one.
LEMMA LeastTyped == ASSUME NEW S, S \subseteq Nat, S # {} PROVE Least(S) \in S
<1>1. PICK x \in S : \A y \in S : <<y, x>> \notin OpToRel(<, Nat)
    BY WFMin, NatLessThanWellFounded, Zenon
<1>2. \A y \in S : ~(y < x)
    BY <1>1, Zenon DEF OpToRel
<1>3. \A y \in S : x <= y
    BY <1>2
<1> QED
    BY <1>3 DEF Least

\* At most one stack per asset is there, and at most one per source stack is recorded, so
\* that there is an id for another.
LEMMA NewIdTyped ==
    ASSUME AccountsTypeOK, TablesTypeOK, StacksExist
    PROVE  NewId \in RecipientStackIds
<1> DEFINE there == {s.id : s \in stacks}
           recorded == {Recorded(k).id : k \in StackIds}
           O == {a \in Assets : \E s \in stacks : <<a, copies[a]>> \in s.members}
           of(a) == CHOOSE s \in stacks : <<a, copies[a]>> \in s.members
           f == [a \in O |-> of(a).id]
           g == [k \in StackIds |-> Recorded(k).id]
<1>1. \A a \in O : of(a) \in stacks /\ <<a, copies[a]>> \in of(a).members
    OBVIOUS
<1>2. ASSUME NEW s \in stacks PROVE \E a \in O : f[a] = s.id
    <2>1. PICK c \in s.members : c \in Copies /\ copies[c[1]] = c[2]
        BY DEF StacksExist, AccountsTypeOK
    <2>2. c[1] \in Assets /\ c = <<c[1], copies[c[1]]>>
        BY <2>1 DEF Copies
    <2>3. c[1] \in O
        BY <2>2
    <2>4. of(c[1]) = s
        BY <1>1, <2>2, <2>3 DEF StacksExist
    <2> QED
        BY <2>3, <2>4
<1>3. f \in Surjection(O, there)
    <2> HIDE DEF of
    <2>1. \A a \in O : of(a).id \in there
        BY <1>1
    <2> HIDE DEF there, O
    <2>2. f \in [O -> there]
        BY <2>1
    <2>3. \A i \in there : \E a \in O : f[a] = i
        BY <1>2 DEF there
    <2> QED
        BY <2>2, <2>3, Zenon DEF Surjection
<1>4. IsFiniteSet(O) /\ Cardinality(O) <= Cardinality(Assets)
    BY StacksAssumption, FS_Subset
<1>5. IsFiniteSet(there) /\ Cardinality(there) <= Cardinality(O)
    BY <1>3, <1>4, FS_Surjection
<1>6. g \in Surjection(StackIds, recorded)
    BY DEF Surjection
<1>7. IsFiniteSet(recorded) /\ Cardinality(recorded) <= Cardinality(StackIds)
    BY <1>6, StacksAssumption, FS_Surjection
<1>8. /\ IsFiniteSet(there \cup recorded)
      /\ Cardinality(there \cup recorded) =
            Cardinality(there) + Cardinality(recorded) - Cardinality(there \cap recorded)
    BY <1>5, <1>7, FS_Union
<1>9. /\ Cardinality(there) \in Nat /\ Cardinality(recorded) \in Nat
      /\ Cardinality(O) \in Nat /\ Cardinality(Assets) \in Nat
      /\ Cardinality(StackIds) \in Nat /\ Cardinality(there \cap recorded) \in Nat
    BY <1>4, <1>5, <1>7, StacksAssumption, FS_Intersection, FS_CardinalityType
<1>10. Cardinality(there \cup recorded) <= Cardinality(Assets) + Cardinality(StackIds)
    BY <1>4, <1>5, <1>7, <1>8, <1>9
<1>11. RecipientStackIds \ (there \cup recorded) # {}
    <2> SUFFICES ASSUME RecipientStackIds \subseteq there \cup recorded PROVE FALSE
        OBVIOUS
    <2>1. /\ IsFiniteSet(RecipientStackIds)
          /\ Cardinality(RecipientStackIds) <= Cardinality(there \cup recorded)
        BY <1>8, FS_Subset
    <2>2. Cardinality(RecipientStackIds) \in Nat /\ Cardinality(there \cup recorded) \in Nat
        BY <1>8, <2>1, FS_CardinalityType
    <2> QED
        BY <1>9, <1>10, <2>1, <2>2, IdsAssumption
<1>12. RecipientStackIds \ (there \cup recorded) \subseteq Nat
    BY StacksAssumption
<1> QED
    BY <1>11, <1>12, LeastTyped, Zenon DEF NewId

\* A source stack of three or more is one without a photo.
LEMMA WithoutTyped ==
    ASSUME NEW s \in SourceStacks, NEW a \in s.members, Cardinality(s.members) # 2,
           NEW p \in s.members \ {a}
    PROVE  Without(s, a, p) \in SourceStacks
<1>1. /\ s \in [id : StackIds, primary : Assets, members : SUBSET Assets]
      /\ s.primary \in s.members /\ Cardinality(s.members) >= 2
    BY DEF SourceStacks
<1>2. IsFiniteSet(s.members)
    BY <1>1, StacksAssumption, FS_Subset
<1>3. Cardinality(s.members \ {a}) = Cardinality(s.members) - 1 /\ Cardinality(s.members) \in Nat
    BY <1>2, FS_RemoveElement, FS_CardinalityType
<1>4. Cardinality(s.members \ {a}) >= 2
    BY <1>1, <1>3
<1> DEFINE w == Without(s, a, p)
<1>5. w \in [id : StackIds, primary : Assets, members : SUBSET Assets]
    BY <1>1 DEF Without
<1>6. w.members = s.members \ {a}
    BY <1>1 DEF Without
<1>7. w.primary = IF s.primary = a THEN p ELSE s.primary
    BY <1>1 DEF Without
<1> QED
    BY <1>1, <1>4, <1>5, <1>6, <1>7 DEF SourceStacks

\* A copy is deleted: its stack is gone, or goes on without it.
LEMMA DeleteCopyKeeps ==
    ASSUME AccountsTypeOK, StacksExist, NEW a \in Assets, DeleteCopy(a),
           UNCHANGED <<alive, stack>>
    PROVE  AccountsTypeOK' /\ StacksExist'
<1> DEFINE c == <<a, copies[a]>>
           p(t) == CHOOSE e \in t.members \ {c} : TRUE
           after(t) == IF c \in t.members THEN Without(t, c, p(t)) ELSE t
<1>1. ASSUME NEW t \in stacks
      PROVE  /\ after(t).id = t.id /\ after(t).members = t.members \ {c}
             /\ after(t) = [id |-> after(t).id, primary |-> after(t).primary,
                            members |-> after(t).members]
    <2>1. t = [id |-> t.id, primary |-> t.primary, members |-> t.members]
        BY DEF StacksExist
    <2> QED
        BY <2>1, Zenon DEF Without
<1>2. ASSUME NEW s \in stacks'
      PROVE  \E t \in stacks : s = after(t) /\ t.members \ {c} # {}
    <2>1. CASE s \in stacks /\ c \notin s.members
        BY <2>1 DEF StacksExist
    <2>2. CASE ~(s \in stacks /\ c \notin s.members)
        <3>1. PICK t \in stacks : c \in t.members /\ Cardinality(t.members) > 2 /\ s = after(t)
            BY <2>2 DEF DeleteCopy, StacksWithout
        <3>2. t.members # {c}
            BY <3>1, FS_Singleton
        <3> QED
            BY <3>1, <3>2
    <2> QED
        BY <2>1, <2>2
<1> HIDE DEF c, after
<1>3. \A s \in stacks' : s.id \in RecipientStackIds /\ s.members \subseteq Copies
    BY <1>1, <1>2 DEF AccountsTypeOK
<1>4. copies' \in [Assets -> CopyIds \cup {0}]
    BY DEF DeleteCopy, AccountsTypeOK
<1>5. ASSUME NEW s \in stacks', NEW e \in s.members PROVE copies'[e[1]] = e[2]
    <2>1. PICK t \in stacks : e \in t.members /\ e # c
        BY <1>1, <1>2
    <2>2. e[1] \in Assets /\ e = <<e[1], e[2]>> /\ copies[e[1]] = e[2]
        BY <2>1 DEF StacksExist, AccountsTypeOK, Copies
    <2> QED
        BY <2>1, <2>2 DEF DeleteCopy, AccountsTypeOK, c
<1>6. StacksExist'
    <2>1. ASSUME NEW s \in stacks', NEW t \in stacks', s # t
          PROVE  s.members \cap t.members = {}
        <3>1. PICK u \in stacks : s = after(u)
            BY <1>2
        <3>2. PICK w \in stacks : t = after(w)
            BY <1>2
        <3>3. u.members \cap w.members = {}
            BY <2>1, <3>1, <3>2 DEF StacksExist
        <3> QED
            BY <1>1, <3>1, <3>2, <3>3
    <2>2. ASSUME NEW s \in stacks'
          PROVE  /\ s = [id |-> s.id, primary |-> s.primary, members |-> s.members]
                 /\ s.members # {}
        BY <1>1, <1>2
    <2> QED
        BY <1>5, <2>1, <2>2 DEF StacksExist
<1> QED
    BY <1>3, <1>4, <1>6 DEF AccountsTypeOK

\* A stack is created of copies that are there.
LEMMA StackedKeeps ==
    ASSUME AccountsTypeOK, StacksExist, wanted \in Lists, wanted.primary \in wanted.members,
           Exist(wanted), NEW i \in RecipientStackIds, stacks' = Stacked(i),
           UNCHANGED <<alive, stack, copies>>
    PROVE  AccountsTypeOK' /\ StacksExist'
<1> DEFINE new == [id |-> i, primary |-> wanted.primary, members |-> wanted.members]
<1>1. stacks' = {s \in stacks : s.members \cap wanted.members = {}} \cup {new}
    BY DEF Stacked
<1>2. wanted.members \subseteq Copies
    BY DEF Lists
<1>3. AccountsTypeOK'
    BY <1>1, <1>2 DEF AccountsTypeOK
<1>4. StacksExist'
    BY <1>1 DEF StacksExist, Exist
<1> QED
    BY <1>3, <1>4

\* A recorded list, and the ids of a set of stacks.
LEMMA RecordTyped ==
    ASSUME NEW i \in RecipientStackIds \cup {0}, NEW list \in Lists \cup {None}, NEW b \in BOOLEAN
    PROVE  [id |-> i, list |-> list, ready |-> b] \in Records
BY DEF Records

\* Orphans are stacks of the recipient.
LEMMA OrphansTyped ==
    ASSUME AccountsTypeOK', NEW i PROVE OrphansWith(i) \subseteq RecipientStackIds
BY DEF OrphansWith, AccountsTypeOK

-----------------------------------------------------------------------------
(* Steps of the users. *)

\* The source stack becomes t.
LEMMA SourceEditKeeps ==
    ASSUME Inv, NEW t \in SourceStacks \cup {None}, stack' = t, seen' = seen \cup {t},
           alive' \subseteq alive, Edit,
           UNCHANGED <<copies, stacks, tables, memory, orphans, stale, faults>>
    PROVE  Inv'
<1> USE DEF Inv, TypeOK
<1>1. AccountsTypeOK' /\ StacksExist'
    BY DEF AccountsTypeOK, StacksExist
<1>2. TablesTypeOK'
    BY DEF tables, TablesTypeOK
<1>3. MemoryTypeOK'
    BY DEF memory, MemoryTypeOK
<1>4. HistoryTypeOK'
    BY StacksAssumption DEF Edit, HistoryTypeOK
<1>5. WorkIsKnown' /\ SeenIsSince'
    BY DEF tables, memory, WorkIsKnown, SeenIsSince
<1>6. WantedWasSeen'
    BY DEF tables, memory, WantedWasSeen
<1> QED
    BY <1>1, <1>2, <1>3, <1>4, <1>5, <1>6

\* The source user stacks, restacks, unstacks and deletes photos.
LEMMA SourceUserKeeps ==
    ASSUME Inv, UserStack \/ UserRestack \/ UserUnstack \/ \E a \in Assets : UserDelete(a)
    PROVE  Inv'
<1>1. CASE UserStack \/ UserRestack \/ UserUnstack
    <2>1. stack' \in SourceStacks \cup {None}
        BY <1>1 DEF UserStack, UserRestack, UserUnstack
    <2> QED
        BY <1>1, <2>1, SourceEditKeeps DEF UserStack, UserRestack, UserUnstack
<1>2. ASSUME NEW a \in Assets, UserDelete(a) PROVE Inv'
    <2>1. stack' \in SourceStacks \cup {None}
        <3>1. stack \in SourceStacks \cup {None}
            BY DEF Inv, TypeOK, AccountsTypeOK
        <3>2. CASE stack = None \/ a \notin stack.members
            BY <1>2, <3>1, <3>2 DEF UserDelete
        <3>3. CASE stack # None /\ a \in stack.members /\ Cardinality(stack.members) = 2
            BY <1>2, <3>3 DEF UserDelete
        <3>4. CASE stack # None /\ a \in stack.members /\ Cardinality(stack.members) # 2
            <4>1. PICK p \in stack.members \ {a} : stack' = Without(stack, a, p)
                BY <1>2, <3>4 DEF UserDelete
            <4> QED
                BY <3>1, <3>4, <4>1, WithoutTyped
        <3> QED
            BY <3>2, <3>3, <3>4
    <2> QED
        BY <1>2, <2>1, SourceEditKeeps DEF UserDelete
<1> QED
    BY <1>1, <1>2

\* The recipient deletes a photo, or unstacks some.
LEMMA RecipientUserKeeps ==
    ASSUME Inv, RecipientUnstack \/ \E a \in Assets : RecipientDelete(a)
    PROVE  Inv'
<1> USE DEF Inv, TypeOK
<1>1. UNCHANGED <<alive, stack, tables, memory, seen, orphans, faults>> /\ Edit
      /\ stale' \subseteq stale \cup StackIds
    BY DEF RecipientUnstack, RecipientDelete
<1>2. AccountsTypeOK' /\ StacksExist'
    <2>1. ASSUME NEW a \in Assets, RecipientDelete(a) PROVE AccountsTypeOK' /\ StacksExist'
        BY <2>1, DeleteCopyKeeps DEF RecipientDelete
    <2>2. CASE RecipientUnstack
        BY <2>2 DEF RecipientUnstack, AccountsTypeOK, StacksExist
    <2> QED
        BY <2>1, <2>2
<1>3. TablesTypeOK' /\ MemoryTypeOK'
    BY <1>1 DEF tables, memory, TablesTypeOK, MemoryTypeOK
<1>4. HistoryTypeOK'
    BY <1>1, StacksAssumption DEF Edit, HistoryTypeOK
<1>5. WorkIsKnown' /\ SeenIsSince' /\ WantedWasSeen'
    BY <1>1 DEF tables, memory, WorkIsKnown, SeenIsSince, WantedWasSeen
<1> QED
    BY <1>2, <1>3, <1>4, <1>5

-----------------------------------------------------------------------------
(* Steps of the rest of the cycle. *)

\* Replicas come and go between the passes.
LEMMA ReplicasKeep ==
    ASSUME Inv, NEW a \in Assets, ShareAsset(a) \/ UnshareAsset(a) \/ AuditReplica(a)
    PROVE  Inv'
<1> USE DEF Inv, TypeOK
<1>1. UNCHANGED <<alive, stack, stacks, source, record, memory, seen, orphans, stale, faults>>
    BY DEF ShareAsset, UnshareAsset, AuditReplica, accounts
<1>2. edits' \in 0..MaxEdits
    BY StacksAssumption
    DEF ShareAsset, UnshareAsset, AuditReplica, Edit, accounts, HistoryTypeOK
<1>3. /\ copies' \in [Assets -> CopyIds \cup {0}]
      /\ \A b \in Assets : copies[b] # 0 => copies'[b] = copies[b]
    <2>1. CASE ShareAsset(a) /\ copies[a] = 0
        <3>1. PICK used \in SUBSET CopyIds :
                  used # CopyIds /\ copies' = [copies EXCEPT ![a] = Least(CopyIds \ used)]
            BY <2>1 DEF ShareAsset
        <3>2. Least(CopyIds \ used) \in CopyIds
            BY <3>1, LeastTyped, StacksAssumption
        <3> QED
            BY <2>1, <3>1, <3>2 DEF AccountsTypeOK
    <2>2. CASE ~(ShareAsset(a) /\ copies[a] = 0)
        BY <2>2 DEF ShareAsset, UnshareAsset, AuditReplica, accounts, AccountsTypeOK
    <2> QED
        BY <2>1, <2>2
<1>4. replica' \in [Assets -> CopyIds \cup {0}] /\ unused' \subseteq Assets
    BY <1>3 DEF ShareAsset, UnshareAsset, AuditReplica, TablesTypeOK
<1>5. AccountsTypeOK'
    BY <1>1, <1>3 DEF AccountsTypeOK
<1>6. StacksExist'
    <2>1. ASSUME NEW s \in stacks, NEW c \in s.members PROVE copies'[c[1]] = c[2]
        <3>1. c[1] \in Assets /\ c[2] # 0 /\ copies[c[1]] = c[2]
            BY StacksAssumption DEF AccountsTypeOK, StacksExist, Copies
        <3> QED
            BY <1>3, <3>1
    <2> QED
        BY <1>1, <2>1 DEF StacksExist
<1>7. TablesTypeOK' /\ MemoryTypeOK'
    BY <1>1, <1>4 DEF memory, TablesTypeOK, MemoryTypeOK
<1>8. HistoryTypeOK'
    BY <1>1, <1>2 DEF HistoryTypeOK
<1>9. WorkIsKnown' /\ SeenIsSince' /\ WantedWasSeen'
    BY <1>1 DEF memory, WorkIsKnown, SeenIsSince, WantedWasSeen
<1> QED
    BY <1>5, <1>6, <1>7, <1>8, <1>9

\* The replica's asset is deleted, unused replicas are marked, and the pass is over.
LEMMA CleanupKeeps ==
    ASSUME Inv, MarkUnused \/ \E a \in Assets : CleanUpReplica(a)
    PROVE  Inv'
<1> USE DEF Inv, TypeOK
<1>1. /\ UNCHANGED <<alive, stack, replica, source, record, cache, todo, key, wanted, made,
                     seen, orphans, stale, edits, faults>>
      /\ pc = "cleanup" /\ pc' \in {"cleanup", "idle"}
    BY DEF MarkUnused, CleanUpReplica, accounts, memory
<1>2. AccountsTypeOK' /\ StacksExist'
    <2>1. ASSUME NEW a \in Assets, CleanUpReplica(a) PROVE AccountsTypeOK' /\ StacksExist'
        BY <2>1, DeleteCopyKeeps DEF CleanUpReplica
    <2>2. CASE MarkUnused
        BY <2>2 DEF MarkUnused, accounts, AccountsTypeOK, StacksExist
    <2> QED
        BY <2>1, <2>2
<1>3. unused' \subseteq Assets
    BY DEF MarkUnused, CleanUpReplica, TablesTypeOK
<1>4. TablesTypeOK'
    BY <1>1, <1>3 DEF TablesTypeOK
<1>5. MemoryTypeOK' /\ HistoryTypeOK'
    BY <1>1 DEF MemoryTypeOK, HistoryTypeOK
<1>6. WorkIsKnown' /\ SeenIsSince' /\ WantedWasSeen'
    BY <1>1 DEF WorkIsKnown, SeenIsSince, WantedWasSeen, AtWork
<1> QED
    BY <1>2, <1>4, <1>5, <1>6

-----------------------------------------------------------------------------
(* Steps of a pass: discovery. *)

\* The primary of a source stack that was read is recorded.
LEMMA RememberTyped ==
    ASSUME TypeOK, NEW s \in SourceStacks, Remember(s)
    PROVE  /\ s.id \in StackIds /\ source'[s.id] # None
           /\ source' \in [StackIds -> Assets \cup {None}]
           /\ \A k \in StackIds : source[k] # None => source'[k] # None
           /\ \A k \in StackIds : k # s.id => source'[k] = source[k]
BY NoneAssumption DEF Remember, SourceStacks, TypeOK, TablesTypeOK

\* A read between the passes records the primary.
LEMMA RememberSourceStackKeeps == ASSUME Inv, RememberSourceStack PROVE Inv'
<1> USE DEF Inv, TypeOK
<1>1. /\ UNCHANGED <<accounts, replica, unused, record, memory, seen, orphans, stale, edits, faults>>
      /\ pc = "idle"
    BY DEF RememberSourceStack
<1>2. stack \in SourceStacks /\ Remember(stack)
    BY DEF RememberSourceStack, AccountsTypeOK
<1>3. AccountsTypeOK' /\ StacksExist' /\ MemoryTypeOK' /\ HistoryTypeOK'
    BY <1>1 DEF accounts, memory, AccountsTypeOK, StacksExist, MemoryTypeOK, HistoryTypeOK
<1>4. TablesTypeOK'
    BY <1>1, <1>2, RememberTyped DEF TablesTypeOK
<1>5. WorkIsKnown' /\ SeenIsSince' /\ WantedWasSeen'
    BY <1>1, <1>2, RememberTyped
    DEF accounts, memory, MemoryTypeOK, WorkIsKnown, SeenIsSince, WantedWasSeen, AtWork
<1> QED
    BY <1>3, <1>4, <1>5

\* A full pass begins with a listing of the source stacks.
LEMMA DiscoverKeeps == ASSUME Inv, DiscoverSourceStacks PROVE Inv'
<1> USE DEF Inv, TypeOK
<1>1. /\ UNCHANGED <<accounts, replica, unused, record, todo, key, wanted, made, orphans, stale, edits>>
      /\ pc = "idle" /\ pc' = "discovered" /\ seen' = {stack}
    BY DEF DiscoverSourceStacks
<1>2. source' = source \/ (stack \in SourceStacks /\ Remember(stack))
    BY DEF DiscoverSourceStacks, AccountsTypeOK
<1>3. /\ cache' \in [StackIds -> SourceStacks \cup {None}]
      /\ \A k \in StackIds : cache'[k] # None => cache'[k] = stack /\ stack.id = k
    BY DEF DiscoverSourceStacks, AccountsTypeOK
<1>4. faults' \in 0..MaxFaults
    BY StacksAssumption DEF DiscoverSourceStacks, Fails, CanFail, HistoryTypeOK
<1>5. AccountsTypeOK' /\ StacksExist'
    BY <1>1 DEF accounts, AccountsTypeOK, StacksExist
<1>6. TablesTypeOK'
    BY <1>1, <1>2, RememberTyped DEF TablesTypeOK
<1>7. MemoryTypeOK' /\ HistoryTypeOK'
    BY <1>1, <1>3, <1>4 DEF accounts, MemoryTypeOK, HistoryTypeOK, AccountsTypeOK
<1>8. WorkIsKnown' /\ SeenIsSince' /\ WantedWasSeen'
    BY <1>1, <1>2, <1>3, RememberTyped, NoneAssumption
    DEF accounts, MemoryTypeOK, WorkIsKnown, SeenIsSince, WantedWasSeen, AtWork
<1> QED
    BY <1>5, <1>6, <1>7, <1>8

\* The pass takes the recorded stacks.
LEMMA StartKeeps == ASSUME Inv, StartStacks PROVE Inv'
<1> USE DEF Inv, TypeOK
<1>1. /\ UNCHANGED <<accounts, tables, key, wanted, made, orphans, stale, edits, faults>>
      /\ pc \in {"idle", "discovered"} /\ pc' = "pick"
      /\ todo' = {k \in StackIds : source[k] # None}
    BY DEF StartStacks
<1>2. \/ UNCHANGED <<cache, seen>>
      \/ cache' = [k \in StackIds |-> None] /\ seen' = {stack}
    BY DEF StartStacks
<1>3. AccountsTypeOK' /\ StacksExist' /\ TablesTypeOK'
    BY <1>1 DEF accounts, tables, AccountsTypeOK, StacksExist, TablesTypeOK
<1>4. MemoryTypeOK' /\ HistoryTypeOK'
    BY <1>1, <1>2 DEF MemoryTypeOK, HistoryTypeOK, AccountsTypeOK
<1>5. WorkIsKnown' /\ SeenIsSince' /\ WantedWasSeen'
    BY <1>1, <1>2, NoneAssumption
    DEF accounts, tables, WorkIsKnown, SeenIsSince, WantedWasSeen, AtWork
<1> QED
    BY <1>3, <1>4, <1>5

\* No stack is left.
LEMMA FinishKeeps == ASSUME Inv, FinishStacks PROVE Inv'
<1> USE DEF Inv, TypeOK
<1>1. AccountsTypeOK' /\ StacksExist' /\ TablesTypeOK' /\ HistoryTypeOK'
    BY DEF FinishStacks, accounts, tables, AccountsTypeOK, StacksExist, TablesTypeOK, HistoryTypeOK
<1>2. MemoryTypeOK' /\ WorkIsKnown' /\ SeenIsSince' /\ WantedWasSeen'
    BY DEF FinishStacks, accounts, tables, MemoryTypeOK, WorkIsKnown, SeenIsSince, WantedWasSeen,
       AtWork
<1> QED
    BY <1>1, <1>2

\* The pass is cut short and forgets everything.
LEMMA AbortKeeps == ASSUME Inv, Abort PROVE Inv'
<1> USE DEF Inv, TypeOK
<1>1. /\ UNCHANGED <<accounts, tables, seen, edits>>
      /\ stale' \subseteq stale \cup StackIds
      /\ pc' = "idle" /\ todo' = {} /\ key' = None /\ wanted' = None /\ made' = 0
      /\ cache' = [k \in StackIds |-> None]
    BY DEF Abort, Unrecorded
<1>2. AccountsTypeOK' /\ StacksExist' /\ TablesTypeOK'
    BY <1>1 DEF accounts, tables, AccountsTypeOK, StacksExist, TablesTypeOK
<1>3. faults' \in 0..MaxFaults
    BY StacksAssumption DEF Abort, Fails, CanFail, HistoryTypeOK
<1>4. orphans' \subseteq RecipientStackIds
    BY <1>2, OrphansTyped DEF Abort, HistoryTypeOK
<1>5. MemoryTypeOK' /\ HistoryTypeOK'
    BY <1>1, <1>3, <1>4 DEF MemoryTypeOK, HistoryTypeOK
<1>6. WorkIsKnown' /\ SeenIsSince' /\ WantedWasSeen'
    BY <1>1, NoneAssumption DEF accounts, WorkIsKnown, SeenIsSince, WantedWasSeen, AtWork
<1> QED
    BY <1>2, <1>5, <1>6

-----------------------------------------------------------------------------
(* Steps of a pass: one source stack. *)

\* A list is the image of the source stack that it was made from.
LEMMA ListTyped ==
    ASSUME TablesTypeOK, NEW s \in SourceStacks
    PROVE  LET list == StackRecipientAssets(s)
           IN  list = None \/ (list \in Lists /\ IsImage(list, s))
<1> SUFFICES ASSUME \A a \in s.members : replica[a] # 0
             PROVE  LET list == [primary |-> <<s.primary, replica[s.primary]>>,
                                 members |-> {<<a, replica[a]>> : a \in s.members}]
                    IN  list \in Lists /\ IsImage(list, s)
    BY DEF StackRecipientAssets
<1>1. s.primary \in s.members /\ s.members \subseteq Assets
    BY DEF SourceStacks
<1>2. \A a \in s.members : <<a, replica[a]>> \in Copies
    BY <1>1 DEF TablesTypeOK, Copies
<1>3. {<<a, replica[a]>> : a \in s.members} \subseteq Copies
    BY <1>2
<1> DEFINE members == {<<a, replica[a]>> : a \in s.members}
<1>4. {c[1] : c \in members} = s.members
    <2>1. ASSUME NEW a \in s.members PROVE \E c \in members : c[1] = a
        <3>1. <<a, replica[a]>> \in members /\ <<a, replica[a]>>[1] = a
            OBVIOUS
        <3> HIDE DEF members
        <3> QED
            BY <3>1
    <2>2. \A c \in members : c[1] \in s.members
        OBVIOUS
    <2> HIDE DEF members
    <2> QED
        BY <2>1, <2>2
<1> QED
    BY <1>1, <1>2, <1>3, <1>4 DEF Lists, IsImage

\* The stack has been read: its image is what is wanted, if the record differs.
LEMMA TakeKeeps == ASSUME Inv, NEW k \in StackIds, TakeStack(k) PROVE Inv'
<1> USE DEF Inv, TypeOK
<1>1. UNCHANGED <<accounts, replica, unused, cache, seen, orphans, stale, edits, faults>>
    BY DEF TakeStack
<1>2. k \in todo /\ todo' = todo \ {k} /\ pc = "pick"
    BY DEF TakeStack
<1>3. PICK s \in Readable(k) : Remember(s) /\ Compare(s)
    BY DEF TakeStack
<1>4. s \in SourceStacks /\ s # None /\ s.id = k /\ s \in seen
    BY NoneAssumption DEF Readable, SeenIsSince, AccountsTypeOK, MemoryTypeOK
<1> DEFINE list == StackRecipientAssets(s)
<1>5. list = None \/ (list \in Lists /\ IsImage(list, s))
    BY <1>4, ListTyped
<1>6. \/ Done /\ (UNCHANGED record \/ record' = [record EXCEPT ![k] = NoStack])
      \/ /\ pc' = "delete" /\ key' = k /\ wanted' = list
         /\ UNCHANGED <<record, made>>
      \/ /\ list # None /\ pc' = "create" /\ key' = k /\ wanted' = list
         /\ UNCHANGED <<record, made>>
    BY <1>3, <1>4, Zenon DEF Compare
<1> HIDE DEF list
<1>7. AccountsTypeOK' /\ StacksExist' /\ HistoryTypeOK'
    BY <1>1 DEF accounts, AccountsTypeOK, StacksExist, HistoryTypeOK
<1>8. TablesTypeOK'
    <2>1. NoStack \in Records
        BY RecordTyped DEF NoStack
    <2> QED
        BY <1>1, <1>3, <1>4, <1>6, <2>1, RememberTyped DEF TablesTypeOK
<1>9. MemoryTypeOK'
    BY <1>1, <1>2, <1>5, <1>6 DEF Done, MemoryTypeOK
<1>10. WorkIsKnown'
    BY <1>2, <1>3, <1>4, <1>5, <1>6, RememberTyped DEF Done, MemoryTypeOK, WorkIsKnown, AtWork
<1>11. SeenIsSince'
    BY <1>1 DEF accounts, SeenIsSince
<1>12. WantedWasSeen'
    BY <1>1, <1>4, <1>5, <1>6, NoneAssumption DEF Done, WantedWasSeen, AtWork
<1> QED
    BY <1>7, <1>8, <1>9, <1>10, <1>11, <1>12

\* The stack could not be read.
LEMMA TakeMissingKeeps == ASSUME Inv, NEW k \in StackIds, TakeMissing(k) PROVE Inv'
<1> USE DEF Inv, TypeOK
<1>1. /\ UNCHANGED <<accounts, tables, cache, wanted, made, seen, orphans, stale, edits>>
      /\ pc = "pick" /\ k \in todo /\ todo' = todo \ {k} /\ pc' = "confirm" /\ key' = k
    BY DEF TakeMissing
<1>2. AccountsTypeOK' /\ StacksExist' /\ TablesTypeOK'
    BY <1>1 DEF accounts, tables, AccountsTypeOK, StacksExist, TablesTypeOK
<1>3. faults' \in 0..MaxFaults
    BY StacksAssumption DEF TakeMissing, Fails, CanFail, HistoryTypeOK
<1>4. MemoryTypeOK' /\ HistoryTypeOK'
    BY <1>1, <1>3 DEF MemoryTypeOK, HistoryTypeOK
<1>5. WorkIsKnown' /\ SeenIsSince' /\ WantedWasSeen'
    BY <1>1, NoneAssumption
    DEF accounts, tables, MemoryTypeOK, WorkIsKnown, SeenIsSince, WantedWasSeen, AtWork
<1> QED
    BY <1>2, <1>4, <1>5

\* The deletion of a stack that could not be read is decided on what the source stack is.
LEMMA ConfirmKeeps == ASSUME Inv, ConfirmGone PROVE Inv'
<1> USE DEF Inv, TypeOK
<1>1. UNCHANGED <<accounts, tables, cache, todo, seen, orphans, stale, edits>> /\ pc = "confirm"
    BY DEF ConfirmGone
<1>2. \/ /\ SourceStackGone(key)
         /\ pc' \in {"delete", "write"} /\ wanted' = Gone /\ UNCHANGED <<key, made, faults>>
      \/ Done /\ (UNCHANGED faults \/ Fails)
    BY DEF ConfirmGone
<1>3. AccountsTypeOK' /\ StacksExist' /\ TablesTypeOK'
    BY <1>1 DEF accounts, tables, AccountsTypeOK, StacksExist, TablesTypeOK
<1>4. MemoryTypeOK' /\ HistoryTypeOK'
    BY <1>1, <1>2, StacksAssumption DEF Done, Fails, CanFail, MemoryTypeOK, HistoryTypeOK
<1>5. WorkIsKnown' /\ SeenIsSince'
    BY <1>1, <1>2, NoneAssumption DEF Done, accounts, tables, WorkIsKnown, SeenIsSince, AtWork
<1>6. WantedWasSeen'
    <2>1. CASE Done
        BY <2>1, NoneAssumption DEF Done, WantedWasSeen
    <2>2. CASE SourceStackGone(key) /\ pc' \in {"delete", "write"} /\ wanted' = Gone
               /\ UNCHANGED key
        BY <1>1, <2>2, NoneAssumption
        DEF SourceStackGone, SeenIsSince, tables, WantedWasSeen, AtWork
    <2> QED
        BY <1>2, <2>1, <2>2
<1> QED
    BY <1>3, <1>4, <1>5, <1>6

\* A step that leaves what is wanted goes on to what may follow.
LEMMA GoOnKeeps ==
    ASSUME Inv, pc \in AtWork,
           UNCHANGED <<alive, stack, copies, tables, cache, todo, key, wanted, made, seen,
                       orphans, edits>>,
           stale' \subseteq stale \cup StackIds,
           pc' = IF wanted \in {None, Gone} THEN "write" ELSE "create",
           AccountsTypeOK' /\ StacksExist', faults' \in 0..MaxFaults
    PROVE  Inv'
<1> USE DEF Inv, TypeOK
<1>1. TablesTypeOK' /\ HistoryTypeOK'
    BY DEF tables, TablesTypeOK, HistoryTypeOK
<1>2. MemoryTypeOK'
    BY DEF MemoryTypeOK
<1>3. WorkIsKnown'
    BY DEF tables, MemoryTypeOK, WorkIsKnown, AtWork
<1>4. SeenIsSince' /\ WantedWasSeen'
    BY DEF tables, SeenIsSince, WantedWasSeen, AtWork
<1> QED
    BY <1>1, <1>2, <1>3, <1>4

\* The recipient's stack is deleted, or an inspection shows that it was.
LEMMA DeleteKeeps ==
    ASSUME Inv, DeleteRecipientStack \/ DeleteFails \/ InspectPrimary
    PROVE  Inv'
<1> USE DEF Inv, TypeOK
<1>1. /\ UNCHANGED <<alive, stack, copies, tables, cache, todo, seen, orphans, edits>>
      /\ stacks' \subseteq stacks /\ stale' \subseteq stale \cup StackIds
    BY DEF DeleteRecipientStack, DeleteFails, InspectPrimary, Unrecorded, accounts
<1>2. AccountsTypeOK' /\ StacksExist'
    BY <1>1 DEF AccountsTypeOK, StacksExist
<1>3. faults' \in 0..MaxFaults
    BY StacksAssumption
    DEF DeleteRecipientStack, DeleteFails, InspectPrimary, Fails, CanFail, HistoryTypeOK
<1>4. CASE DeleteRecipientStack
    BY <1>1, <1>2, <1>3, <1>4, GoOnKeeps DEF DeleteRecipientStack, AtWork
<1>5. CASE DeleteFails
    <2>1. pc = "delete" /\ pc' = "inspect" /\ UNCHANGED <<key, wanted, made>>
        BY <1>5 DEF DeleteFails
    <2>2. TablesTypeOK' /\ MemoryTypeOK' /\ HistoryTypeOK'
        BY <1>1, <1>3, <2>1 DEF tables, TablesTypeOK, MemoryTypeOK, HistoryTypeOK
    <2>3. WorkIsKnown' /\ SeenIsSince' /\ WantedWasSeen'
        BY <1>1, <2>1 DEF tables, WorkIsKnown, SeenIsSince, WantedWasSeen, AtWork
    <2> QED
        BY <1>2, <2>2, <2>3
<1>6. CASE InspectPrimary
    <2>1. CASE UNCHANGED <<key, wanted, made>>
               /\ pc' = IF wanted \in {None, Gone} THEN "write" ELSE "create"
        BY <1>1, <1>2, <1>3, <1>6, <2>1, GoOnKeeps DEF InspectPrimary, AtWork, HistoryTypeOK
    <2>2. CASE Done
        <3>1. TablesTypeOK' /\ MemoryTypeOK' /\ HistoryTypeOK'
            BY <1>1, <1>3, <2>2 DEF Done, tables, TablesTypeOK, MemoryTypeOK, HistoryTypeOK
        <3>2. WorkIsKnown' /\ SeenIsSince' /\ WantedWasSeen'
            BY <1>1, <2>2, NoneAssumption
            DEF Done, tables, WorkIsKnown, SeenIsSince, WantedWasSeen, AtWork
        <3> QED
            BY <1>2, <3>1, <3>2
    <2> QED
        BY <1>6, <2>1, <2>2 DEF InspectPrimary
<1> QED
    BY <1>4, <1>5, <1>6

\* The stack that is wanted is created, and then written down.
LEMMA CreateKeeps == ASSUME Inv, CreateStack PROVE Inv'
<1> USE DEF Inv, TypeOK
<1>1. /\ UNCHANGED <<alive, stack, copies, tables, cache, todo, key, wanted, seen, stale, edits,
                   faults>>
      /\ pc = "create" /\ pc' = "write" /\ Exist(wanted)
      /\ stacks' = Stacked(NewId) /\ made' = NewId /\ orphans' \subseteq OrphansWith(0)
    BY DEF CreateStack
<1>2. wanted \in Lists /\ wanted.primary \in wanted.members
    BY <1>1 DEF WorkIsKnown, WantedWasSeen, IsImage
<1>3. NewId \in RecipientStackIds
    BY NewIdTyped
<1>4. AccountsTypeOK' /\ StacksExist'
    BY <1>1, <1>2, <1>3, StackedKeeps
<1>5. TablesTypeOK' /\ MemoryTypeOK'
    BY <1>1, <1>3 DEF tables, TablesTypeOK, MemoryTypeOK
<1>6. HistoryTypeOK'
    BY <1>1, <1>4, OrphansTyped DEF HistoryTypeOK
<1>7. WorkIsKnown' /\ SeenIsSince' /\ WantedWasSeen'
    BY <1>1 DEF tables, WorkIsKnown, SeenIsSince, WantedWasSeen, AtWork
<1> QED
    BY <1>4, <1>5, <1>6, <1>7

\* The creation fails, or its answer is lost; the record says that nothing is there.
LEMMA CreateFailsKeeps == ASSUME Inv, CreateFails PROVE Inv'
<1> USE DEF Inv, TypeOK
<1>1. /\ UNCHANGED <<alive, stack, copies, replica, unused, source, cache, todo, seen, edits>>
      /\ pc = "create" /\ Done /\ stale' \subseteq stale
      /\ record' = [record EXCEPT ![key] = [id |-> 0, list |-> wanted, ready |-> FALSE]]
      /\ \/ UNCHANGED <<stacks, orphans>>
         \/ Exist(wanted) /\ stacks' = Stacked(NewId) /\ orphans' = OrphansWith(NewId)
    BY DEF CreateFails
<1>2. /\ wanted \in Lists /\ wanted.primary \in wanted.members
      /\ key \in StackIds /\ source[key] # None
    BY <1>1 DEF WorkIsKnown, WantedWasSeen, IsImage, AtWork
<1>3. NewId \in RecipientStackIds
    BY NewIdTyped
<1>4. AccountsTypeOK' /\ StacksExist'
    <2>1. CASE UNCHANGED stacks
        BY <1>1, <2>1 DEF AccountsTypeOK, StacksExist
    <2> QED
        BY <1>1, <1>2, <1>3, <2>1, StackedKeeps
<1>5. TablesTypeOK'
    BY <1>1, <1>2, RecordTyped DEF TablesTypeOK
<1>6. faults' \in 0..MaxFaults
    BY StacksAssumption DEF CreateFails, Fails, CanFail, HistoryTypeOK
<1>7. MemoryTypeOK' /\ HistoryTypeOK'
    BY <1>1, <1>4, <1>6, OrphansTyped DEF Done, MemoryTypeOK, HistoryTypeOK
<1>8. WorkIsKnown' /\ SeenIsSince' /\ WantedWasSeen'
    BY <1>1, NoneAssumption DEF Done, WorkIsKnown, SeenIsSince, WantedWasSeen, AtWork
<1> QED
    BY <1>4, <1>5, <1>7, <1>8

\* What was done is written down, or the source stack is forgotten.
LEMMA WriteKeeps == ASSUME Inv, WriteRecord PROVE Inv'
<1> USE DEF Inv, TypeOK
<1>1. /\ UNCHANGED <<accounts, replica, unused, cache, todo, seen, orphans, edits, faults>>
      /\ pc = "write" /\ Done /\ stale' \subseteq stale \cup {key}
    BY DEF WriteRecord
<1>2. key \in StackIds /\ source[key] # None
    BY <1>1 DEF WorkIsKnown, AtWork
<1>3. \/ /\ source' = [source EXCEPT ![key] = None]
         /\ record' = [record EXCEPT ![key] = None]
      \/ /\ UNCHANGED source
         /\ \E r \in Records : record' = [record EXCEPT ![key] = r]
    <2>1. NoStack \in Records
        BY RecordTyped DEF NoStack
    <2>2. wanted \in Lists => [id |-> made, list |-> wanted, ready |-> TRUE] \in Records
        BY RecordTyped DEF MemoryTypeOK
    <2> QED
        BY <2>1, <2>2 DEF WriteRecord, MemoryTypeOK
<1>4. AccountsTypeOK' /\ StacksExist'
    BY <1>1 DEF accounts, AccountsTypeOK, StacksExist
<1>5. TablesTypeOK'
    BY <1>1, <1>2, <1>3 DEF TablesTypeOK
<1>6. MemoryTypeOK' /\ HistoryTypeOK'
    BY <1>1, <1>2 DEF Done, MemoryTypeOK, HistoryTypeOK
<1>7. WorkIsKnown'
    BY <1>1, <1>3 DEF Done, TablesTypeOK, MemoryTypeOK, WorkIsKnown, AtWork
<1>8. SeenIsSince' /\ WantedWasSeen'
    BY <1>1, NoneAssumption DEF Done, accounts, SeenIsSince, WantedWasSeen
<1> QED
    BY <1>4, <1>5, <1>6, <1>7, <1>8

-----------------------------------------------------------------------------
(* The specification. *)

\* At first all assets are stacked, and nothing is recorded.
LEMMA InitKeeps == Init => Inv
<1> SUFFICES ASSUME Init PROVE Inv
    OBVIOUS
<1>1. stack \in SourceStacks
    <2>1. (CHOOSE k \in StackIds : TRUE) \in StackIds
        BY StacksAssumption
    <2>2. (CHOOSE a \in Assets : TRUE) \in Assets
        <3>1. Assets # {}
            BY StacksAssumption, FS_EmptySet
        <3> QED
            BY <3>1
    <2> QED
        BY <2>1, <2>2, StacksAssumption DEF Init, SourceStacks
<1>2. Least(CopyIds) \in CopyIds
    BY LeastTyped, StacksAssumption
<1>3. AccountsTypeOK /\ StacksExist
    BY <1>1, <1>2 DEF Init, AccountsTypeOK, StacksExist
<1>4. TablesTypeOK
    BY <1>2 DEF Init, TablesTypeOK
<1>5. MemoryTypeOK /\ HistoryTypeOK
    BY <1>1, StacksAssumption DEF Init, MemoryTypeOK, HistoryTypeOK
<1>6. WorkIsKnown /\ SeenIsSince /\ WantedWasSeen
    BY NoneAssumption DEF Init, WorkIsKnown, SeenIsSince, WantedWasSeen, AtWork
<1> QED
    BY <1>3, <1>4, <1>5, <1>6 DEF Inv, TypeOK

\* Every step keeps the invariant.
LEMMA NextKeeps == Inv /\ [Next]_vars => Inv'
<1> SUFFICES ASSUME Inv, [Next]_vars PROVE Inv'
    OBVIOUS
<1>1. CASE UNCHANGED vars
    BY <1>1 DEF vars, accounts, tables, memory, history, Inv, TypeOK, AccountsTypeOK,
       TablesTypeOK, MemoryTypeOK, HistoryTypeOK, StacksExist, WorkIsKnown, SeenIsSince,
       WantedWasSeen
<1>2. CASE Users
    BY <1>2, SourceUserKeeps, RecipientUserKeeps DEF Users
<1>3. CASE Replicas
    BY <1>3, ReplicasKeep, RememberSourceStackKeeps DEF Replicas
<1>4. CASE Pass
    BY <1>4, CleanupKeeps, DiscoverKeeps, StartKeeps, FinishKeeps, TakeKeeps, TakeMissingKeeps,
       ConfirmKeeps, DeleteKeeps, CreateKeeps, CreateFailsKeeps, WriteKeeps DEF Pass
<1> QED
    BY <1>1, <1>2, <1>3, <1>4, AbortKeeps DEF Next

\* Accounts, tables and memory keep their types; what is created gets an id that no stack
\* and no record has.
THEOREM TypeCorrect == Spec => []TypeOK
<1>1. Inv => TypeOK
    BY DEF Inv
<1> QED
    BY InitKeeps, NextKeeps, <1>1, PTL DEF Spec

\* reconcile.go:842-844: a stack is mirrored all or nothing. Whatever users and faults do
\* between the reads of a pass, what it creates is the image of one source stack.
THEOREM CreatedWhole == Spec => WholeStacks
<1>1. ASSUME Inv, CreateStack
      PROVE  \E s \in seen \ {None} :
                /\ s.id = key
                /\ wanted.primary[1] = s.primary
                /\ {c[1] : c \in wanted.members} = s.members
    BY <1>1 DEF Inv, WorkIsKnown, WantedWasSeen, IsImage, CreateStack
<1>2. Inv => [CreateStack =>
                 \E s \in seen \ {None} :
                    /\ s.id = key
                    /\ wanted.primary[1] = s.primary
                    /\ {c[1] : c \in wanted.members} = s.members]_vars
    BY <1>1
<1> QED
    BY InitKeeps, NextKeeps, <1>2, PTL DEF Spec, WholeStacks

\* reconcile.go:733-735: a failed read is not a deletion. No request that fails, and no
\* crash, makes the bridge remove a recipient's stack whose source was there throughout.
THEOREM RemovedOnlyGone == Spec => GoneConfirmed
<1>1. ASSUME Inv, wanted = Gone
      PROVE  \E s \in seen : s # None /\ s.id = key => source[key] \notin s.members
    BY <1>1 DEF Inv, WantedWasSeen
<1>2. Inv => [DeleteRecipientStack /\ wanted = Gone =>
                 \E s \in seen : s # None /\ s.id = key => source[key] \notin s.members]_vars
    BY <1>1
<1> QED
    BY InitKeeps, NextKeeps, <1>2, PTL DEF Spec, GoneConfirmed
=============================================================================
