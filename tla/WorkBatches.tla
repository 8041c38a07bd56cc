---------------------------- MODULE WorkBatches ----------------------------
(***************************************************************************)
(* How a cycle limits its work on one member's replicas. Audits,           *)
(* preparations (ensureReplica) and lookups (resolvePendingImport) are     *)
(* done in bounded batches. Each kind of work has a cursor: the last item  *)
(* of the last batch, from which the next batch goes on. Cursors are read  *)
(* from SQLite when a cycle starts and written when it ends; the limits on *)
(* preparations and lookups are shared by all albums of a cycle.           *)
(*                                                                         *)
(* Covered: internal/reconcile/reconcile.go (startCycle, batchAfter,       *)
(* auditReadyReplicas, the batches of reconcileMemberAssets, the end of    *)
(* applyPlans) and WorkCursors and SaveWorkCursors of the store. Members   *)
(* have limits, cursors and replicas of their own, so one member is enough.*)
(*                                                                         *)
(* Not covered: what ensureReplica and resolvePendingImport do (their      *)
(* outcomes are arbitrary here; see Membership and Replica), the scan      *)
(* request between the two (see ScanLease), and the stack batch (the same  *)
(* rotation, with one batch per cycle as for audits).                      *)
(*                                                                         *)
(* A definition marked Mutant is a faulty variant of the one below it. The *)
(* specification does not use it; it shows that a property can fail.       *)
(***************************************************************************)
EXTENDS Naturals, FiniteSets, SequencesExt

CONSTANTS
    Items,   \* logical asset ids, as numbers in the order of the ids
    Plans,   \* what a cycle may find: sequences of albums' desired items
    Limits   \* the limits of a full and of a work pass

Kinds == {"audit", "prepare", "lookup"}

ASSUME BatchAssumption ==
    /\ IsFiniteSet(Items) /\ Items \subseteq Nat \ {0}
    /\ Plans \subseteq Seq(SUBSET Items)
    /\ Limits \subseteq [Kinds -> Nat \ {0}]

VARIABLES
    \* SQLite
    row,         \* the work each replica's row calls for
    saved,       \* work_cursors, 0 for a kind without a row
    \* the reconciler
    pc,          \* where the cycle is
    cursor,      \* batchCursor
    limit,       \* the limits of this cycle
    left,        \* prepareRemaining and lookupRemaining
    attempted,   \* attemptedPrepare and attemptedLookup
    auditFailed, \* auditFailed
    plan,        \* the albums of this cycle, in order
    album,       \* the album being reconciled, 0 before the first one
    pending,     \* pending of reconcileMemberAssets
    batch,       \* what remains of the batch being worked on
    \* history
    ensured      \* items that ensureReplica was called for in this cycle

memory == <<limit, left, attempted, auditFailed, plan, album, pending, batch, ensured>>
vars == <<row, saved, pc, cursor, memory>>

\* What reconcileMemberAssets does with an item: prepare it, look it up, use it. An
\* item left out for good as unsupported is as good as not desired, see Plans.
Work == {"prepare", "pending", "ready"}

-----------------------------------------------------------------------------
(* Batches *)

\* The order of a batch: from the first id after the cursor, and around.
\* Mutant: from the cursor itself.
EarlierFromCursor(last, i, j) == IF (i >= last) = (j >= last) THEN i < j ELSE i >= last
Earlier(last, i, j) == IF (i > last) = (j > last) THEN i < j ELSE i > last

Rank(last, ids, i) == Cardinality({j \in ids : j = i \/ Earlier(last, j, i)})

\* batchAfter: at most n ids, in this order.
BatchAfter(last, ids, n) ==
    [k \in 1 .. (IF n < Cardinality(ids) THEN n ELSE Cardinality(ids)) |->
        CHOOSE i \in ids : Rank(last, ids, i) = k]

\* The cursor moves to the last item of a batch when it is chosen.
Advance(c, kind, b) == IF b = << >> THEN c ELSE [c EXCEPT ![kind] = Last(b)]

Choose(kind, ids, n) ==
    LET b == BatchAfter(cursor[kind], ids, n)
    IN  /\ batch' = b
        /\ cursor' = Advance(cursor, kind, b)

DesiredSomewhere == UNION Range(plan)

-----------------------------------------------------------------------------
(* The cycle *)

Init ==
    /\ row = [i \in Items |-> "prepare"]
    /\ saved = [k \in Kinds |-> 0]
    /\ cursor = saved
    /\ pc = "idle"
    /\ plan \in Plans
    /\ limit \in Limits
    /\ left = limit
    /\ attempted = [k \in Kinds |-> {}]
    /\ auditFailed = {} /\ pending = {} /\ ensured = {}
    /\ album = 0
    /\ batch = << >>

\* What a cycle keeps in memory is of no use to the next one.
Forget ==
    /\ pc' = "idle"
    /\ cursor' = saved'
    /\ left' = limit
    /\ attempted' = [k \in Kinds |-> {}]
    /\ auditFailed' = {} /\ pending' = {} /\ ensured' = {}
    /\ album' = 0
    /\ batch' = << >>
    /\ UNCHANGED <<limit, plan>>

\* Run or Work starts: startCycle resets the memory and loads the cursors. Users
\* may have changed the albums since the last cycle. auditReadyReplicas then chooses
\* among the ready replicas of all albums.
StartCycle ==
    /\ pc = "idle"
    /\ pc' = "audit"
    /\ \E l \in Limits, p \in Plans :
          /\ limit' = l
          /\ left' = l
          /\ plan' = p
          /\ LET ready == {i \in UNION Range(p) : row[i] = "ready"}
                 b == BatchAfter(saved["audit"], ready, l["audit"])
             IN  /\ batch' = b
                 /\ cursor' = Advance(saved, "audit", b)
    /\ UNCHANGED <<row, saved, attempted, auditFailed, album, pending, ensured>>

\* One audit: fine, or the asset is gone and will be imported again, or it failed.
AuditItem(i) ==
    /\ pc = "audit"
    /\ batch # << >> /\ i = Head(batch)
    /\ batch' = Tail(batch)
    /\ ensured' = ensured \cup {i}
    /\ \/ UNCHANGED <<row, auditFailed>>
       \/ row' = [row EXCEPT ![i] = "pending"] /\ UNCHANGED auditFailed
       \/ /\ auditFailed' = auditFailed \cup {i}
          /\ \E w \in {"ready", "prepare"} : row' = [row EXCEPT ![i] = w]
    /\ UNCHANGED <<saved, pc, cursor, limit, left, attempted, plan, album, pending>>

\* Nothing is left of the audits or of an album's lookups.
PartDone == pc \in {"audit", "lookup"} /\ batch = << >>

\* Mutant: items whose audit failed are sorted like the others.
AllOf(a) == plan[a]

\* reconcileMemberAssets leaves out what failed its audit.
ItemsOf(a) == plan[a] \ auditFailed

\* Mutant: the batch of every album has the full size.
ChoosePrepareUnshared ==
    /\ PartDone
    /\ album < Len(plan) /\ album' = album + 1
    /\ pc' = "prepare"
    /\ pending' = {i \in ItemsOf(album') : row[i] = "pending"}
    /\ Choose("prepare", {i \in ItemsOf(album') : row[i] = "prepare"}, limit["prepare"])
    /\ UNCHANGED <<row, saved, limit, left, attempted, auditFailed, plan, ensured>>

\* The next album, after the one before was written: its items are sorted by the work
\* they need, and the preparations chosen.
ChoosePrepare ==
    /\ PartDone
    /\ album < Len(plan) /\ album' = album + 1
    /\ pc' = "prepare"
    /\ pending' = {i \in ItemsOf(album') : row[i] = "pending"}
    /\ Choose("prepare", {i \in ItemsOf(album') : row[i] = "prepare"}, left["prepare"])
    /\ UNCHANGED <<row, saved, limit, left, attempted, auditFailed, plan, ensured>>

\* One call of ensureReplica, whatever comes of it.
PrepareItem(i) ==
    /\ pc = "prepare"
    /\ batch # << >> /\ i = Head(batch)
    /\ i \notin attempted["prepare"]
    /\ attempted' = [attempted EXCEPT !["prepare"] = @ \cup {i}]
    /\ left' = [left EXCEPT !["prepare"] = @ - 1]
    /\ ensured' = ensured \cup {i}
    /\ batch' = Tail(batch)
    /\ \E w \in Work :
          /\ row' = [row EXCEPT ![i] = w]
          /\ pending' = IF w = "pending" THEN pending \cup {i} ELSE pending
    /\ UNCHANGED <<saved, pc, cursor, limit, auditFailed, plan, album>>

\* An item of the batch was attempted for an earlier album of this cycle.
SkipAttempted ==
    /\ pc \in {"prepare", "lookup"}
    /\ batch # << >> /\ Head(batch) \in attempted[pc]
    /\ batch' = Tail(batch)
    /\ UNCHANGED <<row, saved, pc, cursor, limit, left, attempted, auditFailed, plan, album,
                   pending, ensured>>

ChooseLookup ==
    /\ pc = "prepare" /\ batch = << >>
    /\ pc' = "lookup"
    /\ Choose("lookup", pending, left["lookup"])
    /\ UNCHANGED <<row, saved, limit, left, attempted, auditFailed, plan, album, pending, ensured>>

\* Mutant: a lookup does not use up the limit.
LookUpItemFree(i) ==
    /\ pc = "lookup"
    /\ batch # << >> /\ i = Head(batch)
    /\ i \notin attempted["lookup"]
    /\ attempted' = [attempted EXCEPT !["lookup"] = @ \cup {i}]
    /\ batch' = Tail(batch)
    /\ \E w \in {"pending", "ready"} : row' = [row EXCEPT ![i] = w]
    /\ UNCHANGED <<saved, pc, cursor, limit, left, auditFailed, plan, album, pending, ensured>>

\* One call of resolvePendingImport: the asset is found, or not yet, or an error.
LookUpItem(i) ==
    /\ pc = "lookup"
    /\ batch # << >> /\ i = Head(batch)
    /\ i \notin attempted["lookup"]
    /\ attempted' = [attempted EXCEPT !["lookup"] = @ \cup {i}]
    /\ left' = [left EXCEPT !["lookup"] = @ - 1]
    /\ batch' = Tail(batch)
    /\ \E w \in {"pending", "ready"} : row' = [row EXCEPT ![i] = w]
    /\ UNCHANGED <<saved, pc, cursor, limit, auditFailed, plan, album, pending, ensured>>

\* Mutant: the cursors of the cycle are not written.
FinishUnsaved ==
    /\ PartDone /\ album = Len(plan)
    /\ UNCHANGED <<row, saved>>
    /\ Forget

\* The end of applyPlans: SaveWorkCursors.
Finish ==
    /\ PartDone /\ album = Len(plan)
    /\ saved' = cursor
    /\ UNCHANGED row
    /\ Forget

\* The cycle stops early: a crash, a cancelled context, a failed request while an
\* album is written, or SaveWorkCursors itself fails. The cursors are lost.
Abort ==
    /\ pc # "idle"
    /\ UNCHANGED <<row, saved>>
    /\ Forget

Step ==
    \/ StartCycle
    \/ ChoosePrepare \/ SkipAttempted \/ ChooseLookup
    \/ Finish
    \/ \E i \in Items : AuditItem(i) \/ PrepareItem(i) \/ LookUpItem(i)

Next == Step \/ Abort

Spec == Init /\ [][Next]_vars

-----------------------------------------------------------------------------
(* Properties *)

\* Type correctness of the rows, cursors and memory of a cycle.
TypeOK ==
    /\ row \in [Items -> Work]
    /\ {saved, cursor} \subseteq [Kinds -> Items \cup {0}]
    /\ pc \in {"idle", "audit", "prepare", "lookup"}
    /\ plan \in Plans /\ limit \in Limits
    /\ left \in [Kinds -> Nat]
    /\ attempted \in [Kinds -> SUBSET Items]
    /\ auditFailed \subseteq Items /\ pending \subseteq Items /\ ensured \subseteq Items
    /\ album \in 0 .. Len(plan)
    /\ batch \in Seq(Items)

\* README.md:227: a pass prepares and looks up at most so many replicas of a member,
\* shared across all albums (prepareRemaining, lookupRemaining). The batch in hand,
\* chosen before attempted items are sorted out, still fits what is left.
BudgetKept ==
    \A k \in {"prepare", "lookup"} :
       /\ Cardinality(attempted[k]) + left[k] = limit[k]
       /\ pc = k => Cardinality(Range(batch) \ attempted[k]) <= left[k]

\* ensureReplica, which may restore, link and re-import, runs at most once for an
\* item and member in a cycle, although the item may be ready at first and be
\* desired by several albums (attemptedPrepare, auditFailed).
EnsuredOnce ==
    [][\A i \in Items : AuditItem(i) \/ PrepareItem(i) => i \notin ensured]_vars

Completes == []<><<Finish>>_vars

\* Auditable i stays in the list of audits.
Auditable(i) == row[i] = "ready" /\ i \in DesiredSomewhere

Audited(i) == pc = "audit" /\ i \in ensured

\* reconcile.go:597-599: the rotating cursor bounds the audits without permanently
\* starving the tail. However often cycles are aborted and their cursors lost, and
\* however the other items come and go, a replica that stays ready and shared is
\* audited again and again if some cycles complete.
AuditsSweep ==
    \A i \in Items :
       Completes /\ <>[]Auditable(i) => []<>Audited(i)

Waits(i, k) == row[i] = (IF k = "prepare" THEN "prepare" ELSE "pending")

\* i is in an album, and no album before that one has work of this kind.
FirstInLine(i, k) ==
    \E a \in DOMAIN plan :
       i \in plan[a] /\ \A b \in 1 .. a - 1 : \A j \in plan[b] : ~Waits(j, k)

\* reconcile.go:1147-1149: a waiting item is attempted again and again, whatever happens
\* to the other items of its album and of later ones, once the albums before have no work
\* of that kind. (Albums are served in a fixed order from one limit: work of an earlier
\* album that never ends can use it up in every cycle.)
BacklogDrains ==
    \A i \in Items :
       /\ Completes /\ <>[](Waits(i, "prepare") /\ FirstInLine(i, "prepare"))
             => []<>(i \in attempted["prepare"])
       /\ Completes /\ <>[](Waits(i, "lookup") /\ FirstInLine(i, "lookup"))
             => []<>(i \in attempted["lookup"])
=============================================================================
