-------------------------- MODULE Membership_proofs --------------------------
(* Safety theorems of Membership, for any number of members, albums, assets *)
(* and faults.                                                              *)
EXTENDS Membership, TLAPS

-----------------------------------------------------------------------------
(* Type correctness. Typed is TypeOK with the one fact it needs to be       *)
(* inductive: an id that a user puts in an album is not NULL.               *)

Typed == TypeOK /\ CopiesHaveIds

\* Each operation of a plan or of the budget stays within its type.
LEMMA PlanTyped ==
    ASSUME NEW p \in Plans, NEW alb \in Albums, NEW S \in SUBSET Assets,
           NEW R \in SUBSET (Members \X Assets)
    PROVE  /\ [p EXCEPT !.adds[alb] = @ \cup S] \in Plans
           /\ [p EXCEPT !.removes[alb] = @ \cup S] \in Plans
           /\ [p EXCEPT !.repairs = @ \cup R] \in Plans
           /\ [p EXCEPT !.confirmed = @ \cup S] \in Plans
           /\ [p EXCEPT !.gone = @ \cup S] \in Plans
<1>1. [p.adds EXCEPT ![alb] = p.adds[alb] \cup S] \in [Albums -> SUBSET Assets]
    BY DEF Plans
<1>2. [p.removes EXCEPT ![alb] = p.removes[alb] \cup S] \in [Albums -> SUBSET Assets]
    BY DEF Plans
<1>3. [p EXCEPT !.adds[alb] = @ \cup S] \in Plans
    BY <1>1 DEF Plans
<1>4. [p EXCEPT !.removes[alb] = @ \cup S] \in Plans
    BY <1>2 DEF Plans
<1>5. [p EXCEPT !.repairs = @ \cup R] \in Plans
    BY DEF Plans
<1>6. [p EXCEPT !.confirmed = @ \cup S] \in Plans
    BY DEF Plans
<1>7. [p EXCEPT !.gone = @ \cup S] \in Plans
    BY DEF Plans
<1> QED
    BY <1>3, <1>4, <1>5, <1>6, <1>7

\* Spending one edit, trash operation or fault stays within its bound.
LEMMA BudgetTyped ==
    ASSUME NEW s \in Budget
    PROVE  /\ s.edits < MaxEdits => [s EXCEPT !.edits = @ + 1] \in Budget
           /\ s.trash < MaxTrash => [s EXCEPT !.trash = @ + 1] \in Budget
           /\ s.faults < MaxFaults => [s EXCEPT !.faults = @ + 1] \in Budget
<1> USE MembershipAssumption
<1>1. s.edits < MaxEdits => [s EXCEPT !.edits = @ + 1] \in Budget
    BY DEF Budget
<1>2. s.trash < MaxTrash => [s EXCEPT !.trash = @ + 1] \in Budget
    BY DEF Budget
<1>3. s.faults < MaxFaults => [s EXCEPT !.faults = @ + 1] \in Budget
    BY DEF Budget
<1> QED
    BY <1>1, <1>2, <1>3

\* A replica row may take any state and any generation.
LEMMA StateTyped ==
    ASSUME NEW r \in [Members -> [Assets -> Replicas]], NEW m \in Members, NEW a \in Assets,
           NEW st \in RepStates
    PROVE  [r EXCEPT ![m][a].state = st] \in [Members -> [Assets -> Replicas]]
<1>1. r[m][a] \in Replicas
    OBVIOUS
<1>2. [r[m][a] EXCEPT !.state = st] \in Replicas
    BY <1>1 DEF Replicas
<1> QED
    BY <1>2

\* A row may change its state and its asset id together.
LEMMA StateAndIdTyped ==
    ASSUME NEW r \in [Members -> [Assets -> Replicas]], NEW m \in Members, NEW a \in Assets,
           NEW st \in RepStates, NEW g \in Gens
    PROVE  [r EXCEPT ![m][a].state = st, ![m][a].gen = g] \in [Members -> [Assets -> Replicas]]
<1>1. r[m][a] \in Replicas
    OBVIOUS
<1>2. [[r[m][a] EXCEPT !.state = st] EXCEPT !.gen = g] \in Replicas
    BY <1>1 DEF Replicas
<1> QED
    BY <1>2

\* A row may be replaced as a whole.
LEMMA RowTyped ==
    ASSUME NEW r \in [Members -> [Assets -> Replicas]], NEW m \in Members, NEW a \in Assets,
           NEW row \in Replicas
    PROVE  [r EXCEPT ![m][a] = row] \in [Members -> [Assets -> Replicas]]
OBVIOUS

\* What a step may do to a copy keeps its type, and its id with it.
LEMMA CopyTyped ==
    ASSUME NEW c \in [Members -> [Assets -> Copies]], NEW m \in Members, NEW a \in Assets,
           NEW st \in {"none", "live", "trashed"}, NEW g \in Gens
    PROVE  /\ [c EXCEPT ![m][a].st = st] \in [Members -> [Assets -> Copies]]
           /\ [c EXCEPT ![m][a] = [gen |-> g, st |-> st]] \in [Members -> [Assets -> Copies]]
<1>1. c[m][a] \in Copies
    OBVIOUS
<1>2. [c[m][a] EXCEPT !.st = st] \in Copies
    BY <1>1 DEF Copies
<1>3. [gen |-> g, st |-> st] \in Copies
    BY DEF Copies
<1>4. [c EXCEPT ![m][a].st = st] \in [Members -> [Assets -> Copies]]
    BY <1>2
<1>5. [c EXCEPT ![m][a] = [gen |-> g, st |-> st]] \in [Members -> [Assets -> Copies]]
    BY <1>3
<1> QED
    BY <1>4, <1>5

\* A hard link may appear or disappear.
LEMMA FileTyped ==
    ASSUME NEW f \in [Members -> [Assets -> BOOLEAN]], NEW m \in Members, NEW a \in Assets,
           NEW b \in BOOLEAN
    PROVE  [f EXCEPT ![m][a] = b] \in [Members -> [Assets -> BOOLEAN]]
OBVIOUS

\* The initial state has the types, and every copy its id.
LEMMA InitTyped == Init => Typed
<1> SUFFICES ASSUME Init PROVE Typed
    OBVIOUS
<1> USE MembershipAssumption
<1>1. copy \in [Members -> [Assets -> Copies]]
    BY DEF Init, Copies, Gens
<1>2. rep \in [Members -> [Assets -> Replicas]]
    BY DEF Init, Replicas, RepStates, NoReplica, Gens
<1>3. obs \in [Albums -> [Members -> SUBSET Ids]]
    BY DEF Init, Ids, Gens
<1>4. spent \in Budget
    BY DEF Init, Budget
<1>5. ImmichTypeOK
    BY <1>1, MembershipAssumption DEF Init, Settled, ImmichTypeOK
<1>6. StoreTypeOK
    BY <1>2, <1>3 DEF Init, StoreTypeOK
<1>7. seen \in [Albums -> [Members -> SUBSET Ids]]
    BY DEF Init, NothingSeen
<1>8. plan \in Plans
    BY DEF Init, EmptyPlan, Plans
<1>9. ProcessTypeOK
    BY <1>7, <1>8 DEF Init, ProcessTypeOK
<1>10. HistoryTypeOK
    BY <1>4 DEF Init, HistoryTypeOK
<1>11. CopiesHaveIds
    BY DEF Init, CopiesHaveIds
<1> QED
    BY <1>5, <1>6, <1>9, <1>10, <1>11 DEF Typed, TypeOK

\* Ids of copies and of ready replicas are proper asset ids.
LEMMA CopyIdTyped ==
    ASSUME Typed, NEW m \in Members, NEW a \in Assets, copy[m][a].st # "none"
    PROVE  Id(m, a) \in Ids
<1>1. copy[m][a] \in Copies
    BY DEF Typed, TypeOK, ImmichTypeOK
<1>2. copy[m][a].gen \in Gens /\ copy[m][a].gen # 0
    BY <1>1 DEF Typed, CopiesHaveIds, Copies
<1> QED
    BY <1>2 DEF Id, Ids

\* A listing returns proper asset ids.
LEMMA ListingTyped ==
    ASSUME Typed, NEW alb \in Albums, NEW m \in Members
    PROVE  Listing(alb, m) \in SUBSET Ids
<1>1. rows[alb][m] \subseteq Assets
    BY DEF Typed, TypeOK, ImmichTypeOK
<1> QED
    BY <1>1, CopyIdTyped DEF Listing

\* The NULL asset id is a generation.
LEMMA ZeroGen == 0 \in Gens
BY MembershipAssumption DEF Gens

\* Ids name assets.
LEMMA AssetsTyped ==
    ASSUME NEW ids \in SUBSET Ids
    PROVE  AssetsOf(ids) \subseteq Assets
BY DEF AssetsOf, Ids

-----------------------------------------------------------------------------
(* Users and Immich keep the types. *)

\* A user edits an album.
LEMMA EditTyped ==
    ASSUME Typed, NEW alb \in Albums, NEW m \in Members, NEW a \in Assets,
           UserAdd(alb, m, a) \/ UserRemove(alb, m, a)
    PROVE  Typed'
<1>1. UNCHANGED <<copy, file, sqlite, process, flicker, dropped>>
    BY DEF UserAdd, UserRemove, Edit
<1>2. rows' \in [Albums -> [Members -> SUBSET Assets]]
  <2>1. rows \in [Albums -> [Members -> SUBSET Assets]]
    BY DEF Typed, TypeOK, ImmichTypeOK
  <2>2. \/ rows' = [rows EXCEPT ![alb][m] = @ \cup {a}]
        \/ rows' = [rows EXCEPT ![alb][m] = @ \ {a}]
    BY DEF UserAdd, UserRemove
  <2> QED
    BY <2>1, <2>2
<1>3. Id(m, a) \in Ids
    BY CopyIdTyped DEF UserAdd, UserRemove
<1>4. /\ offered' \in SUBSET (Albums \X Members \X Ids)
      /\ withdrawn' \in SUBSET (Albums \X Members \X Ids)
    BY <1>3 DEF UserAdd, UserRemove, Typed, TypeOK, HistoryTypeOK
<1>5. spent' \in Budget
  <2>1. spent \in Budget
    BY DEF Typed, TypeOK, HistoryTypeOK
  <2>2. spent.edits < MaxEdits /\ spent' = [spent EXCEPT !.edits = @ + 1]
    BY DEF UserAdd, UserRemove, Edit
  <2> QED
    BY <2>1, <2>2, BudgetTyped
<1>6. ImmichTypeOK' /\ CopiesHaveIds'
    BY <1>1, <1>2 DEF Typed, TypeOK, ImmichTypeOK, CopiesHaveIds
<1>7. StoreTypeOK' /\ ProcessTypeOK'
    BY <1>1 DEF Typed, TypeOK, StoreTypeOK, ProcessTypeOK, sqlite, process
<1>8. HistoryTypeOK'
    BY <1>1, <1>4, <1>5 DEF Typed, TypeOK, HistoryTypeOK
<1> QED
    BY <1>6, <1>7, <1>8 DEF Typed, TypeOK

\* Deleting a copy for good, by its user or by the bridge.
LEMMA DeletionTyped ==
    ASSUME Typed, NEW m \in Members, NEW a \in Assets,
           copy' = [copy EXCEPT ![m][a].st = "none"],
           rows' = [alb \in Albums |-> [rows[alb] EXCEPT ![m] = @ \ {a}]],
           FilesLeft(m, a)
    PROVE  ImmichTypeOK' /\ CopiesHaveIds'
<1>1. ImmichTypeOK /\ CopiesHaveIds
    BY DEF Typed, TypeOK
<1>2. copy' \in [Members -> [Assets -> Copies]]
  <2>1. copy \in [Members -> [Assets -> Copies]]
    BY <1>1 DEF ImmichTypeOK
  <2>2. [copy EXCEPT ![m][a].st = "none"] \in [Members -> [Assets -> Copies]]
    BY <2>1, ZeroGen, CopyTyped
  <2> QED
    BY <2>2
<1>3. rows' \in [Albums -> [Members -> SUBSET Assets]]
    BY <1>1 DEF ImmichTypeOK
<1>4. file' \in [Members -> [Assets -> BOOLEAN]]
  <2>1. PICK left \in {file[m][a], file[m][a] /\ ReadOnlyMount} :
            file' = [file EXCEPT ![m][a] = left]
    BY DEF FilesLeft
  <2>2. left \in BOOLEAN
    BY <1>1 DEF ImmichTypeOK
  <2> QED
    BY <1>1, <2>1, <2>2 DEF ImmichTypeOK
<1>5. CopiesHaveIds'
    BY <1>1 DEF CopiesHaveIds, ImmichTypeOK
<1> QED
    BY <1>2, <1>3, <1>4, <1>5 DEF ImmichTypeOK

\* A user trashes, restores or deletes a copy.
LEMMA TrashEditTyped ==
    ASSUME Typed, NEW m \in Members, NEW a \in Assets,
           UserTrash(m, a) \/ UserRestore(m, a) \/ UserDelete(m, a)
    PROVE  Typed'
<1>1. UNCHANGED <<sqlite, process, withdrawn, dropped>>
    BY DEF UserTrash, UserRestore, UserDelete, TrashEdit
<1>2. spent' \in Budget
  <2>1. spent \in Budget
    BY DEF Typed, TypeOK, HistoryTypeOK
  <2>2. spent.trash < MaxTrash /\ spent' = [spent EXCEPT !.trash = @ + 1]
    BY DEF UserTrash, UserRestore, UserDelete, TrashEdit
  <2> QED
    BY <2>1, <2>2, BudgetTyped
<1>3. ImmichTypeOK' /\ CopiesHaveIds'
  <2>1. CASE UserDelete(m, a)
    BY <2>1, DeletionTyped DEF UserDelete
  <2>2. CASE UserTrash(m, a) \/ UserRestore(m, a)
    <3>1. ImmichTypeOK /\ CopiesHaveIds
      BY DEF Typed, TypeOK
    <3>2. PICK st \in {"live", "trashed"} : copy' = [copy EXCEPT ![m][a].st = st]
      BY <2>2 DEF UserTrash, UserRestore
    <3>3. copy' \in [Members -> [Assets -> Copies]]
      <4>1. copy \in [Members -> [Assets -> Copies]]
        BY <3>1 DEF ImmichTypeOK
      <4>2. [copy EXCEPT ![m][a].st = st] \in [Members -> [Assets -> Copies]]
        BY <4>1, ZeroGen, CopyTyped
      <4> QED
        BY <3>2, <4>2
    <3>4. copy[m][a].st # "none" /\ UNCHANGED <<file, rows>>
      BY <2>2 DEF UserTrash, UserRestore
    <3>5. CopiesHaveIds'
      BY <3>1, <3>2, <3>4 DEF CopiesHaveIds, ImmichTypeOK
    <3> QED
      BY <3>1, <3>3, <3>4, <3>5 DEF ImmichTypeOK
  <2> QED
    BY <2>1, <2>2
<1>4. offered' \in SUBSET (Albums \X Members \X Ids) /\ flicker' \in SUBSET (Members \X Assets)
  <2>1. offered \in SUBSET (Albums \X Members \X Ids) /\ flicker \in SUBSET (Members \X Assets)
    BY DEF Typed, TypeOK, HistoryTypeOK
  <2>2. CASE UserTrash(m, a) \/ UserDelete(m, a)
    BY <2>1, <2>2 DEF UserTrash, UserDelete
  <2>3. CASE UserRestore(m, a)
    <3>1. Id(m, a) \in Ids
      BY <2>3, CopyIdTyped DEF UserRestore
    <3> QED
      BY <2>1, <2>3, <3>1 DEF UserRestore
  <2> QED
    BY <2>2, <2>3
<1>5. StoreTypeOK' /\ ProcessTypeOK'
    BY <1>1 DEF Typed, TypeOK, StoreTypeOK, ProcessTypeOK, sqlite, process
<1>6. HistoryTypeOK'
    BY <1>1, <1>2, <1>4 DEF Typed, TypeOK, HistoryTypeOK
<1> QED
    BY <1>3, <1>5, <1>6 DEF Typed, TypeOK

\* Immich imports a hard link, under a generation not used before.
LEMMA ImportTyped ==
    ASSUME Typed, NEW m \in Members, NEW a \in Assets, Import(m, a)
    PROVE  Typed'
<1>1. UNCHANGED <<file, rows, sqlite, process, history, spent>>
    BY DEF Import
<1>2. ImmichTypeOK /\ CopiesHaveIds
    BY DEF Typed, TypeOK
<1>3. copy[m][a].gen + 1 \in Gens \ {0}
  <2>1. copy[m][a].gen \in 0..MaxGen /\ copy[m][a].gen < MaxGen
    BY <1>2 DEF Import, ImmichTypeOK, Copies, Gens
  <2> QED
    BY <2>1, MembershipAssumption DEF Gens
<1>4. copy' = [copy EXCEPT ![m][a] = [gen |-> copy[m][a].gen + 1, st |-> "live"]]
    BY DEF Import
<1>5. copy' \in [Members -> [Assets -> Copies]]
    BY <1>2, <1>3, <1>4, CopyTyped DEF ImmichTypeOK
<1>6. CopiesHaveIds'
    BY <1>2, <1>3, <1>4 DEF CopiesHaveIds, ImmichTypeOK
<1>7. ImmichTypeOK'
    BY <1>1, <1>2, <1>5 DEF ImmichTypeOK
<1> QED
    BY <1>1, <1>6, <1>7 DEF Typed, TypeOK, StoreTypeOK, ProcessTypeOK, HistoryTypeOK,
                            sqlite, process, history

-----------------------------------------------------------------------------
(* The observing half of a Run keeps the types. *)

\* A cycle that ends leaves nothing in memory.
LEMMA EndCycleTyped ==
    ASSUME EndCycle, force' \in BOOLEAN
    PROVE  /\ ProcessTypeOK'
           /\ flicker' \in SUBSET (Members \X Assets)
           /\ dropped' \in SUBSET Assets
<1>1. plan' \in Plans
    BY DEF EndCycle, EmptyPlan, Plans
<1>2. seen' \in [Albums -> [Members -> SUBSET Ids]]
    BY DEF EndCycle, NothingSeen
<1> QED
    BY <1>1, <1>2 DEF EndCycle, ProcessTypeOK

\* Steps of the process alone.
LEMMA QuietTyped ==
    ASSUME Typed, StartRun \/ StartWork \/ AuditDone \/ ApplyDone \/ UNCHANGED vars
    PROVE  Typed'
<1>1. UNCHANGED <<immich, sqlite, history, spent>>
    BY DEF StartRun, StartWork, AuditDone, ApplyDone, vars
<1>2. ProcessTypeOK /\ StoreTypeOK
    BY DEF Typed, TypeOK
<1>3. seen' \in [Albums -> [Members -> SUBSET Ids]]
  <2>1. seen \in [Albums -> [Members -> SUBSET Ids]]
    BY <1>2 DEF ProcessTypeOK
  <2>2. CASE StartWork
    <3>1. obs \in [Albums -> [Members -> SUBSET Ids]]
      BY <1>2 DEF StoreTypeOK
    <3> QED
      BY <2>2, <3>1 DEF StartWork, NothingSeen
  <2>3. CASE StartRun \/ AuditDone \/ ApplyDone \/ UNCHANGED vars
    BY <2>1, <2>3 DEF StartRun, AuditDone, ApplyDone, vars, process
  <2> QED
    BY <2>2, <2>3
<1>4. pc' \in {"idle", "observe", "audit", "apply", "write", "post"}
    BY <1>2 DEF StartRun, StartWork, AuditDone, ApplyDone, vars, process, ProcessTypeOK
<1>5. visits' \in SUBSET Mirrors
    BY <1>2 DEF StartRun, StartWork, AuditDone, ApplyDone, vars, process, ProcessTypeOK
<1>6. UNCHANGED <<checks, plan, tried, force>>
    BY DEF StartRun, StartWork, AuditDone, ApplyDone, vars, process
<1>7. ProcessTypeOK'
    BY <1>2, <1>3, <1>4, <1>5, <1>6 DEF ProcessTypeOK
<1>8. ImmichTypeOK' /\ CopiesHaveIds'
    BY <1>1 DEF Typed, TypeOK, ImmichTypeOK, CopiesHaveIds, immich
<1>9. StoreTypeOK'
    BY <1>1, <1>2 DEF StoreTypeOK, sqlite
<1>10. HistoryTypeOK'
    BY <1>1 DEF Typed, TypeOK, HistoryTypeOK, history
<1> QED
    BY <1>7, <1>8, <1>9, <1>10 DEF Typed, TypeOK

\* A fault is charged to the budget.
LEMMA FaultTyped ==
    ASSUME Typed, Fault
    PROVE  spent' \in Budget
<1>1. spent \in Budget
    BY DEF Typed, TypeOK, HistoryTypeOK
<1> QED
    BY <1>1, BudgetTyped DEF Fault

\* A crash or error loses the process and keeps the database.
LEMMA CycleFaultTyped ==
    ASSUME Typed, CycleFault
    PROVE  Typed'
<1>1. UNCHANGED <<immich, sqlite, offered, withdrawn>>
    BY DEF CycleFault
<1>2. EndCycle /\ force' \in BOOLEAN
    BY DEF CycleFault, Abort
<1>3. ImmichTypeOK' /\ CopiesHaveIds'
    BY <1>1 DEF Typed, TypeOK, ImmichTypeOK, CopiesHaveIds, immich
<1>4. StoreTypeOK'
    BY <1>1 DEF Typed, TypeOK, StoreTypeOK, sqlite
<1>5. spent' \in Budget
    BY FaultTyped DEF CycleFault
<1>6. HistoryTypeOK'
    BY <1>1, <1>2, <1>5, EndCycleTyped DEF Typed, TypeOK, HistoryTypeOK
<1>7. ProcessTypeOK'
    BY <1>2, EndCycleTyped
<1> QED
    BY <1>3, <1>4, <1>6, <1>7 DEF Typed, TypeOK

\* New origins get complete rows.
LEMMA EnsureOriginsTyped ==
    ASSUME Typed, NEW m \in Members, NEW new, EnsureOrigins(m, new)
    PROVE  rep' \in [Members -> [Assets -> Replicas]]
<1>1. rep \in [Members -> [Assets -> Replicas]]
    BY DEF Typed, TypeOK, StoreTypeOK
<1>2. [state |-> "ready", gen |-> 1, path |-> TRUE] \in Replicas
    BY MembershipAssumption DEF Replicas, RepStates, Gens
<1>3. [a \in Assets |-> IF a \in new THEN [state |-> "ready", gen |-> 1, path |-> TRUE]
                                     ELSE rep[m][a]] \in [Assets -> Replicas]
    BY <1>1, <1>2
<1> QED
    BY <1>1, <1>3 DEF EnsureOrigins

\* One mirror is listed.
LEMMA ListAlbumTyped ==
    ASSUME Typed, NEW alb \in Albums, NEW m \in Members, ListAlbum(alb, m)
    PROVE  Typed'
<1>1. UNCHANGED <<immich, membership, sources, obs, initialized, pc, tried, force,
                  history, spent>>
    BY DEF ListAlbum
<1>2. ImmichTypeOK /\ StoreTypeOK /\ ProcessTypeOK /\ HistoryTypeOK /\ CopiesHaveIds
    BY DEF Typed, TypeOK
<1>3. Listing(alb, m) \in SUBSET Ids
    BY ListingTyped
<1>4. obs[alb][m] \in SUBSET Ids
    BY <1>2 DEF StoreTypeOK
<1>5. rep' \in [Members -> [Assets -> Replicas]]
    BY EnsureOriginsTyped DEF ListAlbum
<1>6. seen' \in [Albums -> [Members -> SUBSET Ids]]
    BY <1>2, <1>3 DEF ListAlbum, ProcessTypeOK
<1>7. plan' \in Plans
  <2>1. AssetsOf(Added(alb, m)) \in SUBSET Assets
    BY <1>3, AssetsTyped DEF Added
  <2>2. plan' = [plan EXCEPT !.adds[alb] = @ \cup AssetsOf(Added(alb, m))]
    BY DEF ListAlbum
  <2>3. plan \in Plans
    BY <1>2 DEF ProcessTypeOK
  <2> QED
    BY <2>1, <2>2, <2>3, PlanTyped
<1>8. checks' \in SUBSET (Albums \X Members \X Ids)
    BY <1>4 DEF ListAlbum
<1>9. visits' \in SUBSET Mirrors
    BY <1>2 DEF ListAlbum, ProcessTypeOK
<1>10. ImmichTypeOK' /\ CopiesHaveIds'
    BY <1>1, <1>2 DEF ImmichTypeOK, CopiesHaveIds, immich
<1>11. StoreTypeOK'
    BY <1>1, <1>2, <1>5 DEF StoreTypeOK
<1>12. ProcessTypeOK'
    BY <1>1, <1>2, <1>6, <1>7, <1>8, <1>9 DEF ProcessTypeOK
<1>13. HistoryTypeOK'
    BY <1>1, <1>2 DEF HistoryTypeOK, history
<1> QED
    BY <1>10, <1>11, <1>12, <1>13 DEF Typed, TypeOK

\* A listing with a foreign asset ends the cycle.
LEMMA RejectAlbumTyped ==
    ASSUME Typed, NEW alb \in Albums, NEW m \in Members, RejectAlbum(alb, m)
    PROVE  Typed'
<1>1. UNCHANGED <<immich, membership, sources, obs, initialized, offered, withdrawn, spent>>
    BY DEF RejectAlbum
<1>2. EndCycle /\ force' \in BOOLEAN
    BY DEF RejectAlbum, Abort
<1>3. rep' \in [Members -> [Assets -> Replicas]]
    BY EnsureOriginsTyped DEF RejectAlbum
<1>4. ImmichTypeOK' /\ CopiesHaveIds'
    BY <1>1 DEF Typed, TypeOK, ImmichTypeOK, CopiesHaveIds, immich
<1>5. StoreTypeOK'
    BY <1>1, <1>3 DEF Typed, TypeOK, StoreTypeOK
<1>6. HistoryTypeOK'
    BY <1>1, <1>2, EndCycleTyped DEF Typed, TypeOK, HistoryTypeOK
<1>7. ProcessTypeOK'
    BY <1>2, EndCycleTyped
<1> QED
    BY <1>4, <1>5, <1>6, <1>7 DEF Typed, TypeOK

\* Steps that change the plan and the checks only.
LEMMA CheckTyped ==
    ASSUME Typed, NEW c \in checks, CheckMissing(c[1], c[2], c[3])
    PROVE  Typed'
<1>1. UNCHANGED <<immich, sqlite, pc, visits, seen, tried, force, history, spent>>
    BY DEF CheckMissing
<1>2. ProcessTypeOK /\ c \in Albums \X Members \X Ids
    BY DEF Typed, TypeOK, ProcessTypeOK
<1>3. c[1] \in Albums /\ c[2] \in Members /\ c[3][1] \in Assets
    BY <1>2 DEF Ids
<1>4. plan' \in Plans
  <2>1. plan \in Plans
    BY <1>2 DEF ProcessTypeOK
  <2>2. \/ plan' = [plan EXCEPT !.removes[c[1]] = @ \cup {c[3][1]}]
        \/ plan' = [plan EXCEPT !.repairs = @ \cup {<<c[2], c[3][1]>>}]
        \/ plan' = plan
    BY DEF CheckMissing
  <2>3. {c[3][1]} \in SUBSET Assets /\ {<<c[2], c[3][1]>>} \in SUBSET (Members \X Assets)
    BY <1>3
  <2>4. CASE plan' = [plan EXCEPT !.removes[c[1]] = @ \cup {c[3][1]}]
    BY <1>3, <2>1, <2>3, <2>4, PlanTyped
  <2>5. CASE plan' = [plan EXCEPT !.repairs = @ \cup {<<c[2], c[3][1]>>}]
    BY <1>3, <2>1, <2>3, <2>5, PlanTyped
  <2> QED
    BY <2>1, <2>2, <2>4, <2>5
<1>5. checks' \in SUBSET (Albums \X Members \X Ids)
    BY <1>2 DEF CheckMissing, ProcessTypeOK
<1>6. ProcessTypeOK'
    BY <1>1, <1>2, <1>4, <1>5 DEF ProcessTypeOK
<1> QED
    BY <1>1, <1>6 DEF Typed, TypeOK, ImmichTypeOK, CopiesHaveIds, StoreTypeOK,
                      HistoryTypeOK, immich, sqlite, history

\* One missing origin is confirmed.
LEMMA ConfirmOriginTyped ==
    ASSUME Typed, NEW a \in Assets, ConfirmOrigin(a)
    PROVE  Typed'
<1>1. UNCHANGED <<immich, sqlite, pc, visits, seen, checks, tried, force, history, spent>>
    BY DEF ConfirmOrigin
<1>2. ProcessTypeOK /\ plan \in Plans
    BY DEF Typed, TypeOK, ProcessTypeOK
<1>3. plan' \in Plans
  <2>1. /\ plan' = [plan EXCEPT !.confirmed = plan.confirmed \cup {a},
                        !.gone = IF copy[Owner[a]][a].st # "live" THEN plan.gone \cup {a}
                                                                  ELSE plan.gone]
    BY DEF ConfirmOrigin
  <2> QED
    BY <1>2, <2>1 DEF Plans
<1>4. ProcessTypeOK'
    BY <1>1, <1>2, <1>3 DEF ProcessTypeOK
<1> QED
    BY <1>1, <1>4 DEF Typed, TypeOK, ImmichTypeOK, CopiesHaveIds, StoreTypeOK,
                      HistoryTypeOK, immich, sqlite, history

\* What the edits and the owner deletions amount to.
LEMMA DecisionTyped ==
    ASSUME Typed
    PROVE  Decision \in [Albums -> SUBSET Assets]
<1>1. membership \in [Albums -> SUBSET Assets] /\ plan \in Plans
    BY DEF Typed, TypeOK, StoreTypeOK, ProcessTypeOK
<1>2. \A alb \in Albums : Observed(alb) \subseteq Assets
    BY <1>1 DEF Observed, Plans
<1>3. \A alb \in Albums : Resolved[alb] \subseteq Assets
    BY <1>2 DEF Resolved
<1> QED
    BY <1>3 DEF Decision

\* persistPlans changes the state of a row and nothing else in it.
LEMMA PersistedTyped ==
    ASSUME Typed, NEW m \in Members, NEW a \in Assets
    PROVE  [rep[m][a] EXCEPT !.state = PersistedState(m, a)] \in Replicas
<1>1. rep[m][a] \in Replicas
    BY DEF Typed, TypeOK, StoreTypeOK
<1>2. rep[m][a].state \in RepStates
    BY <1>1 DEF Replicas
<1>3. PersistedState(m, a) \in RepStates
    BY <1>2 DEF PersistedState, RepStates
<1> QED
    BY <1>1, <1>3 DEF Replicas

\* Saving observations retires edits and invents none.
LEMMA RecordTyped ==
    ASSUME Typed, NEW newObs \in [Albums -> [Members -> SUBSET Ids]], Record(newObs)
    PROVE  /\ obs' \in [Albums -> [Members -> SUBSET Ids]]
           /\ offered' \in SUBSET (Albums \X Members \X Ids)
           /\ withdrawn' \in SUBSET (Albums \X Members \X Ids)
BY DEF Record, Typed, TypeOK, HistoryTypeOK

\* The transaction of persistPlans.
LEMMA PersistTyped ==
    ASSUME Typed, PersistPlans
    PROVE  Typed'
<1>1. UNCHANGED <<immich, visits, seen, checks, tried, force, spent>>
    BY DEF PersistPlans
<1>2. ImmichTypeOK /\ StoreTypeOK /\ ProcessTypeOK /\ HistoryTypeOK /\ CopiesHaveIds
    BY DEF Typed, TypeOK
<1>3. rep' \in [Members -> [Assets -> Replicas]]
  <2>1. rep' = [m \in Members |-> [a \in Assets |->
                  [rep[m][a] EXCEPT !.state = PersistedState(m, a)]]]
    BY DEF PersistPlans
  <2>2. \A m \in Members, a \in Assets :
            [rep[m][a] EXCEPT !.state = PersistedState(m, a)] \in Replicas
    BY PersistedTyped
  <2> DEFINE row(m, a) == [rep[m][a] EXCEPT !.state = PersistedState(m, a)]
  <2>3. rep' = [m \in Members |-> [a \in Assets |-> row(m, a)]]
    BY <2>1
  <2>4. \A m \in Members, a \in Assets : row(m, a) \in Replicas
    BY <2>2
  <2> HIDE DEF row
  <2> QED
    BY <2>3, <2>4
<1>4. membership' \in [Albums -> SUBSET Assets]
    BY DecisionTyped DEF PersistPlans
<1>5. sources' \in [Albums -> SUBSET Assets]
    BY <1>2, DecisionTyped DEF PersistPlans, StoreTypeOK
<1>6. /\ obs' \in [Albums -> [Members -> SUBSET Ids]]
      /\ offered' \in SUBSET (Albums \X Members \X Ids)
      /\ withdrawn' \in SUBSET (Albums \X Members \X Ids)
    BY <1>2, RecordTyped DEF PersistPlans, Inputs, ProcessTypeOK
<1>7. initialized' \in [Albums -> BOOLEAN] /\ pc' = "audit"
    BY DEF PersistPlans
<1>8. plan' \in Plans
    BY DEF PersistPlans, EmptyPlan, Plans
<1>9. flicker' \in SUBSET (Members \X Assets) /\ dropped' \in SUBSET Assets
    BY DEF PersistPlans
<1>10. ImmichTypeOK' /\ CopiesHaveIds'
    BY <1>1, <1>2 DEF ImmichTypeOK, CopiesHaveIds, immich
<1>11. StoreTypeOK'
    BY <1>3, <1>4, <1>5, <1>6, <1>7 DEF StoreTypeOK
<1>12. ProcessTypeOK'
    BY <1>1, <1>2, <1>7, <1>8 DEF ProcessTypeOK
<1>13. HistoryTypeOK'
    BY <1>1, <1>2, <1>6, <1>9 DEF HistoryTypeOK
<1> QED
    BY <1>10, <1>11, <1>12, <1>13 DEF Typed, TypeOK

-----------------------------------------------------------------------------
(* The applying half of a cycle keeps the types. *)

\* A copy that is restored has its id.
LEMMA RestoredTyped ==
    ASSUME copy \in [Members -> [Assets -> Copies]], CopiesHaveIds,
           NEW m \in Members, NEW a \in Assets, Exists(m, a, rep[m][a].gen),
           copy' = [copy EXCEPT ![m][a].st = "live"]
    PROVE  copy' \in [Members -> [Assets -> Copies]] /\ CopiesHaveIds'
<1>1. copy' \in [Members -> [Assets -> Copies]]
    BY ZeroGen, CopyTyped
<1>2. copy[m][a].gen # 0
    BY DEF CopiesHaveIds, Exists
<1>3. CopiesHaveIds'
    BY <1>2 DEF CopiesHaveIds
<1> QED
    BY <1>1, <1>3

\* One successful call of ensureReplica.
LEMMA EnsureReplicaTyped ==
    ASSUME Typed, NEW m \in Members, NEW a \in Assets, EnsureReplica(m, a), UNCHANGED rows
    PROVE  ImmichTypeOK' /\ CopiesHaveIds' /\ rep' \in [Members -> [Assets -> Replicas]]
<1>1. ImmichTypeOK /\ CopiesHaveIds
    BY DEF Typed, TypeOK
<1>2. rep \in [Members -> [Assets -> Replicas]] /\ copy \in [Members -> [Assets -> Copies]]
    BY DEF Typed, TypeOK, StoreTypeOK, ImmichTypeOK
<1>3. file' \in [Members -> [Assets -> BOOLEAN]]
  <2>1. file' = file \/ file' = [file EXCEPT ![m][a] = TRUE]
    BY SMT DEF EnsureReplica
  <2>2. file \in [Members -> [Assets -> BOOLEAN]]
    BY <1>1 DEF ImmichTypeOK
  <2>3. [file EXCEPT ![m][a] = TRUE] \in [Members -> [Assets -> BOOLEAN]]
    BY <2>2, FileTyped
  <2> QED
    BY <2>1, <2>2, <2>3
<1>4. rep' \in [Members -> [Assets -> Replicas]]
  <2>1. \/ rep' = rep
        \/ rep' = [rep EXCEPT ![m][a].state = "source_missing"]
        \/ rep' = [rep EXCEPT ![m][a].state = "ready"]
        \/ rep' = [rep EXCEPT ![m][a] = [state |-> "pending_import", gen |-> 0, path |-> TRUE]]
    BY Zenon DEF EnsureReplica
  <2>2. {"source_missing", "ready", "pending_import"} \subseteq RepStates
    BY DEF RepStates
  <2>3. ASSUME NEW st \in {"source_missing", "ready"}
        PROVE  [rep EXCEPT ![m][a].state = st] \in [Members -> [Assets -> Replicas]]
    BY <1>2, <2>2, StateTyped
  <2>4. [rep EXCEPT ![m][a] = [state |-> "pending_import", gen |-> 0, path |-> TRUE]]
            \in [Members -> [Assets -> Replicas]]
    <3>1. [state |-> "pending_import", gen |-> 0, path |-> TRUE] \in Replicas
      BY <2>2, ZeroGen DEF Replicas
    <3> QED
      BY <1>2, <3>1, RowTyped
  <2> QED
    BY <1>2, <2>1, <2>3, <2>4
<1>5. copy' \in [Members -> [Assets -> Copies]] /\ CopiesHaveIds'
  <2>1. CASE copy' = copy
    BY <1>1, <1>2, <2>1 DEF CopiesHaveIds
  <2>2. CASE Exists(m, a, rep[m][a].gen) /\ copy' = [copy EXCEPT ![m][a].st = "live"]
    BY <1>1, <1>2, <2>2, RestoredTyped
  <2> QED
    BY <2>1, <2>2 DEF EnsureReplica
<1> QED
    BY <1>1, <1>3, <1>4, <1>5 DEF ImmichTypeOK

\* One failed call of ensureReplica.
LEMMA EnsureErrorTyped ==
    ASSUME Typed, NEW m \in Members, NEW a \in Assets, EnsureError(m, a), UNCHANGED rows
    PROVE  ImmichTypeOK' /\ CopiesHaveIds' /\ rep' \in [Members -> [Assets -> Replicas]]
<1>1. /\ rep \in [Members -> [Assets -> Replicas]]
      /\ copy \in [Members -> [Assets -> Copies]]
      /\ file \in [Members -> [Assets -> BOOLEAN]]
      /\ CopiesHaveIds
    BY DEF Typed, TypeOK, StoreTypeOK, ImmichTypeOK
<1>2. rep' \in [Members -> [Assets -> Replicas]]
  <2>1. {"api_error", "error"} \subseteq RepStates
    BY DEF RepStates
  <2>2. [rep EXCEPT ![m][a].state = "api_error"] \in [Members -> [Assets -> Replicas]]
    BY <1>1, <2>1, StateTyped
  <2>3. [rep EXCEPT ![m][a] = [state |-> "error", gen |-> 0, path |-> TRUE]]
            \in [Members -> [Assets -> Replicas]]
    <3>1. [state |-> "error", gen |-> 0, path |-> TRUE] \in Replicas
      BY <2>1, ZeroGen DEF Replicas
    <3> QED
      BY <1>1, <3>1, RowTyped
  <2>4. \/ rep' = rep
        \/ rep' = [rep EXCEPT ![m][a].state = "api_error"]
        \/ rep' = [rep EXCEPT ![m][a] = [state |-> "error", gen |-> 0, path |-> TRUE]]
    BY Zenon DEF EnsureError
  <2> QED
    BY <1>1, <2>2, <2>3, <2>4
<1>3. file' \in [Members -> [Assets -> BOOLEAN]]
  <2>1. file' = file \/ \E linked \in {file[m][a], TRUE} : file' = [file EXCEPT ![m][a] = linked]
    BY Zenon DEF EnsureError
  <2>2. ASSUME NEW linked \in {file[m][a], TRUE}
        PROVE  [file EXCEPT ![m][a] = linked] \in [Members -> [Assets -> BOOLEAN]]
    <3>1. linked \in BOOLEAN
      BY <1>1
    <3> QED
      BY <1>1, <3>1, FileTyped
  <2> QED
    BY <1>1, <2>1, <2>2
<1>4. copy' \in [Members -> [Assets -> Copies]] /\ CopiesHaveIds'
  <2>1. \/ copy' = copy
        \/ Exists(m, a, rep[m][a].gen) /\ copy' = [copy EXCEPT ![m][a].st = "live"]
    BY Zenon DEF EnsureError
  <2>2. CASE copy' = copy
    BY <1>1, <2>2 DEF CopiesHaveIds
  <2>3. CASE Exists(m, a, rep[m][a].gen) /\ copy' = [copy EXCEPT ![m][a].st = "live"]
    BY <1>1, <2>3, RestoredTyped
  <2> QED
    BY <2>1, <2>2, <2>3
<1> QED
    BY <1>2, <1>3, <1>4 DEF Typed, TypeOK, ImmichTypeOK

\* Work on one copy changes its row, its file, what was tried and, when it
\* fails, the budget of faults; nothing else.
LEMMA WorkTyped ==
    ASSUME Typed,
           ImmichTypeOK', CopiesHaveIds',
           rep' \in [Members -> [Assets -> Replicas]],
           tried' \in SUBSET (Work \X Members \X Assets),
           spent' \in Budget,
           UNCHANGED <<membership, sources, obs, initialized, pc, visits, seen, checks, plan,
                       force, history>>
    PROVE  Typed'
<1>1. StoreTypeOK'
    BY DEF Typed, TypeOK, StoreTypeOK
<1>2. ProcessTypeOK'
    BY DEF Typed, TypeOK, ProcessTypeOK
<1>3. HistoryTypeOK'
    BY DEF Typed, TypeOK, HistoryTypeOK, history
<1> QED
    BY <1>1, <1>2, <1>3 DEF Typed, TypeOK

\* What leaves Immich alone keeps its types.
LEMMA SameImmichTyped ==
    ASSUME Typed, UNCHANGED <<copy, file, rows>>
    PROVE  ImmichTypeOK' /\ CopiesHaveIds'
BY DEF Typed, TypeOK, ImmichTypeOK, CopiesHaveIds

\* The audit and the preparation of a copy, which share ensureReplica.
LEMMA PrepareTyped ==
    ASSUME Typed, NEW m \in Members, NEW a \in Assets,
           \/ Audit(m, a)
           \/ \E alb \in Albums : Prepare(alb, m, a)
    PROVE  Typed'
<1>1. UNCHANGED <<rows, membership, sources, obs, initialized, pc, visits, seen, checks,
                  plan, force, history>>
    BY DEF Audit, Prepare
<1>2. \/ EnsureReplica(m, a) /\ UNCHANGED spent
      \/ Fault /\ EnsureError(m, a)
    BY DEF Audit, Prepare
<1>3. tried' \in SUBSET (Work \X Members \X Assets)
  <2>1. tried \in SUBSET (Work \X Members \X Assets)
    BY DEF Typed, TypeOK, ProcessTypeOK
  <2>2. {"audit", "failed", "prepare"} \subseteq Work
    BY DEF Work
  <2>3. \E W \in SUBSET {"audit", "failed", "prepare"} :
            tried' = tried \cup {<<w, m, a>> : w \in W}
    <3>1. CASE \E alb \in Albums : Prepare(alb, m, a)
      <4>1. tried' = tried \cup {<<"prepare", m, a>>}
        BY <3>1 DEF Prepare
      <4>2. {<<"prepare", m, a>>} = {<<w, m, a>> : w \in {"prepare"}}
        OBVIOUS
      <4> QED
        BY <4>1, <4>2
    <3>2. CASE Audit(m, a)
      <4>1. \/ tried' = tried \cup {<<w, m, a>> : w \in {"audit"}}
            \/ tried' = tried \cup {<<w, m, a>> : w \in {"audit", "failed"}}
        BY <3>2, Zenon DEF Audit
      <4> QED
        BY <4>1
    <3> QED
      BY <3>1, <3>2
  <2> QED
    BY <2>1, <2>2, <2>3
<1>4. /\ ImmichTypeOK' /\ CopiesHaveIds'
      /\ rep' \in [Members -> [Assets -> Replicas]]
      /\ spent' \in Budget
  <2>1. CASE EnsureReplica(m, a) /\ UNCHANGED spent
    <3>1. spent' \in Budget
      BY <2>1 DEF Typed, TypeOK, HistoryTypeOK
    <3> QED
      BY <1>1, <2>1, <3>1, EnsureReplicaTyped
  <2>2. CASE Fault /\ EnsureError(m, a)
    BY <1>1, <2>2, EnsureErrorTyped, FaultTyped
  <2> QED
    BY <1>2, <2>1, <2>2
<1> QED
    BY <1>1, <1>3, <1>4, WorkTyped

\* The lookup of a pending import.
LEMMA LookUpTyped ==
    ASSUME Typed, NEW alb \in Albums, NEW m \in Members, NEW a \in Assets, LookUp(alb, m, a)
    PROVE  Typed'
<1>1. UNCHANGED <<copy, file, rows, membership, sources, obs, initialized, pc, visits, seen,
                  checks, plan, force, history>>
    BY DEF LookUp, immich
<1>2. tried' \in SUBSET (Work \X Members \X Assets)
  <2>1. "lookup" \in Work
    BY DEF Work
  <2> QED
    BY <2>1 DEF LookUp, Typed, TypeOK, ProcessTypeOK
<1>3. rep' \in [Members -> [Assets -> Replicas]]
  <2>1. rep \in [Members -> [Assets -> Replicas]]
    BY DEF Typed, TypeOK, StoreTypeOK
  <2>2. copy[m][a].gen \in Gens
    BY DEF Typed, TypeOK, ImmichTypeOK, Copies
  <2>3. "ready" \in RepStates
    BY DEF RepStates
  <2>4. [rep EXCEPT ![m][a].state = "ready", ![m][a].gen = copy[m][a].gen]
            \in [Members -> [Assets -> Replicas]]
    BY <2>1, <2>2, <2>3, StateAndIdTyped
  <2>5. \/ rep' = rep
        \/ rep' = [rep EXCEPT ![m][a].state = "ready", ![m][a].gen = copy[m][a].gen]
    BY Zenon DEF LookUp
  <2> QED
    BY <2>1, <2>4, <2>5
<1>4. spent' \in Budget
  <2>1. spent' = spent \/ Fault
    BY DEF LookUp
  <2> QED
    BY <2>1, FaultTyped DEF Typed, TypeOK, HistoryTypeOK
<1> QED
    BY <1>1, <1>2, <1>3, <1>4, WorkTyped, SameImmichTyped

\* Writes to a mirror.
LEMMA WriteTyped ==
    ASSUME Typed, NEW alb \in Albums, NEW m \in Members,
           \/ AddAssets(alb, m)
           \/ \E id \in seen[alb][m] : RemoveAsset(alb, m, id)
    PROVE  Typed'
<1>1. UNCHANGED <<copy, file, sqlite, offered, withdrawn, spent>>
    BY DEF AddAssets, RemoveAsset
<1>2. rep \in [Members -> [Assets -> Replicas]] /\ membership \in [Albums -> SUBSET Assets]
    BY DEF Typed, TypeOK, StoreTypeOK
<1>3. ToAdd(alb, m) \subseteq Ids
  <2> SUFFICES ASSUME NEW a \in membership[alb], Ready(m, a)
               PROVE  <<a, rep[m][a].gen>> \in Ids
    BY DEF ToAdd
  <2>1. a \in Assets
    BY <1>2
  <2>2. rep[m][a].gen \in Gens /\ rep[m][a].gen # 0
    BY <1>2, <2>1 DEF Ready, Replicas
  <2> QED
    BY <2>1, <2>2 DEF Ids
<1>4. rows' \in [Albums -> [Members -> SUBSET Assets]]
  <2>1. rows \in [Albums -> [Members -> SUBSET Assets]]
    BY DEF Typed, TypeOK, ImmichTypeOK
  <2>2. AssetsOf({id \in ToAdd(alb, m) : Exists(m, id[1], id[2])}) \subseteq Assets
    BY <1>3, AssetsTyped
  <2>3. CASE AddAssets(alb, m)
    BY <2>1, <2>2, <2>3 DEF AddAssets
  <2>4. ASSUME NEW id \in seen[alb][m], RemoveAsset(alb, m, id)
        PROVE  rows' \in [Albums -> [Members -> SUBSET Assets]]
    <3>1. rows' = rows \/ rows' = [rows EXCEPT ![alb][m] = @ \ {id[1]}]
      BY <2>4, Zenon DEF RemoveAsset
    <3> QED
      BY <2>1, <3>1
  <2> QED
    BY <2>3, <2>4
<1>5. ProcessTypeOK' /\ flicker' \in SUBSET (Members \X Assets) /\ dropped' \in SUBSET Assets
  <2>1. CASE Abort
    BY <2>1, EndCycleTyped DEF Abort
  <2>2. ASSUME UNCHANGED <<visits, checks, plan, tried, flicker, dropped, force>>,
               seen' \in [Albums -> [Members -> SUBSET Ids]],
               pc' = "write" \/ pc' = pc
        PROVE  /\ ProcessTypeOK'
               /\ flicker' \in SUBSET (Members \X Assets)
               /\ dropped' \in SUBSET Assets
    BY <2>2 DEF Typed, TypeOK, ProcessTypeOK, HistoryTypeOK
  <2>3. seen \in [Albums -> [Members -> SUBSET Ids]]
    BY DEF Typed, TypeOK, ProcessTypeOK
  <2>4. CASE AddAssets(alb, m)
    <3>1. [seen EXCEPT ![alb][m] = @ \cup Written(ToAdd(alb, m))]
              \in [Albums -> [Members -> SUBSET Ids]]
      BY <1>3, <2>3 DEF Written
    <3> QED
      BY <2>1, <2>2, <2>4, <3>1 DEF AddAssets
  <2>5. ASSUME NEW id \in seen[alb][m], RemoveAsset(alb, m, id)
        PROVE  /\ ProcessTypeOK'
               /\ flicker' \in SUBSET (Members \X Assets)
               /\ dropped' \in SUBSET Assets
    <3>1. [seen EXCEPT ![alb][m] = @ \ {id}] \in [Albums -> [Members -> SUBSET Ids]]
      BY <2>3
    <3> QED
      BY <2>1, <2>2, <2>5, <3>1 DEF RemoveAsset
  <2> QED
    BY <2>4, <2>5
<1>6. ImmichTypeOK' /\ CopiesHaveIds'
    BY <1>1, <1>4 DEF Typed, TypeOK, ImmichTypeOK, CopiesHaveIds
<1>7. StoreTypeOK'
    BY <1>1 DEF Typed, TypeOK, StoreTypeOK, sqlite
<1>8. HistoryTypeOK'
    BY <1>1, <1>5 DEF Typed, TypeOK, HistoryTypeOK
<1> QED
    BY <1>5, <1>6, <1>7, <1>8 DEF Typed, TypeOK

\* The observation row is replaced after the writes.
LEMMA UpdateObservationsTyped ==
    ASSUME Typed, NEW alb \in Albums, NEW m \in Members, UpdateObservations(alb, m)
    PROVE  Typed'
<1>1. UNCHANGED <<immich, membership, sources, initialized, rep, seen, checks, plan,
                  tried, force, flicker, dropped, spent>>
    BY DEF UpdateObservations
<1>2. ImmichTypeOK /\ StoreTypeOK /\ ProcessTypeOK /\ HistoryTypeOK /\ CopiesHaveIds
    BY DEF Typed, TypeOK
<1>3. [obs EXCEPT ![alb][m] = seen[alb][m]] \in [Albums -> [Members -> SUBSET Ids]]
    BY <1>2 DEF StoreTypeOK, ProcessTypeOK
<1>4. /\ obs' \in [Albums -> [Members -> SUBSET Ids]]
      /\ offered' \in SUBSET (Albums \X Members \X Ids)
      /\ withdrawn' \in SUBSET (Albums \X Members \X Ids)
    BY <1>3, RecordTyped DEF UpdateObservations
<1>5. visits' \in SUBSET Mirrors /\ pc' = "apply"
    BY <1>2 DEF UpdateObservations, ProcessTypeOK
<1>6. ImmichTypeOK' /\ CopiesHaveIds'
    BY <1>1, <1>2 DEF ImmichTypeOK, CopiesHaveIds, immich
<1>7. StoreTypeOK'
    BY <1>1, <1>2, <1>4 DEF StoreTypeOK
<1>8. ProcessTypeOK'
    BY <1>1, <1>2, <1>5 DEF ProcessTypeOK
<1>9. HistoryTypeOK'
    BY <1>1, <1>2, <1>4 DEF HistoryTypeOK
<1> QED
    BY <1>6, <1>7, <1>8, <1>9 DEF Typed, TypeOK

-----------------------------------------------------------------------------
(* Cleanup keeps the types. *)

\* Cleanup of one unused copy, whatever its outcome.
LEMMA CleanupTyped ==
    ASSUME Typed, NEW m \in Members, NEW a \in Assets, CleanupReplica(m, a)
    PROVE  Typed'
<1>1. UNCHANGED <<membership, sources, obs, initialized, pc, visits, seen, checks, plan,
                  force, history>>
    BY DEF CleanupReplica
<1>2. /\ rep \in [Members -> [Assets -> Replicas]]
      /\ copy \in [Members -> [Assets -> Copies]]
      /\ file \in [Members -> [Assets -> BOOLEAN]]
    BY DEF Typed, TypeOK, StoreTypeOK, ImmichTypeOK
<1>3. tried' \in SUBSET (Work \X Members \X Assets)
  <2>1. "cleanup" \in Work
    BY DEF Work
  <2> QED
    BY <2>1 DEF CleanupReplica, Typed, TypeOK, ProcessTypeOK
<1>4. spent' \in Budget
  <2>1. spent' = spent \/ Fault
    BY DEF CleanupReplica
  <2> QED
    BY <2>1, FaultTyped DEF Typed, TypeOK, HistoryTypeOK
<1>5. /\ \/ UNCHANGED <<copy, rows, file>>
         \/ DeleteCopy(m, a)
         \/ file' = [file EXCEPT ![m][a] = FALSE] /\ UNCHANGED <<copy, rows>>
      /\ \/ rep' = rep
         \/ rep' = [rep EXCEPT ![m][a].state = "deleting", ![m][a].gen = copy[m][a].gen]
         \/ rep' = [rep EXCEPT ![m][a] = NoReplica]
    BY Zenon DEF CleanupReplica, ForgetCopy
<1>6. ImmichTypeOK' /\ CopiesHaveIds'
  <2>1. CASE UNCHANGED <<copy, rows, file>>
    BY <2>1, SameImmichTyped
  <2>2. CASE DeleteCopy(m, a)
    BY <2>2, DeletionTyped DEF DeleteCopy
  <2>3. CASE file' = [file EXCEPT ![m][a] = FALSE] /\ UNCHANGED <<copy, rows>>
    <3>1. file' \in [Members -> [Assets -> BOOLEAN]]
      BY <1>2, <2>3, FileTyped
    <3> QED
      BY <2>3, <3>1 DEF Typed, TypeOK, ImmichTypeOK, CopiesHaveIds
  <2> QED
    BY <1>5, <2>1, <2>2, <2>3
<1>7. rep' \in [Members -> [Assets -> Replicas]]
  <2>1. [rep EXCEPT ![m][a].state = "deleting", ![m][a].gen = copy[m][a].gen]
            \in [Members -> [Assets -> Replicas]]
    <3>1. copy[m][a].gen \in Gens /\ "deleting" \in RepStates
      BY <1>2 DEF Copies, RepStates, RemovalStates
    <3> QED
      BY <1>2, <3>1, StateAndIdTyped
  <2>2. [rep EXCEPT ![m][a] = NoReplica] \in [Members -> [Assets -> Replicas]]
    <3>1. NoReplica \in Replicas
      BY ZeroGen DEF NoReplica, Replicas, RepStates
    <3> QED
      BY <1>2, <3>1, RowTyped
  <2> QED
    BY <1>2, <1>5, <2>1, <2>2
<1> QED
    BY <1>1, <1>3, <1>4, <1>6, <1>7, WorkTyped

\* MarkUnused and the end of the cycle.
LEMMA FinishTyped ==
    ASSUME Typed, FinishCycle
    PROVE  Typed'
<1>1. UNCHANGED <<immich, membership, sources, obs, initialized, offered, withdrawn, spent>>
    BY DEF FinishCycle
<1>2. EndCycle /\ force' \in BOOLEAN
    BY DEF FinishCycle
<1>3. rep' \in [Members -> [Assets -> Replicas]]
  <2> DEFINE row(m, a) == IF /\ m # Owner[a] /\ Unshared(a)
                             /\ rep[m][a].state \notin RemovalStates \cup {"none"}
                          THEN [rep[m][a] EXCEPT !.state = "pending_removal"]
                          ELSE rep[m][a]
  <2>1. rep' = [m \in Members |-> [a \in Assets |-> row(m, a)]]
    BY DEF FinishCycle, MarkUnused
  <2>2. ASSUME NEW m \in Members, NEW a \in Assets
        PROVE  row(m, a) \in Replicas
    <3>1. rep[m][a] \in Replicas
      BY DEF Typed, TypeOK, StoreTypeOK
    <3>2. [rep[m][a] EXCEPT !.state = "pending_removal"] \in Replicas
      BY <3>1 DEF Replicas, RepStates, RemovalStates
    <3> QED
      BY <3>1, <3>2
  <2> HIDE DEF row
  <2> QED
    BY <2>1, <2>2
<1>4. ImmichTypeOK' /\ CopiesHaveIds'
    BY <1>1 DEF Typed, TypeOK, ImmichTypeOK, CopiesHaveIds, immich
<1>5. StoreTypeOK'
    BY <1>1, <1>3 DEF Typed, TypeOK, StoreTypeOK
<1>6. HistoryTypeOK'
    BY <1>1, <1>2, EndCycleTyped DEF Typed, TypeOK, HistoryTypeOK
<1>7. ProcessTypeOK'
    BY <1>2, EndCycleTyped
<1> QED
    BY <1>4, <1>5, <1>6, <1>7 DEF Typed, TypeOK

-----------------------------------------------------------------------------

\* Typed is inductive: one case per operation.
LEMMA NextTyped ==
    ASSUME Typed, [Next]_vars
    PROVE  Typed'
<1>1. CASE User
    BY <1>1, EditTyped, TrashEditTyped DEF User
<1>2. CASE Scan
    BY <1>2, ImportTyped DEF Scan
<1>3. CASE StartRun \/ StartWork \/ UNCHANGED vars
    BY <1>3, QuietTyped
<1>4. CASE CycleFault
    BY <1>4, CycleFaultTyped
<1>5. CASE Observe
    BY <1>5, ListAlbumTyped, RejectAlbumTyped, CheckTyped, ConfirmOriginTyped, PersistTyped
       DEF Observe
<1>6. CASE Apply
    BY <1>6, PrepareTyped, QuietTyped, LookUpTyped, WriteTyped, UpdateObservationsTyped
       DEF Apply
<1>7. CASE Post
    BY <1>7, CleanupTyped, FinishTyped DEF Post
<1> QED
    BY <1>1, <1>2, <1>3, <1>4, <1>5, <1>6, <1>7 DEF Next, Cycle

\* Every variable of the database, of the process and of the modelled Immich
\* accounts keeps its type under every operation of the cycle.
THEOREM TypeCorrect == Spec => []TypeOK
<1>1. Init => Typed
    BY InitTyped
<1>2. Typed /\ [Next]_vars => Typed'
    BY NextTyped
<1>3. Typed => TypeOK
    BY DEF Typed
<1> QED
    BY <1>1, <1>2, <1>3, PTL DEF Spec
-----------------------------------------------------------------------------
(* Sharing decisions. *)

\* Sharing decisions are taken in one place: no step but PersistPlans changes
\* album_memberships or sharing_sources.
LEMMA OnlyPersistDecides ==
    ASSUME [Next]_vars
    PROVE  PersistPlans \/ UNCHANGED <<membership, sources>>
<1>1. CASE User
    BY <1>1 DEF User, UserAdd, UserRemove, UserTrash, UserRestore, UserDelete, Edit,
                TrashEdit, sqlite
<1>2. CASE Scan
    BY <1>2 DEF Scan, Import, sqlite
<1>3. CASE StartRun \/ StartWork \/ CycleFault
    BY <1>3 DEF StartRun, StartWork, CycleFault, sqlite
<1>4. CASE Observe
    BY <1>4 DEF Observe, ListAlbum, RejectAlbum, CheckMissing, ConfirmOrigin, sqlite
<1>5. CASE Apply
  <2>1. ASSUME NEW m \in Members, NEW a \in Assets, Audit(m, a)
        PROVE  UNCHANGED <<membership, sources>>
    BY <2>1 DEF Audit
  <2>2. ASSUME NEW alb \in Albums, NEW m \in Members, NEW a \in Assets,
               Prepare(alb, m, a) \/ LookUp(alb, m, a)
        PROVE  UNCHANGED <<membership, sources>>
    BY <2>2 DEF Prepare, LookUp
  <2>3. ASSUME NEW alb \in Albums, NEW m \in Members,
               AddAssets(alb, m) \/ UpdateObservations(alb, m)
        PROVE  UNCHANGED <<membership, sources>>
    BY <2>3 DEF AddAssets, UpdateObservations, sqlite
  <2>4. ASSUME NEW alb \in Albums, NEW m \in Members, NEW id \in seen[alb][m],
               RemoveAsset(alb, m, id)
        PROVE  UNCHANGED <<membership, sources>>
    BY <2>4 DEF RemoveAsset, sqlite
  <2>5. CASE AuditDone \/ ApplyDone
    BY <2>5 DEF AuditDone, ApplyDone, sqlite
  <2> QED
    BY <1>5, <2>1, <2>2, <2>3, <2>4, <2>5 DEF Apply
<1>6. CASE Post
  <2>1. ASSUME NEW m \in Members, NEW a \in Assets, CleanupReplica(m, a)
        PROVE  UNCHANGED <<membership, sources>>
    BY <2>1 DEF CleanupReplica
  <2>2. CASE FinishCycle
    BY <2>2 DEF FinishCycle
  <2> QED
    BY <1>6, <2>1, <2>2 DEF Post
<1>7. CASE UNCHANGED vars
    BY <1>7 DEF vars, sqlite
<1> QED
    BY <1>1, <1>2, <1>3, <1>4, <1>5, <1>6, <1>7 DEF Next, Cycle

\* What the decision shares in a secondary album it shares in Together.
LEMMA DecisionNested ==
    ASSUME NEW alb \in Albums
    PROVE  Decision[alb] \subseteq Decision[Together]
<1>1. Together \in Albums
    BY MembershipAssumption
<1>2. Resolved[alb] \subseteq Resolved[Together]
    BY <1>1 DEF Resolved
<1> QED
    BY <1>1, <1>2 DEF Decision

\* The sharing sources that cleanup consults are the memberships, and Together
\* covers every secondary album, in every reachable state.
THEOREM SharingIsConsistent == Spec => []SharingConsistent
<1>1. Init => SharingConsistent
    BY MembershipAssumption DEF Init, SharingConsistent
<1>2. SharingConsistent /\ [Next]_vars => SharingConsistent'
  <2> SUFFICES ASSUME SharingConsistent, [Next]_vars
               PROVE  SharingConsistent'
    OBVIOUS
  <2>1. CASE UNCHANGED <<membership, sources>>
    BY <2>1 DEF SharingConsistent
  <2>2. CASE PersistPlans
    <3> SUFFICES ASSUME NEW alb \in Albums
                 PROVE  membership'[alb] \subseteq membership'[Together]
                          /\ sources'[alb] = membership'[alb]
      BY DEF SharingConsistent
    <3>1. membership' = Decision
      BY <2>2 DEF PersistPlans
    <3>2. sources'[alb] = (sources[alb] \ (membership[alb] \ Decision[alb]))
                             \cup (Decision[alb] \ membership[alb])
      BY <2>2 DEF PersistPlans
    <3>3. sources[alb] = membership[alb]
      BY DEF SharingConsistent
    <3> QED
      BY <3>1, <3>2, <3>3, DecisionNested
  <2> QED
    BY <2>1, <2>2, OnlyPersistDecides
<1> QED
    BY <1>1, <1>2, PTL DEF Spec

-----------------------------------------------------------------------------
(* Owner deletions. *)

\* Verification and repair never record an owner deletion.
LEMMA EnsureKeepsDeletions ==
    ASSUME Typed, NEW m \in Members, NEW a \in Assets, NEW b \in Assets,
           EnsureReplica(m, a) \/ EnsureError(m, a),
           Origin(b)'.state = "owner_deleted"
    PROVE  Origin(b).state = "owner_deleted"
<1>1. rep \in [Members -> [Assets -> Replicas]] /\ Owner[b] \in Members
    BY MembershipAssumption DEF Typed, TypeOK, StoreTypeOK
<1>2. \/ rep' = rep
      \/ rep' = [rep EXCEPT ![m][a].state = "source_missing"]
      \/ rep' = [rep EXCEPT ![m][a].state = "ready"]
      \/ rep' = [rep EXCEPT ![m][a].state = "api_error"]
      \/ rep' = [rep EXCEPT ![m][a] = [state |-> "pending_import", gen |-> 0, path |-> TRUE]]
      \/ rep' = [rep EXCEPT ![m][a] = [state |-> "error", gen |-> 0, path |-> TRUE]]
    BY Zenon DEF EnsureReplica, EnsureError
<1>3. rep'[Owner[b]][b].state = "owner_deleted"
    BY DEF Origin
<1>4. rep[m][a] \in Replicas
    BY <1>1
<1>5. rep[Owner[b]][b].state = "owner_deleted"
  <2>1. CASE ~(m = Owner[b] /\ a = b)
    <3>1. rep'[Owner[b]][b] = rep[Owner[b]][b]
      BY <1>1, <1>2, <2>1
    <3> QED
      BY <1>3, <3>1
  <2>2. CASE m = Owner[b] /\ a = b
    <3>1. rep'[m][a].state = "owner_deleted"
      BY <1>3, <2>2
    <3>2. rep' = rep
      BY <1>1, <1>2, <1>4, <3>1 DEF Replicas
    <3> QED
      BY <1>3, <3>2
  <2> QED
    BY <2>1, <2>2
<1> QED
    BY <1>5 DEF Origin

\* No step but PersistPlans records an owner deletion.
LEMMA OnlyPersistMarksDeleted ==
    ASSUME Typed, [Next]_vars, ~PersistPlans, NEW b \in Assets,
           Origin(b)'.state = "owner_deleted"
    PROVE  Origin(b).state = "owner_deleted"
<1>1. rep \in [Members -> [Assets -> Replicas]] /\ Owner[b] \in Members
    BY MembershipAssumption DEF Typed, TypeOK, StoreTypeOK
<1>2. CASE rep' = rep
    BY <1>2 DEF Origin
<1>3. CASE User \/ Scan
    BY <1>2, <1>3 DEF User, Scan, UserAdd, UserRemove, UserTrash, UserRestore, UserDelete,
                      Edit, TrashEdit, Import, sqlite
<1>4. CASE StartRun \/ StartWork \/ CycleFault \/ UNCHANGED vars
    BY <1>2, <1>4 DEF StartRun, StartWork, CycleFault, vars, sqlite
<1>5. CASE Observe
  <2>1. ASSUME NEW m \in Members, NEW new, EnsureOrigins(m, new)
        PROVE  Origin(b).state = "owner_deleted"
    <3>1. rep'[Owner[b]][b].state = "owner_deleted"
      BY DEF Origin
    <3>2. \/ rep'[Owner[b]][b] = rep[Owner[b]][b]
          \/ rep'[Owner[b]][b] = [state |-> "ready", gen |-> 1, path |-> TRUE]
      BY <1>1, <2>1 DEF EnsureOrigins
    <3> QED
      BY <3>1, <3>2 DEF Origin
  <2>2. ASSUME NEW alb \in Albums, NEW m \in Members, ListAlbum(alb, m) \/ RejectAlbum(alb, m)
        PROVE  Origin(b).state = "owner_deleted"
    BY <2>1, <2>2 DEF ListAlbum, RejectAlbum
  <2>3. ASSUME NEW c \in checks, CheckMissing(c[1], c[2], c[3])
        PROVE  Origin(b).state = "owner_deleted"
    BY <1>2, <2>3 DEF CheckMissing, sqlite
  <2>4. ASSUME NEW a \in Assets, ConfirmOrigin(a)
        PROVE  Origin(b).state = "owner_deleted"
    BY <1>2, <2>4 DEF ConfirmOrigin, sqlite
  <2> QED
    BY <1>5, <2>2, <2>3, <2>4 DEF Observe
<1>6. CASE Apply
  <2>1. ASSUME NEW m \in Members, NEW a \in Assets, Audit(m, a)
        PROVE  Origin(b).state = "owner_deleted"
    BY <2>1, EnsureKeepsDeletions DEF Audit
  <2>2. ASSUME NEW alb \in Albums, NEW m \in Members, NEW a \in Assets, Prepare(alb, m, a)
        PROVE  Origin(b).state = "owner_deleted"
    BY <2>2, EnsureKeepsDeletions DEF Prepare
  <2>3. ASSUME NEW alb \in Albums, NEW m \in Members, NEW a \in Assets, LookUp(alb, m, a)
        PROVE  Origin(b).state = "owner_deleted"
    <3>1. \/ rep' = rep
          \/ rep' = [rep EXCEPT ![m][a].state = "ready", ![m][a].gen = copy[m][a].gen]
      BY <2>3, Zenon DEF LookUp
    <3>2. CASE rep' = [rep EXCEPT ![m][a].state = "ready", ![m][a].gen = copy[m][a].gen]
      <4>1. rep'[Owner[b]][b].state = "owner_deleted" /\ rep[m][a] \in Replicas
        BY <1>1 DEF Origin
      <4>2. CASE m = Owner[b] /\ a = b
        BY <1>1, <3>2, <4>1, <4>2 DEF Replicas
      <4>3. CASE ~(m = Owner[b] /\ a = b)
        BY <1>1, <3>2, <4>1, <4>3 DEF Origin
      <4> QED
        BY <4>2, <4>3
    <3> QED
      BY <1>2, <3>1, <3>2
  <2>4. ASSUME NEW alb \in Albums, NEW m \in Members,
               \/ AddAssets(alb, m) \/ UpdateObservations(alb, m)
               \/ \E id \in seen[alb][m] : RemoveAsset(alb, m, id)
        PROVE  Origin(b).state = "owner_deleted"
    BY <1>2, <2>4 DEF AddAssets, UpdateObservations, RemoveAsset, sqlite
  <2>5. CASE AuditDone \/ ApplyDone
    BY <1>2, <2>5 DEF AuditDone, ApplyDone, sqlite
  <2> QED
    BY <1>6, <2>1, <2>2, <2>3, <2>4, <2>5 DEF Apply
<1>7. CASE Post
  <2>1. ASSUME NEW m \in Members, NEW a \in Assets, CleanupReplica(m, a)
        PROVE  Origin(b).state = "owner_deleted"
    <3>1. m # Owner[a]
      BY <2>1 DEF CleanupReplica, ToClean
    <3>2. \/ rep' = rep
          \/ rep' = [rep EXCEPT ![m][a].state = "deleting", ![m][a].gen = copy[m][a].gen]
          \/ rep' = [rep EXCEPT ![m][a] = NoReplica]
      BY <2>1, Zenon DEF CleanupReplica, ForgetCopy
    <3>3. rep'[Owner[b]][b] = rep[Owner[b]][b]
      BY <1>1, <3>1, <3>2
    <3> QED
      BY <3>3 DEF Origin
  <2>2. CASE FinishCycle
    <3>1. rep'[Owner[b]][b] = rep[Owner[b]][b]
      BY <1>1, <2>2 DEF FinishCycle, MarkUnused
    <3> QED
      BY <3>1 DEF Origin
  <2> QED
    BY <1>7, <2>1, <2>2 DEF Post
<1> QED
    BY <1>3, <1>4, <1>5, <1>6, <1>7 DEF Next, Cycle

\* What PersistPlans records as deleted by its owner, the same transaction
\* takes out of every album.
LEMMA PersistUnshares ==
    ASSUME Typed, PersistPlans, NEW a \in Assets, NEW alb \in Albums,
           Origin(a)'.state = "owner_deleted"
    PROVE  a \notin membership'[alb]
<1>1. Owner[a] \in Members /\ rep[Owner[a]][a] \in Replicas
    BY MembershipAssumption DEF Typed, TypeOK, StoreTypeOK
<1>2. rep'[Owner[a]][a].state = PersistedState(Owner[a], a)
    BY <1>1 DEF PersistPlans, Replicas
<1>3. PersistedState(Owner[a], a) = "owner_deleted"
    BY <1>2 DEF Origin
<1>4. membership'[alb] = Resolved[alb] \ Deleted
    BY DEF PersistPlans, Decision
<1>5. CASE a \in Deleted
    BY <1>4, <1>5
<1>6. CASE a \notin Deleted
  <2>1. a \notin Restored /\ Origin(a).state = "owner_deleted"
    BY <1>3, <1>6 DEF PersistedState, Origin
  <2>2. a \notin Candidates
    BY <1>6, <2>1 DEF Deleted, Restored
  <2> QED
    BY <1>4, <2>2 DEF Candidates
<1> QED
    BY <1>5, <1>6

\* An asset whose owner deletion is on record is shared in no album, at every
\* point of a cycle and after any crash.
THEOREM OwnerDeletionUnshares == Spec => []OwnerDeletedUnshared
<1>1. Init => OwnerDeletedUnshared
    BY MembershipAssumption DEF Init, OwnerDeletedUnshared, Origin, NoReplica
<1>2. Typed /\ OwnerDeletedUnshared /\ [Next]_vars => OwnerDeletedUnshared'
  <2> SUFFICES ASSUME Typed, OwnerDeletedUnshared, [Next]_vars,
                      NEW a \in Assets, NEW alb \in Albums,
                      Origin(a)'.state = "owner_deleted"
               PROVE  a \notin membership'[alb]
    BY DEF OwnerDeletedUnshared
  <2>1. CASE PersistPlans
    BY <2>1, PersistUnshares
  <2>2. CASE ~PersistPlans
    <3>1. Origin(a).state = "owner_deleted"
      BY <2>2, OnlyPersistMarksDeleted
    <3>2. membership' = membership
      BY <2>2, OnlyPersistDecides
    <3> QED
      BY <3>1, <3>2 DEF OwnerDeletedUnshared
  <2> QED
    BY <2>1, <2>2
<1>3. Init => Typed
    BY InitTyped
<1>4. Typed /\ [Next]_vars => Typed'
    BY NextTyped
<1> QED
    BY <1>1, <1>2, <1>3, <1>4, PTL DEF Spec

-----------------------------------------------------------------------------
(* Deletion of copies. *)

\* A user's permanent deletion counts as one; what remains is cleanup.
LEMMA OnlyCleanupDeletes ==
    ASSUME Typed, [Next]_vars, NEW m \in Members, NEW a \in Assets, BridgeDeletes(m, a)
    PROVE  CleanupReplica(m, a)
<1>1. /\ pc = "post" /\ copy[m][a].st # "none" /\ copy'[m][a].st = "none"
      /\ spent'.trash = spent.trash
    BY DEF BridgeDeletes
<1>2. copy' # copy
    BY <1>1
<1>3. copy \in [Members -> [Assets -> Copies]] /\ spent \in Budget
    BY DEF Typed, TypeOK, ImmichTypeOK, HistoryTypeOK
<1>4. ASSUME User PROVE FALSE
  <2>1. PICK n \in Members, b \in Assets :
            UserTrash(n, b) \/ UserRestore(n, b) \/ UserDelete(n, b)
    BY <1>2, <1>4 DEF User, UserAdd, UserRemove, Edit
  <2>2. spent' = [spent EXCEPT !.trash = @ + 1]
    BY <2>1 DEF UserTrash, UserRestore, UserDelete, TrashEdit
  <2>3. spent.trash \in Nat
    BY <1>3, MembershipAssumption DEF Budget
  <2> QED
    BY <1>1, <1>3, <2>2, <2>3 DEF Budget
<1>5. ASSUME Scan PROVE FALSE
  <2>1. PICK n \in Members, b \in Assets : Import(n, b)
    BY <1>5 DEF Scan
  <2>2. copy' = [copy EXCEPT ![n][b] = [gen |-> copy[n][b].gen + 1, st |-> "live"]]
    BY <2>1 DEF Import
  <2>3. CASE n = m /\ b = a
    <3>1. copy'[m][a].st = "live"
      BY <1>3, <2>2, <2>3
    <3> QED
      BY <1>1, <3>1
  <2>4. CASE ~(n = m /\ b = a)
    <3>1. copy'[m][a] = copy[m][a]
      BY <1>3, <2>2, <2>4
    <3> QED
      BY <1>1, <3>1
  <2> QED
    BY <2>3, <2>4
<1>6. ASSUME \/ StartRun \/ StartWork \/ CycleFault \/ UNCHANGED vars \/ Observe \/ FinishCycle
      PROVE  FALSE
    BY <1>2, <1>6 DEF StartRun, StartWork, CycleFault, vars, immich, Observe, ListAlbum,
                      RejectAlbum, CheckMissing, ConfirmOrigin, PersistPlans, FinishCycle
<1>7. ASSUME Apply PROVE FALSE
    BY <1>1, <1>7 DEF Apply, Audit, AuditDone, Prepare, LookUp, AddAssets, RemoveAsset,
                      UpdateObservations, ApplyDone
<1>8. PICK n \in Members, b \in Assets : CleanupReplica(n, b)
    BY <1>4, <1>5, <1>6, <1>7 DEF Next, Cycle, Post
<1>9. copy' = [copy EXCEPT ![n][b].st = "none"]
    BY <1>2, <1>8 DEF CleanupReplica, DeleteCopy, ForgetCopy
<1>10. n = m /\ b = a
  <2>1. ~(n = m /\ b = a) => copy'[m][a] = copy[m][a]
    BY <1>3, <1>9
  <2> QED
    BY <1>1, <2>1
<1> QED
    BY <1>8, <1>10

\* The bridge force-deletes only recipient copies of assets that no album
\* shares, and without remove_unshared_replicas only after an owner deletion.
THEOREM OnlyUnsharedAreDeleted == Spec => DeletesOnlyUnshared
<1>1. Typed /\ SharingConsistent /\ [Next]_vars =>
          [\A m \in Members, a \in Assets : BridgeDeletes(m, a) =>
             /\ m # Owner[a]
             /\ \A alb \in Albums : a \notin membership[alb]
             /\ RemoveUnshared \/ Origin(a).state = "owner_deleted"]_vars
  <2> SUFFICES ASSUME Typed, SharingConsistent, [Next]_vars,
                      NEW m \in Members, NEW a \in Assets, BridgeDeletes(m, a)
               PROVE  /\ m # Owner[a]
                      /\ \A alb \in Albums : a \notin membership[alb]
                      /\ RemoveUnshared \/ Origin(a).state = "owner_deleted"
    OBVIOUS
  <2>1. <<m, a>> \in ToClean
    BY OnlyCleanupDeletes DEF CleanupReplica
  <2>2. m # Owner[a] /\ Unshared(a) /\ (RemoveUnshared \/ Origin(a).state = "owner_deleted")
    BY <2>1 DEF ToClean
  <2>3. \A alb \in Albums : a \notin membership[alb]
    BY <2>2 DEF Unshared, SharingConsistent
  <2> QED
    BY <2>2, <2>3
<1>2. Init => Typed
    BY InitTyped
<1>3. Typed /\ [Next]_vars => Typed'
    BY NextTyped
<1>4. Spec => []SharingConsistent
    BY SharingIsConsistent
<1> QED
    BY <1>1, <1>2, <1>3, <1>4, PTL DEF Spec, DeletesOnlyUnshared
=============================================================================
