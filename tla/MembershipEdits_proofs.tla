---------------------- MODULE MembershipEdits_proofs ----------------------
(* What the bridge takes for a user's edit really was one. Theorems of     *)
(* Membership about the observations that persistPlans decides from, for   *)
(* any members, albums, assets and faults.                                 *)
EXTENDS Membership_proofs

-----------------------------------------------------------------------------
(* Observations against albums. s is a table of ids per mirror: obs, what   *)
(* was last recorded, or seen, what this cycle listed and wrote.            *)

\* The id is recorded, the copy is there, and the album does not have it.
Missing(s, alb, m, a) ==
    Id(m, a) \in s[alb][m] /\ copy[m][a].st # "none" /\ a \notin rows[alb][m]
WasTaken(alb, m, a) == <<alb, m, Id(m, a)>> \in withdrawn

\* Between cycles the process has no plan.
IdleEmpty == pc = "idle" => plan = EmptyPlan /\ checks = {}

\* Nothing is recorded of an album before its first discovery.
Blank == \A alb \in Albums : ~initialized[alb] => \A m \in Members : obs[alb][m] = {}

\* applyPlans visits the albums that were discovered.
VisitsKnown == pc \in {"apply", "write"} => \A v \in visits : initialized[v[1]]

\* Work goes on from the recorded observations, except for the mirror whose
\* writes are not recorded yet.
SeenIsRecorded ==
    /\ pc \in {"audit", "apply", "post"} => seen = obs
    /\ pc = "write" => \A alb \in Albums, m \in Members :
                          Turn(<<alb, m>>) \/ seen[alb][m] = obs[alb][m]

\* Immich never gives an asset id again.
OldIds == \A alb \in Albums, m \in Members :
    \A id \in obs[alb][m] \cup seen[alb][m] : id[2] <= copy[m][id[1]].gen

\* What an album shows, trash included, is in the library.
RowsExist == \A alb \in Albums, m \in Members :
    \A a \in rows[alb][m] : copy[m][a].st # "none"

Ground == IdleEmpty /\ Blank /\ VisitsKnown /\ SeenIsRecorded /\ OldIds /\ RowsExist

\* No write is unrecorded: the last cycle ended well, or this one has decided
\* and writes nothing now.
Clean == pc # "write" /\ (~force \/ pc \notin {"idle", "observe"})

\* An asset is missing from an album only because a user took it out. A write
\* that is not recorded yet, after a crash too, is of an unshared asset.
SharedTaken ==
    \A alb \in Albums, m \in Members, a \in Assets :
        (Clean \/ a \in membership[alb]) /\ Missing(obs, alb, m, a) => WasTaken(alb, m, a)

\* During the writes of a mirror: from what the bridge will record of it.
WrittenTaken ==
    pc = "write" => \A alb \in Albums, m \in Members, a \in Assets :
        Missing(seen, alb, m, a) => WasTaken(alb, m, a)

\* After a mirror was listed whatever leaves it was taken out by a user.
ListedTaken ==
    pc = "observe" => \A alb \in Albums, m \in Members, a \in Assets :
        <<alb, m>> \notin visits /\ Missing(seen, alb, m, a) => WasTaken(alb, m, a)

\* A recorded id that was not listed is of a copy that is not in the library,
\* or was taken out, or was restored since, or is of an unshared asset whose
\* removal by the bridge was not recorded.
ChecksExplained ==
    pc = "observe" => \A alb \in Albums, m \in Members, id \in Ids :
        <<alb, m, id>> \in checks =>
            /\ <<alb, m>> \notin visits
            /\ id \in obs[alb][m] /\ id \notin seen[alb][m]
            /\ InLibrary(m, id) => \/ <<alb, m, id>> \in withdrawn
                                   \/ <<m, id[1]>> \in flicker
                                   \/ force /\ id[1] \notin membership[alb]

\* So is every removal of the plan.
RemovesExplained ==
    pc = "observe" => \A alb \in Albums, a \in Assets :
        a \in plan.removes[alb] =>
            \/ force /\ a \notin membership[alb]
            \/ \E m \in Members : <<alb, m>> \notin visits /\ TakenOut(alb, m, a)
            \/ \E m \in Members : <<m, a>> \in flicker

Withdrawals == SharedTaken /\ WrittenTaken /\ ListedTaken
Explained == ChecksExplained /\ RemovesExplained
Edits == Ground /\ Withdrawals /\ Explained

-----------------------------------------------------------------------------
(* Facts about single steps. *)

\* The shape of the Immich accounts and of the tables, for the leaves below.
LEMMA Shape ==
    ASSUME Typed
    PROVE  /\ \A m \in Members, a \in Assets :
                 copy[m][a].gen \in Nat /\ copy[m][a].st \in {"none", "live", "trashed"}
           /\ obs \in [Albums -> [Members -> SUBSET Ids]]
           /\ seen \in [Albums -> [Members -> SUBSET Ids]]
           /\ rows \in [Albums -> [Members -> SUBSET Assets]]
           /\ membership \in [Albums -> SUBSET Assets]
           /\ checks \in SUBSET (Albums \X Members \X Ids)
<1>1. copy \in [Members -> [Assets -> Copies]] /\ rows \in [Albums -> [Members -> SUBSET Assets]]
    BY DEF Typed, TypeOK, ImmichTypeOK
<1>2. ASSUME NEW m \in Members, NEW a \in Assets
      PROVE  copy[m][a].gen \in Nat /\ copy[m][a].st \in {"none", "live", "trashed"}
  <2>1. copy[m][a] \in Copies
    BY <1>1
  <2>2. copy[m][a].gen \in Gens /\ copy[m][a].st \in {"none", "live", "trashed"}
    BY <2>1 DEF Copies
  <2> QED
    BY <2>2, MembershipAssumption DEF Gens
<1> QED
    BY <1>1, <1>2 DEF Typed, TypeOK, StoreTypeOK, ProcessTypeOK

\* Only one mirror has its turn.
LEMMA OneTurn ==
    ASSUME Typed, NEW v \in Mirrors, NEW w \in Mirrors, Turn(v), Turn(w)
    PROVE  v = w
<1>1. /\ \A alb \in Albums : AlbumRank[alb] \in Nat
      /\ \A m \in Members : MemberRank[m] \in Nat
    BY MembershipAssumption
<1>2. /\ v[1] \in Albums /\ v[2] \in Members /\ w[1] \in Albums /\ w[2] \in Members
      /\ AlbumRank[v[1]] \in Nat /\ AlbumRank[w[1]] \in Nat
      /\ MemberRank[v[2]] \in Nat /\ MemberRank[w[2]] \in Nat
    BY <1>1 DEF Mirrors
<1>3. ~(Before(v, w) /\ Before(w, v))
    BY <1>2 DEF Before
<1> QED
    BY <1>3 DEF Turn

\* Copies come and go, and get new ids, only by users, crawls and cleanup.
SameCopies ==
    \A m \in Members, a \in Assets :
        /\ copy'[m][a].gen = copy[m][a].gen
        /\ copy'[m][a].st = "none" <=> copy[m][a].st = "none"

\* A verification or repair restores a copy at most.
LEMMA EnsureSame ==
    ASSUME Typed, NEW m \in Members, NEW a \in Assets,
           EnsureReplica(m, a) \/ EnsureError(m, a)
    PROVE  SameCopies
<1>1. copy \in [Members -> [Assets -> Copies]]
    BY DEF Typed, TypeOK, ImmichTypeOK
<1>2. \/ copy' = copy
      \/ copy' = [copy EXCEPT ![m][a].st = "live"] /\ copy[m][a].st # "none"
    BY DEF EnsureReplica, EnsureError, Exists
<1>3. CASE copy' = copy
    BY <1>3 DEF SameCopies
<1>4. CASE copy' = [copy EXCEPT ![m][a].st = "live"] /\ copy[m][a].st # "none"
  <2> SUFFICES ASSUME NEW n \in Members, NEW b \in Assets
               PROVE  /\ copy'[n][b].gen = copy[n][b].gen
                      /\ copy'[n][b].st = "none" <=> copy[n][b].st = "none"
    BY DEF SameCopies
  <2>1. copy[n][b] \in Copies
    BY <1>1
  <2>2. copy'[n][b] = IF n = m /\ b = a THEN [copy[m][a] EXCEPT !.st = "live"] ELSE copy[n][b]
    BY <1>1, <1>4
  <2> QED
    BY <1>4, <2>1, <2>2 DEF Copies
<1> QED
    BY <1>2, <1>3, <1>4

-----------------------------------------------------------------------------
(* Users and Immich. *)

UserStep(alb, m, a) ==
    \/ UserAdd(alb, m, a) \/ UserRemove(alb, m, a)
    \/ UserTrash(m, a) \/ UserRestore(m, a) \/ UserDelete(m, a)
    \/ Import(m, a)

\* What an edit, a trash operation or a crawl does to the accounts.
LEMMA UserEffect ==
    ASSUME Typed, NEW alb \in Albums, NEW m \in Members, NEW a \in Assets, UserStep(alb, m, a)
    PROVE  /\ UNCHANGED <<sqlite, process>>
           /\ \A n \in Members, b \in Assets :
                 \/ /\ copy'[n][b].gen = copy[n][b].gen
                    /\ copy'[n][b].st # "none" => copy[n][b].st # "none"
                 \/ n = m /\ b = a /\ copy[n][b].st = "none"
                      /\ copy'[n][b].gen = copy[n][b].gen + 1
<1>1. copy \in [Members -> [Assets -> Copies]]
    BY DEF Typed, TypeOK, ImmichTypeOK
<1>2. UNCHANGED <<sqlite, process>>
    BY DEF UserStep, UserAdd, UserRemove, UserTrash, UserRestore, UserDelete, Import,
           Edit, TrashEdit
<1>3. \/ copy' = copy
      \/ copy[m][a].st # "none"
           /\ \E st \in {"none", "live", "trashed"} : copy' = [copy EXCEPT ![m][a].st = st]
      \/ copy[m][a].st = "none"
           /\ copy' = [copy EXCEPT ![m][a] = [gen |-> copy[m][a].gen + 1, st |-> "live"]]
    BY DEF UserStep, UserAdd, UserRemove, UserTrash, UserRestore, UserDelete, Import, Edit
<1>4. ASSUME NEW n \in Members, NEW b \in Assets
      PROVE  \/ /\ copy'[n][b].gen = copy[n][b].gen
                /\ copy'[n][b].st # "none" => copy[n][b].st # "none"
             \/ n = m /\ b = a /\ copy[n][b].st = "none"
                  /\ copy'[n][b].gen = copy[n][b].gen + 1
  <2>1. copy[n][b] \in Copies
    BY <1>1
  <2>2. CASE copy' = copy
    BY <2>2
  <2>3. ASSUME copy[m][a].st # "none", NEW st \in {"none", "live", "trashed"},
               copy' = [copy EXCEPT ![m][a].st = st]
        PROVE  /\ copy'[n][b].gen = copy[n][b].gen
               /\ copy'[n][b].st # "none" => copy[n][b].st # "none"
    <3>1. copy'[n][b] = IF n = m /\ b = a THEN [copy[m][a] EXCEPT !.st = st] ELSE copy[n][b]
      BY <1>1, <2>3
    <3> QED
      BY <2>1, <2>3, <3>1 DEF Copies
  <2>4. ASSUME copy[m][a].st = "none",
               copy' = [copy EXCEPT ![m][a] = [gen |-> copy[m][a].gen + 1, st |-> "live"]]
        PROVE  \/ /\ copy'[n][b].gen = copy[n][b].gen
                  /\ copy'[n][b].st # "none" => copy[n][b].st # "none"
               \/ n = m /\ b = a /\ copy[n][b].st = "none"
                    /\ copy'[n][b].gen = copy[n][b].gen + 1
    <3>1. copy'[n][b] = IF n = m /\ b = a THEN [gen |-> copy[m][a].gen + 1, st |-> "live"]
                                          ELSE copy[n][b]
      BY <1>1, <2>4
    <3> QED
      BY <2>4, <3>1
  <2> QED
    BY <1>3, <2>2, <2>3, <2>4
<1> QED
    BY <1>2, <1>4

\* A copy that leaves an album while its id stays current was taken out.
LEMMA UserTakes ==
    ASSUME Typed, NEW alb \in Albums, NEW m \in Members, NEW a \in Assets, UserStep(alb, m, a),
           NEW b \in Albums, NEW n \in Members, NEW x \in Assets,
           copy'[n][x].gen = copy[n][x].gen, copy'[n][x].st # "none", x \notin rows'[b][n]
    PROVE  \/ /\ x \notin rows[b][n]
              /\ <<b, n, Id(n, x)>> \in withdrawn => <<b, n, Id(n, x)>> \in withdrawn'
           \/ <<b, n, Id(n, x)>> \in withdrawn'
<1>1. /\ rows \in [Albums -> [Members -> SUBSET Assets]]
      /\ copy \in [Members -> [Assets -> Copies]]
    BY DEF Typed, TypeOK, ImmichTypeOK
<1>2. CASE UserAdd(alb, m, a)
  <2>1. rows' = [rows EXCEPT ![alb][m] = @ \cup {a}]
    BY <1>2 DEF UserAdd
  <2>2. rows'[b][n] = IF b = alb /\ n = m THEN rows[alb][m] \cup {a} ELSE rows[b][n]
    BY <1>1, <2>1
  <2>3. withdrawn' = withdrawn \/ withdrawn' = withdrawn \ {<<alb, m, Id(m, a)>>}
    BY <1>2 DEF UserAdd
  <2>4. <<b, n, Id(n, x)>> = <<alb, m, Id(m, a)>> => b = alb /\ n = m /\ x = a
    BY DEF Id
  <2> QED
    BY <2>2, <2>3, <2>4
<1>3. CASE UserRemove(alb, m, a)
  <2>1. rows' = [rows EXCEPT ![alb][m] = @ \ {a}]
    BY <1>3 DEF UserRemove
  <2>2. rows'[b][n] = IF b = alb /\ n = m THEN rows[alb][m] \ {a} ELSE rows[b][n]
    BY <1>1, <2>1
  <2>3. withdrawn' = withdrawn \cup {<<alb, m, Id(m, a)>>}
    BY <1>3 DEF UserRemove
  <2> QED
    BY <2>2, <2>3
<1>4. CASE UserTrash(m, a) \/ UserRestore(m, a) \/ Import(m, a)
    BY <1>4 DEF UserTrash, UserRestore, Import, TrashEdit, history
<1>5. CASE UserDelete(m, a)
  <2>1. /\ copy' = [copy EXCEPT ![m][a].st = "none"]
        /\ rows' = [y \in Albums |-> [rows[y] EXCEPT ![m] = @ \ {a}]]
        /\ withdrawn' = withdrawn
    BY <1>5 DEF UserDelete, TrashEdit
  <2>2. ~(n = m /\ x = a)
    <3>1. copy'[m][a].st = "none"
      BY <1>1, <2>1 DEF Copies
    <3> QED
      BY <3>1
  <2>3. rows'[b][n] = IF n = m THEN rows[b][m] \ {a} ELSE rows[b][n]
    BY <1>1, <2>1
  <2> QED
    BY <2>1, <2>2, <2>3
<1> QED
    BY <1>2, <1>3, <1>4, <1>5 DEF UserStep

\* Users and Immich do not touch what the bridge knows.
LEMMA UserGround ==
    ASSUME Typed, Ground, NEW alb \in Albums, NEW m \in Members, NEW a \in Assets,
           UserStep(alb, m, a)
    PROVE  Ground'
<1>1. UNCHANGED <<membership, sources, obs, initialized, rep, pc, visits, seen, checks, plan>>
    BY UserEffect DEF sqlite, process
<1>2. IdleEmpty' /\ Blank' /\ VisitsKnown'
    BY <1>1 DEF Ground, IdleEmpty, Blank, VisitsKnown
<1>3. SeenIsRecorded'
    BY <1>1 DEF Ground, SeenIsRecorded, Turn, Before
<1>4. OldIds'
  <2> SUFFICES ASSUME NEW b \in Albums, NEW n \in Members, NEW id \in obs[b][n] \cup seen[b][n]
               PROVE  id[2] <= copy'[n][id[1]].gen
    BY <1>1 DEF OldIds
  <2>1. id[1] \in Assets /\ id[2] \in Nat
    <3>1. id \in Ids
      BY Shape
    <3> QED
      BY <3>1, MembershipAssumption DEF Ids, Gens
  <2>2. id[2] <= copy[n][id[1]].gen
    BY DEF Ground, OldIds
  <2>3. copy[n][id[1]].gen \in Nat
    BY <2>1, Shape
  <2>4. copy'[n][id[1]].gen = copy[n][id[1]].gen \/ copy'[n][id[1]].gen = copy[n][id[1]].gen + 1
    BY <2>1, UserEffect
  <2> QED
    BY <2>1, <2>2, <2>3, <2>4
<1>5. RowsExist'
  <2> SUFFICES ASSUME NEW b \in Albums, NEW n \in Members, NEW x \in rows'[b][n]
               PROVE  copy'[n][x].st # "none"
    BY DEF RowsExist
  <2>1. /\ rows \in [Albums -> [Members -> SUBSET Assets]]
        /\ copy \in [Members -> [Assets -> Copies]]
    BY DEF Typed, TypeOK, ImmichTypeOK
  <2>2. \A y \in rows[b][n] : y \in Assets /\ copy[n][y].st # "none"
    BY <2>1 DEF Ground, RowsExist
  <2>3. CASE UserAdd(alb, m, a) \/ UserRemove(alb, m, a)
    <3>1. copy' = copy /\ copy[m][a].st # "none"
      BY <2>3 DEF UserAdd, UserRemove, Edit
    <3>2. \/ rows' = [rows EXCEPT ![alb][m] = @ \cup {a}]
          \/ rows' = [rows EXCEPT ![alb][m] = @ \ {a}]
      BY <2>3 DEF UserAdd, UserRemove
    <3>3. x \in rows[b][n] \/ (n = m /\ x = a)
      BY <2>1, <3>2, SMT
    <3> QED
      BY <2>2, <3>1, <3>3
  <2>4. CASE UserTrash(m, a) \/ UserRestore(m, a)
    <3>1. PICK st \in {"live", "trashed"} : copy' = [copy EXCEPT ![m][a].st = st]
      BY <2>4 DEF UserTrash, UserRestore
    <3>2. rows' = rows
      BY <2>4 DEF UserTrash, UserRestore
    <3>3. x \in Assets /\ copy[n][x] \in Copies /\ copy[n][x].st # "none"
      BY <2>1, <2>2, <3>2
    <3>4. copy'[n][x] = IF n = m /\ x = a THEN [copy[m][a] EXCEPT !.st = st] ELSE copy[n][x]
      BY <2>1, <3>1, <3>3
    <3> QED
      BY <3>3, <3>4 DEF Copies
  <2>5. CASE UserDelete(m, a)
    <3>1. /\ copy' = [copy EXCEPT ![m][a].st = "none"]
          /\ rows' = [y \in Albums |-> [rows[y] EXCEPT ![m] = @ \ {a}]]
      BY <2>5 DEF UserDelete
    <3>2. rows'[b][n] = IF n = m THEN rows[b][m] \ {a} ELSE rows[b][n]
      BY <2>1, <3>1
    <3>3. x \in Assets /\ copy[n][x].st # "none" /\ ~(n = m /\ x = a)
      BY <2>2, <3>2
    <3>4. copy'[n][x] = copy[n][x]
      BY <2>1, <3>1, <3>3
    <3> QED
      BY <3>3, <3>4
  <2>6. CASE Import(m, a)
    <3>1. /\ copy[m][a].st = "none" /\ rows' = rows
          /\ copy' = [copy EXCEPT ![m][a] = [gen |-> copy[m][a].gen + 1, st |-> "live"]]
      BY <2>6 DEF Import
    <3>2. x \in Assets /\ copy[n][x].st # "none"
      BY <2>2, <3>1
    <3>3. copy'[n][x] = copy[n][x]
      BY <2>1, <3>1, <3>2
    <3> QED
      BY <3>2, <3>3
  <2> QED
    BY <2>3, <2>4, <2>5, <2>6 DEF UserStep
<1> QED
    BY <1>2, <1>3, <1>4, <1>5 DEF Ground

\* What leaves an album between two requests of the bridge, a user took out.
LEMMA UserTaken ==
    ASSUME Typed, Ground, Withdrawals, NEW alb \in Albums, NEW m \in Members, NEW a \in Assets,
           UserStep(alb, m, a)
    PROVE  Withdrawals'
<1>1. UNCHANGED <<membership, obs, pc, visits, seen, force>>
    BY UserEffect DEF sqlite, process
<1>2. ASSUME NEW b \in Albums, NEW n \in Members, NEW x \in Assets, NEW ids,
             ids = obs[b][n] \/ ids = seen[b][n],
             <<x, copy'[n][x].gen>> \in ids, copy'[n][x].st # "none", x \notin rows'[b][n],
             (<<x, copy[n][x].gen>> \in ids /\ copy[n][x].st # "none" /\ x \notin rows[b][n])
                 => <<b, n, Id(n, x)>> \in withdrawn
      PROVE  <<b, n, <<x, copy'[n][x].gen>> >> \in withdrawn'
  <2>1. copy[n][x].gen \in Nat
    BY Shape
  <2>2. copy'[n][x].gen <= copy[n][x].gen
    BY <1>2 DEF Ground, OldIds
  <2>3. copy'[n][x].gen = copy[n][x].gen /\ copy[n][x].st # "none"
    BY <1>2, <2>1, <2>2, UserEffect
  <2>4. \/ /\ x \notin rows[b][n]
           /\ <<b, n, Id(n, x)>> \in withdrawn => <<b, n, Id(n, x)>> \in withdrawn'
        \/ <<b, n, Id(n, x)>> \in withdrawn'
    BY <1>2, <2>3, UserTakes
  <2> QED
    BY <1>2, <2>3, <2>4 DEF Id
<1>3. SharedTaken'
  <2> SUFFICES ASSUME NEW b \in Albums, NEW n \in Members, NEW x \in Assets,
                      Clean \/ x \in membership[b], Missing(obs, b, n, x)'
               PROVE  WasTaken(b, n, x)'
    BY <1>1 DEF SharedTaken, Clean
  <2>1. Missing(obs, b, n, x) => WasTaken(b, n, x)
    BY DEF Withdrawals, SharedTaken
  <2> QED
    BY <1>1, <1>2, <2>1 DEF Missing, WasTaken, Id
<1>4. WrittenTaken'
    BY <1>1, <1>2 DEF Withdrawals, WrittenTaken, Missing, WasTaken, Id
<1>5. ListedTaken'
    BY <1>1, <1>2 DEF Withdrawals, ListedTaken, Missing, WasTaken, Id
<1> QED
    BY <1>3, <1>4, <1>5 DEF Withdrawals

\* A copy that comes back during the observation is noted.
LEMMA UserRestores ==
    ASSUME Typed, NEW alb \in Albums, NEW m \in Members, NEW a \in Assets,
           UserStep(alb, m, a), pc = "observe", NEW n \in Members, NEW x \in Assets,
           copy'[n][x].gen = copy[n][x].gen, copy'[n][x].st = "live", copy[n][x].st # "live"
    PROVE  copy[n][x].st = "none" \/ <<n, x>> \in flicker'
<1>1. copy \in [Members -> [Assets -> Copies]]
  BY DEF Typed, TypeOK, ImmichTypeOK
<1>2. CASE UserRestore(m, a)
  <2>1. copy' = [copy EXCEPT ![m][a].st = "live"] /\ flicker' = flicker \cup {<<m, a>>}
    BY <1>2 DEF UserRestore
  <2> QED
    BY <1>1, <2>1
<1>3. CASE UserTrash(m, a) \/ UserDelete(m, a)
  <2>1. PICK st \in {"none", "trashed"} : copy' = [copy EXCEPT ![m][a].st = st]
    BY <1>3 DEF UserTrash, UserDelete
  <2>2. copy'[n][x] = IF n = m /\ x = a THEN [copy[m][a] EXCEPT !.st = st] ELSE copy[n][x]
    BY <1>1, <2>1
  <2> QED
    BY <1>1, <2>2 DEF Copies
<1>4. CASE UserAdd(alb, m, a) \/ UserRemove(alb, m, a)
  BY <1>4 DEF UserAdd, UserRemove, Edit
<1>5. CASE Import(m, a)
  BY <1>1, <1>5 DEF Import
<1> QED
  BY <1>2, <1>3, <1>4, <1>5 DEF UserStep

\* A removal that was listed stays on record, and a restored copy is noted.
LEMMA UserExplained ==
    ASSUME Typed, Ground, Explained, NEW alb \in Albums, NEW m \in Members, NEW a \in Assets,
           UserStep(alb, m, a)
    PROVE  Explained'
<1>1. UNCHANGED <<membership, obs, pc, visits, seen, checks, plan, force>>
    BY UserEffect DEF sqlite, process
<1>2. ASSUME pc = "observe", NEW b \in Albums, NEW n \in Members, NEW id, <<b, n>> \notin visits,
             id \notin seen[b][n], <<b, n, id>> \in withdrawn
      PROVE  <<b, n, id>> \in withdrawn'
  <2>1. CASE UserAdd(alb, m, a)
    <3>1. ListedWithout(alb, m, Id(m, a)) \/ <<b, n, id>> # <<alb, m, Id(m, a)>>
      BY <1>2 DEF ListedWithout
    <3> QED
      BY <1>2, <2>1, <3>1 DEF UserAdd
  <2>2. CASE ~UserAdd(alb, m, a)
    BY <1>2, <2>2 DEF UserStep, UserRemove, UserTrash, UserRestore, UserDelete, Import,
                      TrashEdit, history
  <2> QED
    BY <2>1, <2>2
<1>3. flicker \subseteq flicker'
    BY DEF UserStep, UserAdd, UserRemove, UserTrash, UserRestore, UserDelete, Import,
           Edit, history
<1>4. ASSUME pc = "observe", NEW n \in Members, NEW x \in Assets,
             copy'[n][x].gen = copy[n][x].gen, copy'[n][x].st = "live", copy[n][x].st # "live"
      PROVE  copy[n][x].st = "none" \/ <<n, x>> \in flicker'
    BY <1>4, UserRestores
<1>5. ChecksExplained'
  <2> SUFFICES ASSUME pc = "observe", NEW b \in Albums, NEW n \in Members, NEW id \in Ids,
                      <<b, n, id>> \in checks
               PROVE  /\ <<b, n>> \notin visits
                      /\ id \in obs[b][n] /\ id \notin seen[b][n]
                      /\ InLibrary(n, id)' => \/ <<b, n, id>> \in withdrawn'
                                              \/ <<n, id[1]>> \in flicker'
                                              \/ force /\ id[1] \notin membership[b]
    BY <1>1 DEF ChecksExplained
  <2>1. /\ <<b, n>> \notin visits
        /\ id \in obs[b][n] /\ id \notin seen[b][n]
        /\ InLibrary(n, id) => \/ <<b, n, id>> \in withdrawn
                               \/ <<n, id[1]>> \in flicker
                               \/ force /\ id[1] \notin membership[b]
    BY DEF Explained, ChecksExplained
  <2>2. id[1] \in Assets /\ id[2] \in Nat
    BY MembershipAssumption DEF Ids, Gens
  <2>3. ASSUME InLibrary(n, id)'
        PROVE  InLibrary(n, id) \/ <<n, id[1]>> \in flicker'
    <3>1. copy'[n][id[1]].gen = id[2] /\ copy'[n][id[1]].st = "live"
      BY <2>3 DEF InLibrary, Exists
    <3>2. id[2] <= copy[n][id[1]].gen /\ copy[n][id[1]].gen \in Nat
      BY <2>1, <2>2, Shape DEF Ground, OldIds
    <3>3. copy'[n][id[1]].gen = copy[n][id[1]].gen /\ copy[n][id[1]].st # "none"
      BY <2>2, <3>1, <3>2, UserEffect
    <3> QED
      BY <1>4, <2>2, <3>1, <3>3 DEF InLibrary, Exists
  <2> QED
    BY <1>2, <1>3, <2>1, <2>3
<1>6. RemovesExplained'
  <2> SUFFICES ASSUME pc = "observe", NEW b \in Albums, NEW x \in Assets, x \in plan.removes[b]
               PROVE  \/ force /\ x \notin membership[b]
                      \/ \E n \in Members : <<b, n>> \notin visits /\ TakenOut(b, n, x)'
                      \/ \E n \in Members : <<n, x>> \in flicker'
    BY <1>1 DEF RemovesExplained
  <2>1. \/ force /\ x \notin membership[b]
        \/ \E n \in Members : <<b, n>> \notin visits /\ TakenOut(b, n, x)
        \/ \E n \in Members : <<n, x>> \in flicker
    BY DEF Explained, RemovesExplained
  <2>2. ASSUME NEW n \in Members, <<b, n>> \notin visits, TakenOut(b, n, x)
        PROVE  TakenOut(b, n, x)'
    BY <1>1, <1>2, <2>2 DEF TakenOut, Taken
  <2> QED
    BY <1>3, <2>1, <2>2
<1> QED
    BY <1>5, <1>6 DEF Explained

-----------------------------------------------------------------------------
(* Steps of the bridge that leave the albums alone. *)

\* Ids and records stay as they are, and no write becomes unrecorded.
Still == /\ SameCopies /\ UNCHANGED <<rows, membership, obs, initialized, withdrawn>>
         /\ Clean' => Clean

\* Then nothing new is missing.
LEMMA StillTaken ==
    ASSUME Typed, Ground, Withdrawals, Still
    PROVE  Blank' /\ RowsExist' /\ SharedTaken'
<1>1. Blank'
    BY DEF Still, Ground, Blank
<1>2. RowsExist'
  <2> SUFFICES ASSUME NEW alb \in Albums, NEW m \in Members, NEW a \in rows[alb][m]
               PROVE  copy'[m][a].st # "none"
    BY DEF Still, RowsExist
  <2>1. a \in Assets
    BY Shape
  <2> QED
    BY <2>1 DEF Still, SameCopies, Ground, RowsExist
<1>3. SharedTaken'
  <2> SUFFICES ASSUME NEW alb \in Albums, NEW m \in Members, NEW a \in Assets,
                      (Clean \/ a \in membership[alb]) /\ Missing(obs, alb, m, a)'
               PROVE  WasTaken(alb, m, a)'
    BY DEF Still, SharedTaken
  <2>1. Missing(obs, alb, m, a) /\ Id(m, a)' = Id(m, a)
    BY DEF Still, SameCopies, Missing, Id
  <2> QED
    BY <2>1 DEF Still, Withdrawals, SharedTaken, WasTaken
<1> QED
    BY <1>1, <1>2, <1>3

\* The end of a cycle, completed or not, leaves nothing to explain.
LEMMA EndEdits ==
    ASSUME Typed, EndCycle, Blank', RowsExist', SharedTaken',
           OldIds, SameCopies, obs' = obs
    PROVE  Edits'
<1>1. pc' = "idle" /\ plan' = EmptyPlan /\ checks' = {} /\ seen' = NothingSeen
    BY DEF EndCycle
<1>2. OldIds'
  <2> SUFFICES ASSUME NEW alb \in Albums, NEW m \in Members, NEW id \in obs[alb][m]
               PROVE  id[2] <= copy'[m][id[1]].gen
    BY <1>1 DEF OldIds, NothingSeen
  <2>1. id[1] \in Assets
    BY Shape DEF Ids
  <2> QED
    BY <2>1 DEF OldIds, SameCopies
<1>3. Ground'
    BY <1>1, <1>2 DEF Ground, IdleEmpty, VisitsKnown, SeenIsRecorded
<1>4. Withdrawals' /\ Explained'
    BY <1>1 DEF Withdrawals, WrittenTaken, ListedTaken, Explained, ChecksExplained,
                RemovesExplained
<1> QED
    BY <1>3, <1>4 DEF Edits

\* A cycle ends without having written since its last observation.
LEMMA AbortEdits ==
    ASSUME Typed, Edits, EndCycle, Still
    PROVE  Edits'
BY StillTaken, EndEdits DEF Edits, Ground, Still

\* A step of the work on copies changes nothing that is explained here.
LEMMA WorkEdits ==
    ASSUME Typed, Edits, Still, UNCHANGED <<pc, visits, seen, checks, plan, flicker>>,
           pc # "observe"
    PROVE  Edits'
<1>1. Blank' /\ RowsExist' /\ SharedTaken'
    BY StillTaken DEF Edits
<1>2. IdleEmpty' /\ VisitsKnown'
    BY DEF Still, Edits, Ground, IdleEmpty, VisitsKnown
<1>3. SeenIsRecorded'
    BY DEF Still, Edits, Ground, SeenIsRecorded, Turn, Before
<1>4. OldIds'
  <2> SUFFICES ASSUME NEW alb \in Albums, NEW m \in Members,
                      NEW id \in obs[alb][m] \cup seen[alb][m]
               PROVE  id[2] <= copy'[m][id[1]].gen
    BY DEF Still, OldIds
  <2>1. id[1] \in Assets
    BY Shape DEF Ids
  <2> QED
    BY <2>1 DEF Still, SameCopies, Edits, Ground, OldIds
<1>5. WrittenTaken'
    BY DEF Still, SameCopies, Edits, Withdrawals, WrittenTaken, Missing, WasTaken, Id
<1>6. ListedTaken' /\ Explained'
    BY DEF ListedTaken, Explained, ChecksExplained, RemovesExplained
<1> QED
    BY <1>1, <1>2, <1>3, <1>4, <1>5, <1>6 DEF Edits, Ground, Withdrawals

\* Verification, repair and look-up.
LEMMA PrepareEdits ==
    ASSUME Typed, Edits, NEW alb \in Albums, NEW m \in Members, NEW a \in Assets,
           Audit(m, a) \/ Prepare(alb, m, a) \/ LookUp(alb, m, a)
    PROVE  Edits'
<1>1. UNCHANGED <<rows, membership, obs, initialized, withdrawn, pc, visits, seen, checks,
                  plan, force, flicker>>
    BY DEF Audit, Prepare, LookUp, history, immich
<1>2. pc # "observe"
    BY DEF Audit, Prepare, LookUp
<1>3. SameCopies
  <2>1. CASE Audit(m, a) \/ Prepare(alb, m, a)
    BY <2>1, EnsureSame DEF Audit, Prepare
  <2>2. CASE LookUp(alb, m, a)
    BY <2>2 DEF LookUp, immich, SameCopies
  <2> QED
    BY <2>1, <2>2
<1> QED
    BY <1>1, <1>2, <1>3, WorkEdits DEF Still, Clean

\* The phases of a cycle.
LEMMA PhaseEdits ==
    ASSUME Typed, Edits, StartRun \/ StartWork \/ AuditDone \/ ApplyDone
    PROVE  Edits'
<1>1. UNCHANGED <<copy, rows, membership, obs, initialized, withdrawn, checks, plan>>
    BY DEF StartRun, StartWork, AuditDone, ApplyDone, immich, sqlite, history
<1>2. Blank' /\ RowsExist' /\ SharedTaken'
  <2>1. Clean' => Clean
    BY DEF StartRun, StartWork, AuditDone, ApplyDone, Clean
  <2> QED
    BY <1>1, <2>1, StillTaken DEF Edits, Still, SameCopies
<1>3. Ground
    BY DEF Edits
<1>4. (StartWork /\ seen' = obs) \/ (~StartWork /\ seen' = seen)
  <2>1. CASE StartWork
    <3>1. seen' = [alb \in Albums |-> IF initialized[alb] THEN obs[alb] ELSE NothingSeen[alb]]
      BY <2>1 DEF StartWork
    <3>2. obs \in [Albums -> [Members -> SUBSET Ids]]
      BY Shape
    <3>3. ASSUME NEW alb \in Albums, ~initialized[alb]
          PROVE  NothingSeen[alb] = obs[alb]
      BY <1>3, <3>2, <3>3 DEF Ground, Blank, NothingSeen
    <3>4. seen' = [alb \in Albums |-> obs[alb]]
      BY <3>1, <3>3
    <3> QED
      BY <2>1, <3>2, <3>4
  <2>2. CASE ~StartWork
    BY <2>2 DEF StartRun, AuditDone, ApplyDone
  <2> QED
    BY <2>1, <2>2
<1>5. OldIds'
    BY <1>1, <1>3, <1>4 DEF Ground, OldIds
<1>6. CASE StartRun
  <2>1. pc' = "observe" /\ visits' = Mirrors /\ checks = {} /\ plan = EmptyPlan
    BY <1>3, <1>6 DEF StartRun, Ground, IdleEmpty
  <2>2. IdleEmpty' /\ VisitsKnown' /\ SeenIsRecorded' /\ WrittenTaken'
    BY <2>1 DEF IdleEmpty, VisitsKnown, SeenIsRecorded, WrittenTaken
  <2>3. ListedTaken'
    BY <2>1 DEF ListedTaken, Mirrors
  <2>4. Explained'
    BY <1>1, <2>1 DEF Explained, ChecksExplained, RemovesExplained, EmptyPlan
  <2> QED
    BY <1>2, <1>5, <2>2, <2>3, <2>4 DEF Edits, Ground, Withdrawals
<1>7. CASE StartWork \/ AuditDone \/ ApplyDone
  <2>1. pc' \in {"audit", "apply", "post"} /\ seen' = obs'
    <3>1. CASE StartWork
      BY <1>1, <1>4, <3>1 DEF StartWork
    <3>2. CASE AuditDone \/ ApplyDone
      BY <1>1, <1>3, <3>2 DEF AuditDone, ApplyDone, Ground, SeenIsRecorded
    <3> QED
      BY <1>7, <3>1, <3>2
  <2>2. VisitsKnown'
    BY <1>1, <1>7 DEF StartWork, AuditDone, ApplyDone, VisitsKnown
  <2>3. IdleEmpty' /\ SeenIsRecorded' /\ WrittenTaken' /\ ListedTaken' /\ Explained'
    BY <2>1 DEF IdleEmpty, SeenIsRecorded, WrittenTaken, ListedTaken, Explained,
                ChecksExplained, RemovesExplained
  <2> QED
    BY <1>2, <1>5, <2>2, <2>3 DEF Edits, Ground, Withdrawals
<1> QED
    BY <1>6, <1>7

-----------------------------------------------------------------------------
(* Observation. *)

\* The ids of a listing are current.
LEMMA ListingCurrent ==
    ASSUME Typed, NEW alb \in Albums, NEW m \in Members, NEW id \in Listing(alb, m)
    PROVE  /\ id[1] \in rows[alb][m] /\ id[1] \in Assets
           /\ copy[m][id[1]].st = "live" /\ id[2] = copy[m][id[1]].gen
BY Shape DEF Listing, Id

\* A mirror is listed.
LEMMA ListEdits ==
    ASSUME Typed, Edits, NEW alb \in Albums, NEW m \in Members, ListAlbum(alb, m)
    PROVE  Edits'
<1>1. /\ UNCHANGED <<copy, rows, membership, obs, initialized, withdrawn, pc, force,
                     flicker>>
      /\ pc = "observe" /\ checks = {} /\ <<alb, m>> \in visits
      /\ visits' = visits \ {<<alb, m>>}
    BY DEF ListAlbum, immich, history, Turn
<1>2. Blank' /\ RowsExist' /\ SharedTaken'
    BY <1>1, StillTaken DEF Edits, Still, SameCopies, Clean
<1>3. \A b \in Albums, n \in Members :
          seen'[b][n] = IF b = alb /\ n = m THEN Listing(alb, m) ELSE seen[b][n]
    BY Shape DEF ListAlbum
<1>4. plan'.removes = plan.removes
  <2>1. plan \in Plans /\ plan' = [plan EXCEPT !.adds[alb] = @ \cup AssetsOf(Added(alb, m))]
    BY DEF ListAlbum, Typed, TypeOK, ProcessTypeOK
  <2> QED
    BY <2>1 DEF Plans
<1>5. OldIds'
  <2> SUFFICES ASSUME NEW b \in Albums, NEW n \in Members,
                      NEW id \in obs[b][n] \cup seen'[b][n]
               PROVE  id[2] <= copy[n][id[1]].gen
    BY <1>1 DEF OldIds
  <2>1. CASE id \in obs[b][n] \cup seen[b][n]
    BY <2>1 DEF Edits, Ground, OldIds
  <2>2. CASE id \in Listing(alb, m) /\ b = alb /\ n = m
    BY <2>2, ListingCurrent, Shape
  <2> QED
    BY <1>3, <2>1, <2>2
<1>6. IdleEmpty' /\ VisitsKnown' /\ SeenIsRecorded' /\ WrittenTaken'
    BY <1>1 DEF IdleEmpty, VisitsKnown, SeenIsRecorded, WrittenTaken
<1>7. ListedTaken'
  <2> SUFFICES ASSUME NEW b \in Albums, NEW n \in Members, NEW a \in Assets,
                      <<b, n>> \notin visits', Id(n, a) \in seen'[b][n],
                      copy[n][a].st # "none", a \notin rows[b][n]
               PROVE  <<b, n, Id(n, a)>> \in withdrawn
    BY <1>1 DEF ListedTaken, Missing, WasTaken, Id
  <2>1. CASE b = alb /\ n = m
    BY <1>3, <2>1, ListingCurrent DEF Id
  <2>2. CASE ~(b = alb /\ n = m)
    BY <1>1, <1>3, <2>2 DEF Edits, Withdrawals, ListedTaken, Missing, WasTaken
  <2> QED
    BY <2>1, <2>2
<1>8. ChecksExplained'
  <2> SUFFICES ASSUME NEW b \in Albums, NEW n \in Members, NEW id \in Ids,
                      <<b, n, id>> \in checks'
               PROVE  /\ <<b, n>> \notin visits'
                      /\ id \in obs[b][n] /\ id \notin seen'[b][n]
                      /\ InLibrary(n, id) => \/ <<b, n, id>> \in withdrawn
                                             \/ force /\ id[1] \notin membership[b]
    BY <1>1 DEF ChecksExplained, InLibrary, Exists
  <2>1. b = alb /\ n = m /\ id \in obs[alb][m] \ Listing(alb, m)
    BY DEF ListAlbum
  <2>2. id[1] \in Assets /\ id = <<id[1], id[2]>>
    BY DEF Ids
  <2>3. ASSUME InLibrary(n, id), ~force \/ id[1] \in membership[b]
        PROVE  <<b, n, id>> \in withdrawn
    <3>1. id = Id(m, id[1]) /\ copy[m][id[1]].st = "live"
      BY <2>1, <2>2, <2>3 DEF InLibrary, Exists, Id
    <3>2. id[1] \notin rows[alb][m]
      BY <2>1, <3>1 DEF Listing
    <3>3. Missing(obs, alb, m, id[1])
      BY <2>1, <3>1, <3>2 DEF Missing
    <3>4. Clean \/ id[1] \in membership[alb]
      BY <1>1, <2>1, <2>3 DEF Clean
    <3>5. WasTaken(alb, m, id[1])
      BY <2>2, <3>3, <3>4 DEF Edits, Withdrawals, SharedTaken
    <3> QED
      BY <2>1, <3>1, <3>5 DEF WasTaken
  <2> QED
    BY <1>1, <1>3, <2>1, <2>3
<1>9. RemovesExplained'
  <2>1. ASSUME NEW b \in Albums, NEW n \in Members, NEW a \in Assets,
               <<b, n>> \notin visits, TakenOut(b, n, a)
        PROVE  <<b, n>> \notin visits' /\ TakenOut(b, n, a)'
    BY <1>1, <1>3, <2>1 DEF TakenOut, Taken
  <2> QED
    BY <1>1, <1>4, <2>1 DEF Edits, Explained, RemovesExplained
<1> QED
    BY <1>2, <1>5, <1>6, <1>7, <1>8, <1>9 DEF Edits, Ground, Withdrawals, Explained

\* A recorded id that was not listed is looked up: only what is in the library
\* becomes a removal.
LEMMA CheckEdits ==
    ASSUME Typed, Edits, NEW alb \in Albums, NEW m \in Members, NEW id \in Ids,
           CheckMissing(alb, m, id)
    PROVE  Edits'
<1>1. /\ UNCHANGED <<copy, rows, membership, obs, initialized, withdrawn, pc, visits, seen,
                     force, flicker>>
      /\ pc = "observe" /\ <<alb, m, id>> \in checks /\ checks' \subseteq checks
    BY DEF CheckMissing, immich, sqlite, history
<1>2. Blank' /\ RowsExist' /\ SharedTaken'
    BY <1>1, StillTaken DEF Edits, Still, SameCopies, Clean
<1>3. OldIds' /\ ListedTaken'
    BY <1>1 DEF Edits, Ground, OldIds, Withdrawals, ListedTaken, Missing, WasTaken, Id
<1>4. IdleEmpty' /\ VisitsKnown' /\ SeenIsRecorded' /\ WrittenTaken'
    BY <1>1 DEF IdleEmpty, VisitsKnown, SeenIsRecorded, WrittenTaken
<1>5. ChecksExplained'
    BY <1>1 DEF Edits, Explained, ChecksExplained, InLibrary, Exists
<1>6. RemovesExplained'
  <2>1. plan \in Plans /\ id[1] \in Assets
    BY DEF Typed, TypeOK, ProcessTypeOK, Ids
  <2>2. ASSUME NEW b \in Albums, NEW a \in Assets, a \in plan'.removes[b]
        PROVE  \/ a \in plan.removes[b]
               \/ b = alb /\ a = id[1] /\ InLibrary(m, id)
    BY <2>1, <2>2 DEF CheckMissing, Plans
  <2>3. ASSUME InLibrary(m, id)
        PROVE  \/ force /\ id[1] \notin membership[alb]
               \/ <<alb, m>> \notin visits /\ TakenOut(alb, m, id[1])
               \/ <<m, id[1]>> \in flicker
    BY <1>1, <2>3 DEF Edits, Explained, ChecksExplained, TakenOut, Taken
  <2> QED
    BY <1>1, <2>1, <2>2, <2>3 DEF Edits, Explained, RemovesExplained, TakenOut, Taken
<1> QED
    BY <1>2, <1>3, <1>4, <1>5, <1>6 DEF Edits, Ground, Withdrawals, Explained

\* A missing original is looked up.
LEMMA ConfirmEdits ==
    ASSUME Typed, Edits, NEW a \in Assets, ConfirmOrigin(a)
    PROVE  Edits'
<1>1. /\ UNCHANGED <<copy, rows, membership, obs, initialized, withdrawn, pc, visits, seen,
                     checks, force, flicker>>
      /\ pc = "observe"
    BY DEF ConfirmOrigin, AllObserved, immich, sqlite, history
<1>2. plan'.removes = plan.removes
    BY DEF ConfirmOrigin, Typed, TypeOK, ProcessTypeOK, Plans
<1>3. Blank' /\ RowsExist' /\ SharedTaken'
    BY <1>1, StillTaken DEF Edits, Still, SameCopies, Clean
<1>4. OldIds' /\ ListedTaken'
    BY <1>1 DEF Edits, Ground, OldIds, Withdrawals, ListedTaken, Missing, WasTaken, Id
<1>5. IdleEmpty' /\ VisitsKnown' /\ SeenIsRecorded' /\ WrittenTaken'
    BY <1>1 DEF IdleEmpty, VisitsKnown, SeenIsRecorded, WrittenTaken
<1>6. ChecksExplained'
    BY <1>1 DEF Edits, Explained, ChecksExplained, InLibrary, Exists
<1>7. RemovesExplained'
    BY <1>1, <1>2 DEF Edits, Explained, RemovesExplained, TakenOut, Taken
<1> QED
    BY <1>3, <1>4, <1>5, <1>6, <1>7 DEF Edits, Ground, Withdrawals, Explained

\* The decision is saved with what was listed: it records no more than the
\* albums had, and what left them meanwhile was taken out.
LEMMA PersistEdits ==
    ASSUME Typed, Edits, PersistPlans
    PROVE  Edits'
<1>1. /\ UNCHANGED <<copy, rows, visits, seen, checks>>
      /\ pc = "observe" /\ visits = {} /\ checks = {} /\ pc' = "audit"
      /\ obs' = seen /\ membership' = Decision
      /\ withdrawn' = {w \in withdrawn : w[3] \in seen[w[1]][w[2]]}
    BY DEF PersistPlans, AllObserved, Record, Inputs, immich
<1>2. Blank'
    BY DEF PersistPlans, Blank
<1>3. RowsExist' /\ OldIds'
    BY <1>1 DEF Edits, Ground, RowsExist, OldIds
<1>4. IdleEmpty' /\ VisitsKnown' /\ SeenIsRecorded'
    BY <1>1 DEF IdleEmpty, VisitsKnown, SeenIsRecorded
<1>5. SharedTaken'
  <2> SUFFICES ASSUME NEW alb \in Albums, NEW m \in Members, NEW a \in Assets,
                      Missing(seen, alb, m, a)
               PROVE  <<alb, m, Id(m, a)>> \in withdrawn'
    BY <1>1 DEF SharedTaken, Missing, WasTaken, Id
  <2>1. <<alb, m, Id(m, a)>> \in withdrawn
    BY <1>1 DEF Edits, Withdrawals, ListedTaken, WasTaken
  <2> QED
    BY <1>1, <2>1 DEF Missing
<1>6. WrittenTaken' /\ ListedTaken' /\ Explained'
    BY <1>1 DEF WrittenTaken, ListedTaken, Explained, ChecksExplained, RemovesExplained
<1> QED
    BY <1>2, <1>3, <1>4, <1>5, <1>6 DEF Edits, Ground, Withdrawals

-----------------------------------------------------------------------------
(* Writes. *)

\* Additions are recorded as seen in the same step, or the cycle ends.
LEMMA AddEdits ==
    ASSUME Typed, Edits, NEW alb \in Albums, NEW m \in Members, AddAssets(alb, m)
    PROVE  Edits'
<1> DEFINE ids   == ToAdd(alb, m)
           added == {id \in ids : Exists(m, id[1], id[2])}
<1>1. /\ UNCHANGED <<copy, membership, obs, initialized, withdrawn>>
      /\ pc = "apply" /\ Turn(<<alb, m>>)
      /\ rows' = [rows EXCEPT ![alb][m] = @ \cup AssetsOf(added)]
    BY DEF AddAssets, sqlite
<1>2. \/ /\ added = ids /\ pc' = "write"
         /\ seen' = [seen EXCEPT ![alb][m] = @ \cup ids]
         /\ UNCHANGED <<visits, checks, plan>>
      \/ EndCycle /\ force' = TRUE
    BY DEF AddAssets, Abort, Written
<1>3. \A b \in Albums, n \in Members :
          rows'[b][n] = IF b = alb /\ n = m THEN rows[alb][m] \cup AssetsOf(added)
                                            ELSE rows[b][n]
    BY <1>1, Shape
<1>4. \A a \in AssetsOf(added) : a \in Assets /\ copy[m][a].st # "none"
  <2>1. \A id \in ids : id[1] \in Assets
    BY Shape DEF ToAdd
  <2> HIDE DEF ids
  <2> QED
    BY <2>1 DEF AssetsOf, Exists
<1>5. Blank' /\ RowsExist' /\ SharedTaken'
  <2>1. Blank'
    BY <1>1 DEF Edits, Ground, Blank
  <2>2. RowsExist'
    BY <1>1, <1>3, <1>4 DEF Edits, Ground, RowsExist
  <2>3. SharedTaken'
    <3>1. ~Clean'
      BY <1>2 DEF EndCycle, Clean
    <3> QED
      BY <1>1, <1>3, <3>1 DEF Edits, Withdrawals, SharedTaken, Missing, WasTaken, Id
  <2> QED
    BY <2>1, <2>2, <2>3
<1>6. CASE EndCycle
    BY <1>1, <1>5, <1>6, EndEdits DEF Edits, Ground, SameCopies
<1>7. ASSUME added = ids, pc' = "write", seen' = [seen EXCEPT ![alb][m] = @ \cup ids],
             UNCHANGED <<visits, checks, plan>>
      PROVE  Edits'
  <2>1. \A b \in Albums, n \in Members :
            seen'[b][n] = IF b = alb /\ n = m THEN seen[alb][m] \cup ids ELSE seen[b][n]
    BY <1>7, Shape
  <2>2. seen = obs
    BY <1>1 DEF Edits, Ground, SeenIsRecorded
  <2>3. \A id \in ids : id[1] \in AssetsOf(added) /\ id[2] = copy[m][id[1]].gen
    BY <1>7 DEF AssetsOf, Exists
  <2> HIDE DEF ids, added
  <2>4. OldIds'
    <3> SUFFICES ASSUME NEW b \in Albums, NEW n \in Members,
                        NEW id \in obs[b][n] \cup seen'[b][n]
                 PROVE  id[2] <= copy[n][id[1]].gen
      BY <1>1 DEF OldIds
    <3>1. CASE id \in obs[b][n] \cup seen[b][n]
      BY <3>1 DEF Edits, Ground, OldIds
    <3>2. CASE id \in ids /\ n = m
      BY <1>4, <2>3, <3>2, Shape
    <3> QED
      BY <2>1, <3>1, <3>2
  <2>5. IdleEmpty' /\ ListedTaken' /\ Explained'
    BY <1>7 DEF IdleEmpty, ListedTaken, Explained, ChecksExplained, RemovesExplained
  <2>6. VisitsKnown'
    BY <1>1, <1>7 DEF Edits, Ground, VisitsKnown
  <2>7. SeenIsRecorded'
    <3>1. Turn(<<alb, m>>)'
      BY <1>1, <1>7 DEF Turn, Before
    <3> QED
      BY <1>1, <1>7, <2>1, <2>2, <3>1 DEF SeenIsRecorded
  <2>8. WrittenTaken'
    <3> SUFFICES ASSUME NEW b \in Albums, NEW n \in Members, NEW a \in Assets,
                        Id(n, a) \in seen'[b][n],
                        copy[n][a].st # "none", a \notin rows'[b][n]
                 PROVE  <<b, n, Id(n, a)>> \in withdrawn
      BY <1>1 DEF WrittenTaken, Missing, WasTaken, Id
    <3>1. Id(n, a) \in obs[b][n] /\ a \notin rows[b][n]
      BY <1>3, <2>1, <2>2, <2>3 DEF Id
    <3>2. Clean
      BY <1>1 DEF Clean
    <3> QED
      BY <3>1, <3>2 DEF Edits, Withdrawals, SharedTaken, Missing, WasTaken
  <2> QED
    BY <1>5, <2>4, <2>5, <2>6, <2>7, <2>8 DEF Edits, Ground, Withdrawals
<1> QED
    BY <1>2, <1>6, <1>7

\* Only what is not shared in the album is taken out of it by the bridge.
LEMMA RemoveEdits ==
    ASSUME Typed, Edits, NEW alb \in Albums, NEW m \in Members, NEW id \in seen[alb][m],
           RemoveAsset(alb, m, id)
    PROVE  Edits'
<1>1. /\ UNCHANGED <<copy, membership, obs, initialized, withdrawn>>
      /\ pc = "write" /\ Turn(<<alb, m>>) /\ id[1] \notin membership[alb]
    BY DEF RemoveAsset, ToRemove, sqlite
<1>2. \/ /\ rows' = [rows EXCEPT ![alb][m] = @ \ {id[1]}]
         /\ seen' = [seen EXCEPT ![alb][m] = @ \ {id}]
         /\ UNCHANGED <<pc, visits, checks, plan>>
         /\ id = <<id[1], copy[m][id[1]].gen>>
      \/ EndCycle /\ force' = TRUE /\ rows' = rows
  <2>1. id = <<id[1], id[2]>>
    BY Shape DEF Ids
  <2> QED
    BY <2>1 DEF RemoveAsset, Abort, Exists
<1>3. CASE EndCycle /\ force' = TRUE /\ rows' = rows
    BY <1>1, <1>3, AbortEdits DEF Still, SameCopies, EndCycle, Clean
<1>4. ASSUME rows' = [rows EXCEPT ![alb][m] = @ \ {id[1]}],
             seen' = [seen EXCEPT ![alb][m] = @ \ {id}],
             UNCHANGED <<pc, visits, checks, plan>>,
             id = <<id[1], copy[m][id[1]].gen>>
      PROVE  Edits'
  <2>1. \A b \in Albums, n \in Members :
            /\ rows'[b][n] = IF b = alb /\ n = m THEN rows[alb][m] \ {id[1]} ELSE rows[b][n]
            /\ seen'[b][n] = IF b = alb /\ n = m THEN seen[alb][m] \ {id} ELSE seen[b][n]
    BY <1>4, Shape
  <2>2. Blank' /\ RowsExist' /\ OldIds'
    BY <1>1, <2>1 DEF Edits, Ground, Blank, RowsExist, OldIds
  <2>3. IdleEmpty' /\ VisitsKnown' /\ ListedTaken' /\ Explained'
    BY <1>1, <1>4 DEF Edits, Ground, IdleEmpty, VisitsKnown, ListedTaken, Explained,
                      ChecksExplained, RemovesExplained
  <2>4. SeenIsRecorded'
    <3>1. \A v \in Mirrors : Turn(v)' <=> Turn(v)
      BY <1>4 DEF Turn, Before
    <3> QED
      BY <1>1, <1>4, <2>1, <3>1 DEF Edits, Ground, SeenIsRecorded, Mirrors
  <2>5. SharedTaken'
    BY <1>1, <1>4, <2>1 DEF Edits, Withdrawals, SharedTaken, Clean, Missing, WasTaken, Id
  <2>6. WrittenTaken'
    <3> SUFFICES ASSUME NEW b \in Albums, NEW n \in Members, NEW a \in Assets,
                        Id(n, a) \in seen'[b][n], copy[n][a].st # "none",
                        a \notin rows'[b][n]
                 PROVE  <<b, n, Id(n, a)>> \in withdrawn
      BY <1>1 DEF WrittenTaken, Missing, WasTaken, Id
    <3>1. Id(n, a) \in seen[b][n] /\ a \notin rows[b][n]
      BY <1>4, <2>1 DEF Id
    <3> QED
      BY <1>1, <3>1 DEF Edits, Withdrawals, WrittenTaken, Missing, WasTaken
  <2> QED
    BY <2>2, <2>3, <2>4, <2>5, <2>6 DEF Edits, Ground, Withdrawals
<1> QED
    BY <1>2, <1>3, <1>4

\* The record of a mirror is replaced by what the bridge left there.
LEMMA UpdateEdits ==
    ASSUME Typed, Edits, NEW alb \in Albums, NEW m \in Members, UpdateObservations(alb, m)
    PROVE  Edits'
<1>1. /\ UNCHANGED <<copy, rows, membership, initialized, seen, checks, plan>>
      /\ pc = "write" /\ Turn(<<alb, m>>) /\ pc' = "apply"
      /\ visits' \subseteq visits /\ <<alb, m>> \in visits
      /\ obs' = [obs EXCEPT ![alb][m] = seen[alb][m]]
      /\ withdrawn' = {w \in withdrawn : w[3] \in obs'[w[1]][w[2]]}
    BY DEF UpdateObservations, Record, immich, Turn
<1>2. \A b \in Albums, n \in Members :
          obs'[b][n] = IF b = alb /\ n = m THEN seen[alb][m] ELSE obs[b][n]
    BY <1>1, Shape
<1>3. obs' = seen
  <2>1. ASSUME NEW b \in Albums, NEW n \in Members
        PROVE  obs'[b][n] = seen[b][n]
    <3>1. (b = alb /\ n = m) \/ seen[b][n] = obs[b][n]
      BY <1>1, OneTurn DEF Edits, Ground, SeenIsRecorded, Mirrors
    <3> QED
      BY <1>2, <3>1
  <2>2. obs' \in [Albums -> [Members -> SUBSET Ids]] /\ seen \in [Albums -> [Members -> SUBSET Ids]]
    BY <1>1, Shape
  <2>3. ASSUME NEW b \in Albums
        PROVE  obs'[b] = seen[b]
    BY <2>1, <2>2
  <2> QED
    BY <2>2, <2>3
<1>4. Blank'
    BY <1>1, <1>2 DEF Edits, Ground, Blank, VisitsKnown
<1>5. RowsExist' /\ OldIds'
    BY <1>1, <1>3 DEF Edits, Ground, RowsExist, OldIds
<1>6. IdleEmpty' /\ VisitsKnown' /\ SeenIsRecorded'
    BY <1>1, <1>3 DEF Edits, Ground, IdleEmpty, VisitsKnown, SeenIsRecorded
<1>7. SharedTaken'
  <2> SUFFICES ASSUME NEW b \in Albums, NEW n \in Members, NEW a \in Assets,
                      Id(n, a) \in obs'[b][n],
                      copy[n][a].st # "none", a \notin rows[b][n]
               PROVE  <<b, n, Id(n, a)>> \in withdrawn'
    BY <1>1 DEF SharedTaken, Missing, WasTaken, Id
  <2>1. <<b, n, Id(n, a)>> \in withdrawn
    BY <1>1, <1>3 DEF Edits, Withdrawals, WrittenTaken, Missing, WasTaken
  <2> QED
    BY <1>1, <2>1
<1>8. WrittenTaken' /\ ListedTaken' /\ Explained'
    BY <1>1 DEF WrittenTaken, ListedTaken, Explained, ChecksExplained, RemovesExplained
<1> QED
    BY <1>4, <1>5, <1>6, <1>7, <1>8 DEF Edits, Ground, Withdrawals

\* Cleanup takes a copy out of the library, out of all albums at once.
LEMMA CleanupEdits ==
    ASSUME Typed, Edits, NEW m \in Members, NEW a \in Assets, CleanupReplica(m, a)
    PROVE  Edits'
<1>1. /\ UNCHANGED <<membership, obs, initialized, withdrawn, pc, visits, seen, checks, plan,
                     force, flicker>>
      /\ pc = "post"
    BY DEF CleanupReplica, history
<1>2. \/ UNCHANGED <<copy, rows>>
      \/ /\ copy' = [copy EXCEPT ![m][a].st = "none"]
         /\ rows' = [alb \in Albums |-> [rows[alb] EXCEPT ![m] = @ \ {a}]]
    BY Zenon DEF CleanupReplica, ForgetCopy, DeleteCopy
<1>3. CASE UNCHANGED <<copy, rows>>
    BY <1>1, <1>3, WorkEdits DEF Still, SameCopies, Clean
<1>4. ASSUME copy' = [copy EXCEPT ![m][a].st = "none"],
             rows' = [alb \in Albums |-> [rows[alb] EXCEPT ![m] = @ \ {a}]]
      PROVE  Edits'
  <2>1. copy \in [Members -> [Assets -> Copies]]
    BY DEF Typed, TypeOK, ImmichTypeOK
  <2>2. ASSUME NEW n \in Members, NEW b \in Assets
        PROVE  /\ copy'[n][b].gen = copy[n][b].gen
               /\ copy'[n][b].st # "none" => copy[n][b].st # "none" /\ ~(n = m /\ b = a)
               /\ copy[n][b].st # "none" => copy'[n][b].st # "none" \/ (n = m /\ b = a)
    <3>1. copy'[n][b] = IF n = m /\ b = a THEN [copy[m][a] EXCEPT !.st = "none"] ELSE copy[n][b]
      BY <1>4, <2>1
    <3>2. copy[n][b] \in Copies
      BY <2>1
    <3> QED
      BY <3>1, <3>2 DEF Copies
  <2>3. \A b \in Albums, n \in Members :
            rows'[b][n] = IF n = m THEN rows[b][m] \ {a} ELSE rows[b][n]
    BY <1>4, Shape
  <2>4. Blank' /\ IdleEmpty' /\ VisitsKnown' /\ SeenIsRecorded'
    BY <1>1 DEF Edits, Ground, Blank, IdleEmpty, VisitsKnown, SeenIsRecorded
  <2>5. OldIds'
    <3> SUFFICES ASSUME NEW b \in Albums, NEW n \in Members,
                        NEW id \in obs[b][n] \cup seen[b][n]
                 PROVE  id[2] <= copy'[n][id[1]].gen
      BY <1>1 DEF OldIds
    <3>1. id[1] \in Assets
      BY Shape DEF Ids
    <3> QED
      BY <2>2, <3>1 DEF Edits, Ground, OldIds
  <2>6. RowsExist'
    <3> SUFFICES ASSUME NEW b \in Albums, NEW n \in Members, NEW x \in rows'[b][n]
                 PROVE  copy'[n][x].st # "none"
      BY DEF RowsExist
    <3>1. x \in rows[b][n] /\ ~(n = m /\ x = a)
      BY <2>3
    <3>2. x \in Assets /\ copy[n][x].st # "none"
      BY <3>1, Shape DEF Edits, Ground, RowsExist
    <3> QED
      BY <2>2, <3>1, <3>2
  <2>7. SharedTaken'
    <3> SUFFICES ASSUME NEW b \in Albums, NEW n \in Members, NEW x \in Assets,
                        <<x, copy'[n][x].gen>> \in obs[b][n],
                        copy'[n][x].st # "none", x \notin rows'[b][n]
                 PROVE  <<b, n, <<x, copy'[n][x].gen>> >> \in withdrawn
      BY <1>1 DEF SharedTaken, Missing, WasTaken, Id
    <3>1. /\ copy'[n][x].gen = copy[n][x].gen /\ copy[n][x].st # "none"
          /\ x \notin rows[b][n]
      BY <2>2, <2>3
    <3>2. Clean
      BY <1>1 DEF Clean
    <3> QED
      BY <3>1, <3>2 DEF Edits, Withdrawals, SharedTaken, Missing, WasTaken, Id
  <2>8. WrittenTaken' /\ ListedTaken' /\ Explained'
    BY <1>1 DEF WrittenTaken, ListedTaken, Explained, ChecksExplained, RemovesExplained
  <2> QED
    BY <2>4, <2>5, <2>6, <2>7, <2>8 DEF Edits, Ground, Withdrawals
<1> QED
    BY <1>2, <1>3, <1>4

\* Errors and the end of a cycle.
LEMMA EndsEdits ==
    ASSUME Typed, Edits,
           \/ CycleFault \/ FinishCycle
           \/ \E alb \in Albums, m \in Members : RejectAlbum(alb, m)
    PROVE  Edits'
<1>1. EndCycle /\ UNCHANGED <<copy, rows, membership, obs, initialized, withdrawn>>
    BY DEF CycleFault, FinishCycle, RejectAlbum, Abort, immich, sqlite
<1>2. Clean' => Clean
    BY DEF CycleFault, FinishCycle, RejectAlbum, Abort, EndCycle, Clean
<1> QED
    BY <1>1, <1>2, AbortEdits DEF Still, SameCopies

-----------------------------------------------------------------------------

\* Edits holds at the start: every album shows what is recorded of it.
LEMMA InitEdits == Init => Edits
<1> SUFFICES ASSUME Init PROVE Edits
    OBVIOUS
<1>1. /\ pc = "idle" /\ plan = EmptyPlan /\ checks = {} /\ seen = NothingSeen
      /\ rows = [alb \in Albums |-> [m \in Members |-> InitShared[alb]]]
      /\ obs = [alb \in Albums |-> [m \in Members |-> InitShared[alb] \X {1}]]
      /\ initialized = [alb \in Albums |-> InitShared[alb] # {}]
    BY DEF Init
<1>2. ASSUME NEW alb \in Albums, NEW m \in Members, NEW a \in InitShared[alb]
      PROVE  copy[m][a].gen = 1 /\ copy[m][a].st = "live"
  <2>1. a \in Assets /\ Settled(m, a)
    BY MembershipAssumption DEF Settled
  <2> QED
    BY <2>1 DEF Init
<1>3. Ground
  <2>1. IdleEmpty /\ Blank /\ VisitsKnown /\ SeenIsRecorded
    BY <1>1 DEF IdleEmpty, Blank, VisitsKnown, SeenIsRecorded
  <2>2. OldIds
    BY <1>1, <1>2 DEF OldIds, NothingSeen
  <2>3. RowsExist
    BY <1>1, <1>2 DEF RowsExist
  <2> QED
    BY <2>1, <2>2, <2>3 DEF Ground
<1>4. Withdrawals /\ Explained
    BY <1>1 DEF Withdrawals, SharedTaken, WrittenTaken, ListedTaken, Missing, Id, Explained,
                ChecksExplained, RemovesExplained
<1> QED
    BY <1>3, <1>4 DEF Edits

\* Edits is inductive: one case per operation.
LEMMA NextEdits ==
    ASSUME Typed, Edits, [Next]_vars
    PROVE  Edits'
<1>1. ASSUME NEW alb \in Albums, NEW m \in Members, NEW a \in Assets, UserStep(alb, m, a)
      PROVE  Edits'
    BY <1>1, UserGround, UserTaken, UserExplained DEF Edits
<1>2. CASE User \/ Scan
  <2>1. Together \in Albums
    BY MembershipAssumption
  <2> QED
    BY <1>1, <1>2, <2>1 DEF User, Scan, UserStep
<1>3. CASE StartRun \/ StartWork
    BY <1>3, PhaseEdits
<1>4. CASE CycleFault
    BY <1>4, EndsEdits
<1>5. CASE Observe
  <2>1. ASSUME NEW c \in checks, CheckMissing(c[1], c[2], c[3])
        PROVE  Edits'
    BY <2>1, CheckEdits, Shape
  <2> QED
    BY <1>5, <2>1, ListEdits, EndsEdits, ConfirmEdits, PersistEdits DEF Observe
<1>6. CASE Apply
  <2>1. Together \in Albums
    BY MembershipAssumption
  <2> QED
    BY <1>6, <2>1, PrepareEdits, PhaseEdits, AddEdits, RemoveEdits, UpdateEdits DEF Apply
<1>7. CASE Post
    BY <1>7, CleanupEdits, EndsEdits DEF Post
<1>8. CASE UNCHANGED vars
  <2>1. UNCHANGED <<copy, rows, membership, obs, initialized, withdrawn, flicker, pc, visits,
                    seen, checks, plan, force>>
    BY <1>8 DEF vars, immich, sqlite, process, history
  <2>2. Ground'
    BY <2>1 DEF Edits, Ground, IdleEmpty, Blank, VisitsKnown, SeenIsRecorded, Turn, Before,
                OldIds, RowsExist
  <2>3. Withdrawals'
    BY <2>1 DEF Edits, Withdrawals, SharedTaken, Clean, WrittenTaken, ListedTaken, Missing,
                WasTaken, Id
  <2>4. ChecksExplained'
    BY <2>1 DEF Edits, Explained, ChecksExplained, InLibrary, Exists
  <2>5. RemovesExplained'
    BY <2>1 DEF Edits, Explained, RemovesExplained, TakenOut, Taken
  <2> QED
    BY <2>2, <2>3, <2>4, <2>5 DEF Edits, Explained
<1> QED
    BY <1>1, <1>2, <1>3, <1>4, <1>5, <1>6, <1>7, <1>8 DEF Next, Cycle

\* A removal that was decided is one that users, owners or a restoration asked for.
LEMMA PersistIntended ==
    ASSUME Edits, SharingConsistent, OwnerDeletedUnshared, PersistPlans,
           NEW alb \in Albums, NEW a \in membership[alb], a \in Assets, a \notin membership'[alb]
    PROVE  \/ \E m \in Members : TakenOut(alb, m, a) \/ TakenOut(Together, m, a)
           \/ a \in plan.gone
           \/ \E m \in Members : <<m, a>> \in flicker
<1>1. pc = "observe" /\ membership'[alb] = Resolved[alb] \ Deleted
    BY DEF PersistPlans, AllObserved, Decision
<1>2. Together \in Albums /\ a \in membership[Together]
    BY MembershipAssumption DEF SharingConsistent
<1>3. CASE a \in Deleted
    BY <1>3 DEF Deleted, OwnerDeletedUnshared
<1>4. CASE a \notin Resolved[alb]
  <2>1. a \in plan.removes[alb] \/ a \in plan.removes[Together]
    BY <1>2, <1>4 DEF Resolved, Observed, Overruled
  <2> QED
    BY <1>1, <1>2, <2>1 DEF Edits, Explained, RemovesExplained
<1> QED
    BY <1>1, <1>3, <1>4

\* An asset leaves an album only at a user's request: a removal from that
\* album or from Together that the listing shows, the loss of the original, or
\* a restoration from trash during the observation. Trashed and deleted copies,
\* the bridge's own writes and whatever a crash left undone never unshare an
\* asset (observeAlbum, resolveTogether, persistPlans).
THEOREM UnsharedByIntent == Spec => UnshareByIntentOrRestore
<1>1. Typed /\ Edits /\ SharingConsistent /\ OwnerDeletedUnshared /\ [Next]_vars =>
          [\A alb \in Albums : \A a \in membership[alb] \ membership'[alb] :
              \/ \E m \in Members : TakenOut(alb, m, a) \/ TakenOut(Together, m, a)
              \/ a \in plan.gone
              \/ \E m \in Members : <<m, a>> \in flicker]_vars
  <2> SUFFICES ASSUME Typed, Edits, SharingConsistent, OwnerDeletedUnshared, [Next]_vars,
                      NEW alb \in Albums, NEW a \in membership[alb], a \notin membership'[alb]
               PROVE  \/ \E m \in Members : TakenOut(alb, m, a) \/ TakenOut(Together, m, a)
                      \/ a \in plan.gone
                      \/ \E m \in Members : <<m, a>> \in flicker
    OBVIOUS
  <2>1. PersistPlans
    BY OnlyPersistDecides
  <2>2. a \in Assets
    BY Shape
  <2> QED
    BY <2>1, <2>2, PersistIntended
<1>2. Init => Typed /\ Edits
    BY InitTyped, InitEdits
<1>3. Typed /\ Edits /\ [Next]_vars => Typed' /\ Edits'
    BY NextTyped, NextEdits
<1>4. Spec => []SharingConsistent /\ []OwnerDeletedUnshared
    BY SharingIsConsistent, OwnerDeletionUnshares
<1> QED
    BY <1>1, <1>2, <1>3, <1>4, PTL DEF Spec, UnshareByIntentOrRestore

-----------------------------------------------------------------------------
(* Additions, as long as nobody uses the trash. A restored copy is back in  *)
(* its albums although nobody put it there.                                 *)

\* The album shows a visible copy that is not recorded.
Extra(s, alb, m, a) ==
    a \in rows[alb][m] /\ copy[m][a].st = "live" /\ Id(m, a) \notin s[alb][m]
WasOffered(alb, m, a) == <<alb, m, Id(m, a)>> \in offered

NoTrash == \A m \in Members, a \in Assets : copy[m][a].st # "trashed"

\* An unrecorded asset was put in the album by a user, or is one that the
\* bridge wrote, and then it is shared there.
SharedAdded ==
    \A alb \in Albums, m \in Members, a \in Assets :
        Extra(obs, alb, m, a) => WasOffered(alb, m, a) \/ (~Clean /\ a \in membership[alb])

\* During the writes of a mirror: beyond what the bridge will record of it.
WrittenAdded ==
    pc = "write" => \A alb \in Albums, m \in Members, a \in Assets :
        Extra(seen, alb, m, a) => WasOffered(alb, m, a)

\* After a mirror was listed whatever joins it was put there by a user.
ListedAdded ==
    pc = "observe" => \A alb \in Albums, m \in Members, a \in Assets :
        <<alb, m>> \notin visits /\ Extra(seen, alb, m, a) => WasOffered(alb, m, a)

\* So was every addition of the plan, but for unrecorded writes.
AddsExplained ==
    pc = "observe" => \A alb \in Albums, a \in Assets :
        a \in plan.adds[alb] =>
            \/ force /\ a \in membership[alb]
            \/ \E m \in Members : <<alb, m>> \notin visits /\ PutIn(alb, m, a)

Additions == NoTrash /\ SharedAdded /\ WrittenAdded /\ ListedAdded /\ AddsExplained

\* The trash does not become unused.
LEMMA TrashGrows ==
    ASSUME Typed, [Next]_vars, TrashUnused'
    PROVE  TrashUnused
<1>1. spent \in Budget /\ spent.trash \in Nat
    BY MembershipAssumption DEF Typed, TypeOK, HistoryTypeOK, Budget
<1>2. ASSUME \/ spent' = spent
             \/ spent' = [spent EXCEPT !.edits = @ + 1]
             \/ spent' = [spent EXCEPT !.trash = @ + 1]
             \/ spent' = [spent EXCEPT !.faults = @ + 1]
      PROVE  TrashUnused
    BY <1>1, <1>2 DEF TrashUnused, Budget
<1>3. CASE User
    BY <1>2, <1>3 DEF User, UserAdd, UserRemove, UserTrash, UserRestore, UserDelete, Edit, TrashEdit
<1>4. CASE Scan \/ StartRun \/ StartWork \/ CycleFault \/ UNCHANGED vars
    BY <1>2, <1>4 DEF Scan, Import, StartRun, StartWork, CycleFault, Fault, vars
<1>5. CASE Observe
    BY <1>2, <1>5 DEF Observe, ListAlbum, RejectAlbum, CheckMissing, ConfirmOrigin, PersistPlans
<1>6. CASE Apply
  <2>1. ASSUME NEW alb \in Albums, NEW m \in Members, NEW a \in Assets,
               Audit(m, a) \/ Prepare(alb, m, a) \/ LookUp(alb, m, a)
        PROVE  TrashUnused
    BY <1>2, <2>1 DEF Audit, Prepare, LookUp, Fault
  <2>2. Together \in Albums
    BY MembershipAssumption
  <2>3. CASE AuditDone \/ ApplyDone
    BY <1>2, <2>3 DEF AuditDone, ApplyDone
  <2>4. ASSUME NEW alb \in Albums, NEW m \in Members,
               \/ AddAssets(alb, m) \/ UpdateObservations(alb, m)
               \/ \E id \in seen[alb][m] : RemoveAsset(alb, m, id)
        PROVE  TrashUnused
    BY <1>2, <2>4 DEF AddAssets, UpdateObservations, RemoveAsset
  <2> QED
    BY <1>6, <2>1, <2>2, <2>3, <2>4 DEF Apply
<1>7. CASE Post
  <2>1. ASSUME NEW m \in Members, NEW a \in Assets, CleanupReplica(m, a)
        PROVE  spent' = spent \/ Fault
    BY <2>1, Zenon DEF CleanupReplica
  <2>2. CASE FinishCycle
    BY <1>2, <2>2 DEF FinishCycle
  <2> QED
    BY <1>2, <1>7, <2>1, <2>2 DEF Post, Fault
<1> QED
    BY <1>3, <1>4, <1>5, <1>6, <1>7 DEF Next, Cycle

\* A copy that is new in an album, or visible again, was put there.
LEMMA UserAdds ==
    ASSUME Typed, RowsExist, NoTrash,
           NEW alb \in Albums, NEW m \in Members, NEW a \in Assets, UserStep(alb, m, a),
           NEW b \in Albums, NEW n \in Members, NEW x \in Assets,
           x \in rows'[b][n], copy'[n][x].st = "live"
    PROVE  /\ copy'[n][x].gen = copy[n][x].gen
           /\ \/ /\ x \in rows[b][n] /\ copy[n][x].st = "live"
                 /\ <<b, n, Id(n, x)>> \in offered => <<b, n, Id(n, x)>> \in offered'
              \/ <<b, n, Id(n, x)>> \in offered'
<1>1. /\ rows \in [Albums -> [Members -> SUBSET Assets]]
      /\ copy \in [Members -> [Assets -> Copies]]
    BY DEF Typed, TypeOK, ImmichTypeOK
<1>2. x \in rows[b][n] => copy[n][x].st = "live"
  <2>1. copy[n][x].st \in {"none", "live", "trashed"}
    BY Shape
  <2> QED
    BY <2>1 DEF RowsExist, NoTrash
<1>3. CASE UserAdd(alb, m, a)
  <2>1. /\ rows' = [rows EXCEPT ![alb][m] = @ \cup {a}] /\ copy' = copy
        /\ offered' = offered \cup {<<alb, m, Id(m, a)>>}
    BY <1>3 DEF UserAdd, Edit
  <2>2. rows'[b][n] = IF b = alb /\ n = m THEN rows[alb][m] \cup {a} ELSE rows[b][n]
    BY <1>1, <2>1
  <2> QED
    BY <1>2, <2>1, <2>2
<1>4. CASE UserRemove(alb, m, a)
  <2>1. /\ rows' = [rows EXCEPT ![alb][m] = @ \ {a}] /\ copy' = copy
        /\ offered' = offered \/ offered' = offered \ {<<alb, m, Id(m, a)>>}
    BY <1>4 DEF UserRemove, Edit
  <2>2. rows'[b][n] = IF b = alb /\ n = m THEN rows[alb][m] \ {a} ELSE rows[b][n]
    BY <1>1, <2>1
  <2>3. <<b, n, Id(n, x)>> # <<alb, m, Id(m, a)>>
    BY <2>2 DEF Id
  <2> QED
    BY <1>2, <2>1, <2>2, <2>3
<1>5. CASE UserTrash(m, a) \/ UserRestore(m, a) \/ UserDelete(m, a)
  <2>1. PICK st \in {"none", "live", "trashed"} : copy' = [copy EXCEPT ![m][a].st = st]
    BY <1>5 DEF UserTrash, UserRestore, UserDelete
  <2>2. copy[n][x] \in Copies
    BY <1>1
  <2>3. copy'[n][x].gen = copy[n][x].gen
    BY <1>1, <2>1, <2>2 DEF Copies
  <2>4. x \in rows[b][n] /\ offered \subseteq offered'
    BY <1>1, <1>5 DEF UserTrash, UserRestore, UserDelete
  <2> QED
    BY <1>2, <2>3, <2>4
<1>6. CASE Import(m, a)
  <2>1. /\ copy[m][a].st = "none" /\ rows' = rows /\ offered' = offered
        /\ copy' = [copy EXCEPT ![m][a] = [gen |-> copy[m][a].gen + 1, st |-> "live"]]
    BY <1>6 DEF Import, history
  <2>2. ~(n = m /\ x = a)
    BY <1>2, <2>1
  <2>3. copy'[n][x] = copy[n][x]
    BY <1>1, <2>1, <2>2
  <2> QED
    BY <1>2, <2>1, <2>3
<1> QED
    BY <1>3, <1>4, <1>5, <1>6 DEF UserStep

\* Users, while the trash is out of use.
LEMMA UserAdditions ==
    ASSUME Typed, Edits, Additions, TrashUnused, TrashUnused',
           NEW alb \in Albums, NEW m \in Members, NEW a \in Assets, UserStep(alb, m, a)
    PROVE  Additions'
<1>1. UNCHANGED <<membership, obs, pc, visits, seen, plan, force>>
    BY UserEffect DEF sqlite, process
<1>2. ~UserTrash(m, a) /\ ~UserRestore(m, a) /\ ~UserDelete(m, a)
  <2>1. spent \in Budget /\ spent.trash = 0 /\ spent'.trash = 0
    BY DEF Typed, TypeOK, HistoryTypeOK, TrashUnused
  <2>2. spent' # [spent EXCEPT !.trash = @ + 1]
    BY <2>1 DEF Budget
  <2> QED
    BY <2>2 DEF UserTrash, UserRestore, UserDelete, TrashEdit
<1>3. NoTrash'
  <2>1. copy \in [Members -> [Assets -> Copies]]
    BY DEF Typed, TypeOK, ImmichTypeOK
  <2>2. \/ copy' = copy
        \/ copy' = [copy EXCEPT ![m][a] = [gen |-> copy[m][a].gen + 1, st |-> "live"]]
    BY <1>2 DEF UserStep, UserAdd, UserRemove, Import, Edit
  <2> QED
    BY <2>1, <2>2 DEF Additions, NoTrash
<1>4. ASSUME NEW b \in Albums, NEW n \in Members, NEW x \in Assets,
             x \in rows'[b][n], copy'[n][x].st = "live"
      PROVE  /\ copy'[n][x].gen = copy[n][x].gen
             /\ \/ /\ x \in rows[b][n] /\ copy[n][x].st = "live"
                   /\ <<b, n, Id(n, x)>> \in offered => <<b, n, Id(n, x)>> \in offered'
                \/ <<b, n, Id(n, x)>> \in offered'
    BY <1>4, UserAdds DEF Edits, Ground, Additions
<1>5. SharedAdded'
  <2> SUFFICES ASSUME NEW b \in Albums, NEW n \in Members, NEW x \in Assets,
                      x \in rows'[b][n], copy'[n][x].st = "live",
                      <<x, copy'[n][x].gen>> \notin obs[b][n]
               PROVE  \/ <<b, n, <<x, copy'[n][x].gen>> >> \in offered'
                      \/ ~Clean /\ x \in membership[b]
    BY <1>1 DEF SharedAdded, Clean, Extra, WasOffered, Id
  <2> QED
    BY <1>4 DEF Additions, SharedAdded, Extra, WasOffered, Id
<1>6. WrittenAdded'
    BY <1>1, <1>4 DEF Additions, WrittenAdded, Extra, WasOffered, Id
<1>7. ListedAdded'
    BY <1>1, <1>4 DEF Additions, ListedAdded, Extra, WasOffered, Id
<1>8. AddsExplained'
  <2> SUFFICES ASSUME pc = "observe"
               PROVE  AddsExplained'
    BY <1>1 DEF AddsExplained
  <2>1. ASSUME NEW b \in Albums, NEW n \in Members, <<b, n>> \notin visits,
               NEW id \in seen[b][n], <<b, n, id>> \in offered
        PROVE  <<b, n, id>> \in offered'
    <3>1. CASE UserRemove(alb, m, a)
      <4>1. ListedWith(alb, m, Id(m, a)) \/ <<b, n, id>> # <<alb, m, Id(m, a)>>
        BY <2>1 DEF ListedWith
      <4> QED
        BY <2>1, <3>1, <4>1 DEF UserRemove
    <3>2. CASE UserAdd(alb, m, a) \/ Import(m, a)
      BY <2>1, <3>2 DEF UserAdd, Import, history
    <3> QED
      BY <1>2, <3>1, <3>2 DEF UserStep
  <2>2. ASSUME NEW b \in Albums, NEW n \in Members, <<b, n>> \notin visits,
               NEW x \in Assets, PutIn(b, n, x)
        PROVE  PutIn(b, n, x)'
    BY <1>1, <2>1, <2>2 DEF PutIn
  <2> QED
    BY <1>1, <2>2 DEF Additions, AddsExplained
<1> QED
    BY <1>3, <1>5, <1>6, <1>7, <1>8 DEF Additions

\* No copy changes.
SameLive ==
    \A m \in Members, a \in Assets :
        copy'[m][a].gen = copy[m][a].gen /\ copy'[m][a].st = copy[m][a].st

\* Without trash there is nothing to restore.
LEMMA EnsureLive ==
    ASSUME Typed, NoTrash, NEW m \in Members, NEW a \in Assets,
           EnsureReplica(m, a) \/ EnsureError(m, a)
    PROVE  SameLive
<1>1. copy \in [Members -> [Assets -> Copies]]
    BY DEF Typed, TypeOK, ImmichTypeOK
<1>2. \/ copy' = copy
      \/ copy' = [copy EXCEPT ![m][a].st = "live"] /\ copy[m][a].st # "none"
    BY DEF EnsureReplica, EnsureError, Exists
<1>3. CASE copy' = copy
    BY <1>3 DEF SameLive
<1>4. CASE copy' = [copy EXCEPT ![m][a].st = "live"] /\ copy[m][a].st # "none"
  <2> SUFFICES ASSUME NEW n \in Members, NEW b \in Assets
               PROVE  copy'[n][b].gen = copy[n][b].gen /\ copy'[n][b].st = copy[n][b].st
    BY DEF SameLive
  <2>1. copy[n][b] \in Copies /\ copy[m][a].st = "live"
    BY <1>1, <1>4, Shape DEF NoTrash
  <2>2. copy'[n][b] = IF n = m /\ b = a THEN [copy[m][a] EXCEPT !.st = "live"] ELSE copy[n][b]
    BY <1>1, <1>4
  <2> QED
    BY <2>1, <2>2 DEF Copies
<1> QED
    BY <1>2, <1>3, <1>4

\* Steps that change neither copies nor albums nor their records.
LEMMA QuietAdditions ==
    ASSUME Additions, SameLive, UNCHANGED <<rows, membership, obs, offered>>,
           Clean' => Clean, pc' # "write",
           \/ pc' # "observe"
           \/ pc = "observe" /\ UNCHANGED <<visits, seen, force>> /\ plan'.adds = plan.adds
    PROVE  Additions'
<1>1. NoTrash'
    BY DEF SameLive, Additions, NoTrash
<1>2. SharedAdded'
    BY DEF SameLive, Additions, SharedAdded, Extra, WasOffered, Id
<1>3. WrittenAdded'
    BY DEF WrittenAdded
<1>4. ListedAdded'
    BY DEF SameLive, Additions, ListedAdded, Extra, WasOffered, Id
<1>5. AddsExplained'
  <2> SUFFICES ASSUME pc = "observe", pc' = "observe"
               PROVE  AddsExplained'
    BY DEF AddsExplained
  <2>1. ASSUME NEW b \in Albums, NEW n \in Members, NEW x \in Assets, PutIn(b, n, x)
        PROVE  PutIn(b, n, x)'
    BY <2>1 DEF PutIn
  <2> QED
    BY <2>1 DEF Additions, AddsExplained
<1> QED
    BY <1>1, <1>2, <1>3, <1>4, <1>5 DEF Additions

\* Everything the bridge does but listing, saving, writing and deleting.
LEMMA OtherAdditions ==
    ASSUME Typed, Edits, Additions,
           \/ StartRun \/ StartWork \/ AuditDone \/ ApplyDone \/ FinishCycle \/ CycleFault
           \/ \E m \in Members, a \in Assets :
                 Audit(m, a) \/ \E alb \in Albums : Prepare(alb, m, a) \/ LookUp(alb, m, a)
           \/ \E alb \in Albums, m \in Members : RejectAlbum(alb, m)
           \/ \E a \in Assets : ConfirmOrigin(a)
           \/ \E c \in checks : CheckMissing(c[1], c[2], c[3])
    PROVE  Additions'
<1>1. CASE StartRun
  <2>1. /\ UNCHANGED <<copy, rows, membership, obs, offered, seen>>
        /\ pc' = "observe" /\ visits' = Mirrors /\ plan' = EmptyPlan /\ (Clean' => Clean)
    BY <1>1 DEF StartRun, immich, sqlite, history, Edits, Ground, IdleEmpty, Clean
  <2>2. NoTrash' /\ WrittenAdded'
    BY <2>1 DEF Additions, NoTrash, WrittenAdded
  <2>3. SharedAdded'
    BY <2>1 DEF Additions, SharedAdded, Extra, WasOffered, Id
  <2>4. ListedAdded' /\ AddsExplained'
    BY <2>1 DEF ListedAdded, AddsExplained, Mirrors, EmptyPlan
  <2> QED
    BY <2>2, <2>3, <2>4 DEF Additions
<1>2. CASE StartWork \/ AuditDone \/ ApplyDone \/ FinishCycle \/ CycleFault
  <2>1. /\ UNCHANGED <<copy, rows, membership, obs, offered>>
        /\ pc' \in {"idle", "audit", "apply", "post"} /\ (Clean' => Clean)
    BY <1>2 DEF StartWork, AuditDone, ApplyDone, FinishCycle, CycleFault, Abort, EndCycle,
                immich, sqlite, history, Clean
  <2> QED
    BY <2>1, QuietAdditions DEF SameLive
<1>3. ASSUME NEW alb \in Albums, NEW m \in Members, NEW a \in Assets,
             Audit(m, a) \/ Prepare(alb, m, a) \/ LookUp(alb, m, a)
      PROVE  Additions'
  <2>1. /\ UNCHANGED <<rows, membership, obs, offered, pc, force>>
        /\ pc \in {"audit", "apply"}
    BY <1>3 DEF Audit, Prepare, LookUp, immich, history
  <2>2. SameLive
    <3>1. CASE Audit(m, a) \/ Prepare(alb, m, a)
      BY <3>1, EnsureLive DEF Audit, Prepare, Additions
    <3>2. CASE LookUp(alb, m, a)
      BY <3>2 DEF LookUp, immich, SameLive
    <3> QED
      BY <1>3, <3>1, <3>2
  <2> QED
    BY <2>1, <2>2, QuietAdditions DEF Clean
<1>4. ASSUME NEW alb \in Albums, NEW m \in Members, RejectAlbum(alb, m)
      PROVE  Additions'
  <2>1. /\ UNCHANGED <<copy, rows, membership, obs, offered>>
        /\ pc' = "idle" /\ (Clean' => Clean)
    BY <1>4 DEF RejectAlbum, Abort, EndCycle, immich, Clean
  <2> QED
    BY <2>1, QuietAdditions DEF SameLive
<1>5. ASSUME NEW c \in checks, CheckMissing(c[1], c[2], c[3])
      PROVE  Additions'
  <2>1. /\ UNCHANGED <<copy, rows, membership, obs, offered, pc, force, visits, seen>>
        /\ pc = "observe"
    BY <1>5 DEF CheckMissing, immich, sqlite, history
  <2>2. plan'.adds = plan.adds
    BY <1>5 DEF CheckMissing, Typed, TypeOK, ProcessTypeOK, Plans
  <2> QED
    BY <2>1, <2>2, QuietAdditions DEF SameLive, Clean
<1>6. ASSUME NEW a \in Assets, ConfirmOrigin(a)
      PROVE  Additions'
  <2>1. /\ UNCHANGED <<copy, rows, membership, obs, offered, pc, force, visits, seen>>
        /\ pc = "observe"
    BY <1>6 DEF ConfirmOrigin, AllObserved, immich, sqlite, history
  <2>2. plan'.adds = plan.adds
    BY <1>6 DEF ConfirmOrigin, Typed, TypeOK, ProcessTypeOK, Plans
  <2> QED
    BY <2>1, <2>2, QuietAdditions DEF SameLive, Clean
<1>7. ASSUME NEW m \in Members, NEW a \in Assets,
             Audit(m, a) \/ \E alb \in Albums : Prepare(alb, m, a) \/ LookUp(alb, m, a)
      PROVE  Additions'
  <2>1. Together \in Albums
    BY MembershipAssumption
  <2> QED
    BY <1>3, <1>7, <2>1
<1> QED
    BY <1>1, <1>2, <1>4, <1>5, <1>6, <1>7

\* An addition that a listing finds was offered, or is shared in the album.
LEMMA ListAdditions ==
    ASSUME Typed, Edits, Additions, NEW alb \in Albums, NEW m \in Members, ListAlbum(alb, m)
    PROVE  Additions'
<1>1. /\ UNCHANGED <<copy, rows, membership, obs, offered, pc, force>>
      /\ pc = "observe" /\ <<alb, m>> \in visits /\ visits' = visits \ {<<alb, m>>}
    BY DEF ListAlbum, immich, history, Turn
<1>2. \A b \in Albums, n \in Members :
          seen'[b][n] = IF b = alb /\ n = m THEN Listing(alb, m) ELSE seen[b][n]
    BY Shape DEF ListAlbum
<1>3. \A b \in Albums :
          plan'.adds[b] = IF b = alb THEN plan.adds[alb] \cup AssetsOf(Added(alb, m))
                                     ELSE plan.adds[b]
  <2>1. plan \in Plans /\ plan' = [plan EXCEPT !.adds[alb] = @ \cup AssetsOf(Added(alb, m))]
    BY DEF ListAlbum, Typed, TypeOK, ProcessTypeOK
  <2>2. plan'.adds = [plan.adds EXCEPT ![alb] = @ \cup AssetsOf(Added(alb, m))]
    BY <2>1 DEF Plans
  <2>3. plan.adds \in [Albums -> SUBSET Assets]
    BY <2>1 DEF Plans
  <2> QED
    BY <2>2, <2>3
<1>4. NoTrash' /\ SharedAdded' /\ WrittenAdded'
    BY <1>1 DEF Additions, NoTrash, SharedAdded, WrittenAdded, Clean, Extra, WasOffered, Id
<1>5. ListedAdded'
  <2> SUFFICES ASSUME NEW b \in Albums, NEW n \in Members, NEW x \in Assets,
                      <<b, n>> \notin visits', x \in rows[b][n], copy[n][x].st = "live",
                      Id(n, x) \notin seen'[b][n]
               PROVE  <<b, n, Id(n, x)>> \in offered
    BY <1>1 DEF ListedAdded, Extra, WasOffered, Id
  <2>1. CASE b = alb /\ n = m
    BY <1>2, <2>1 DEF Listing
  <2>2. CASE ~(b = alb /\ n = m)
    BY <1>1, <1>2, <2>2 DEF Additions, ListedAdded, Extra, WasOffered
  <2> QED
    BY <2>1, <2>2
<1>6. AddsExplained'
  <2> SUFFICES ASSUME NEW b \in Albums, NEW x \in Assets, x \in plan'.adds[b]
               PROVE  \/ force /\ x \in membership[b]
                      \/ \E n \in Members : <<b, n>> \notin visits' /\ PutIn(b, n, x)'
    BY <1>1 DEF AddsExplained
  <2>1. CASE x \in plan.adds[b]
    <3>1. \/ force /\ x \in membership[b]
          \/ \E n \in Members : <<b, n>> \notin visits /\ PutIn(b, n, x)
      BY <1>1, <2>1 DEF Additions, AddsExplained
    <3>2. ASSUME NEW n \in Members, <<b, n>> \notin visits, PutIn(b, n, x)
          PROVE  <<b, n>> \notin visits' /\ PutIn(b, n, x)'
      <4>1. <<b, n>> \notin visits' /\ seen'[b][n] = seen[b][n]
        BY <1>1, <1>2, <3>2
      <4> QED
        BY <1>1, <3>2, <4>1 DEF PutIn
    <3> QED
      BY <3>1, <3>2
  <2>2. CASE b = alb /\ x \in AssetsOf(Added(alb, m))
    <3>1. PICK id \in Added(alb, m) : id[1] = x
      BY <2>2 DEF AssetsOf
    <3>2. id \in Listing(alb, m) /\ id \notin obs[alb][m]
      BY <3>1 DEF Added, Edits, Ground, Blank
    <3>3. x \in rows[alb][m] /\ copy[m][x].st = "live" /\ id = Id(m, x)
      BY <3>1, <3>2 DEF Listing, Id
    <3>4. <<alb, m, id>> \in offered \/ (force /\ x \in membership[alb])
      BY <1>1, <3>2, <3>3 DEF Additions, SharedAdded, Extra, WasOffered, Clean
    <3>5. <<alb, m, id>> \in offered => PutIn(alb, m, x)'
      BY <1>1, <1>2, <3>1, <3>2 DEF PutIn
    <3>6. <<alb, m>> \notin visits'
      BY <1>1
    <3> QED
      BY <2>2, <3>4, <3>5, <3>6
  <2> QED
    BY <1>3, <2>1, <2>2
<1> QED
    BY <1>4, <1>5, <1>6 DEF Additions

\* What joins an album during the observation is not taken for recorded.
LEMMA PersistAdditions ==
    ASSUME Typed, Additions, PersistPlans
    PROVE  Additions'
<1>1. /\ UNCHANGED <<copy, rows>>
      /\ pc = "observe" /\ visits = {} /\ pc' = "audit" /\ obs' = seen
      /\ offered' = {o \in offered : o[3] \notin seen[o[1]][o[2]]}
    BY DEF PersistPlans, AllObserved, Record, Inputs, immich
<1>2. SharedAdded'
  <2> SUFFICES ASSUME NEW alb \in Albums, NEW m \in Members, NEW a \in Assets,
                      Extra(seen, alb, m, a)
               PROVE  <<alb, m, Id(m, a)>> \in offered'
    BY <1>1 DEF SharedAdded, Extra, WasOffered, Id
  <2>1. <<alb, m, Id(m, a)>> \in offered
    BY <1>1 DEF Additions, ListedAdded, WasOffered
  <2> QED
    BY <1>1, <2>1 DEF Extra
<1>3. NoTrash' /\ WrittenAdded' /\ ListedAdded' /\ AddsExplained'
    BY <1>1 DEF Additions, NoTrash, WrittenAdded, ListedAdded, AddsExplained
<1> QED
    BY <1>2, <1>3 DEF Additions

\* The bridge adds what is shared, and records it or loses track of it.
LEMMA AddAdditions ==
    ASSUME Typed, Edits, Additions, NEW alb \in Albums, NEW m \in Members, AddAssets(alb, m)
    PROVE  Additions'
<1> DEFINE ids   == ToAdd(alb, m)
           added == {id \in ids : Exists(m, id[1], id[2])}
<1>1. /\ UNCHANGED <<copy, membership, obs, offered>>
      /\ pc = "apply" /\ rows' = [rows EXCEPT ![alb][m] = @ \cup AssetsOf(added)]
    BY DEF AddAssets, sqlite
<1>2. \/ /\ added = ids /\ pc' = "write"
         /\ seen' = [seen EXCEPT ![alb][m] = @ \cup ids]
      \/ pc' = "idle" /\ force' = TRUE
    BY DEF AddAssets, Abort, EndCycle, Written
<1>3. \A b \in Albums, n \in Members :
          rows'[b][n] = IF b = alb /\ n = m THEN rows[alb][m] \cup AssetsOf(added)
                                            ELSE rows[b][n]
    BY <1>1, Shape
<1>4. \A id \in ids : id[1] \in membership[alb]
    BY DEF ToAdd
<1>5. seen = obs /\ Clean /\ ~Clean'
    BY <1>1, <1>2 DEF Edits, Ground, SeenIsRecorded, Clean
<1> HIDE DEF ids
<1>6. SharedAdded'
  <2> SUFFICES ASSUME NEW b \in Albums, NEW n \in Members, NEW x \in Assets,
                      x \in rows'[b][n], copy[n][x].st = "live", Id(n, x) \notin obs[b][n]
               PROVE  <<b, n, Id(n, x)>> \in offered \/ x \in membership[b]
    BY <1>1, <1>5 DEF SharedAdded, Extra, WasOffered, Id
  <2>1. x \in rows[b][n] \/ x \in membership[b]
    <3>1. AssetsOf(added) \subseteq membership[alb]
      BY <1>4 DEF AssetsOf
    <3> QED
      BY <1>3, <3>1
  <2> QED
    BY <2>1, <1>5 DEF Additions, SharedAdded, Extra, WasOffered
<1>7. WrittenAdded'
  <2> SUFFICES ASSUME pc' = "write", NEW b \in Albums, NEW n \in Members, NEW x \in Assets,
                      x \in rows'[b][n], copy[n][x].st = "live", Id(n, x) \notin seen'[b][n]
               PROVE  <<b, n, Id(n, x)>> \in offered
    BY <1>1 DEF WrittenAdded, Extra, WasOffered, Id
  <2>1. /\ added = ids
        /\ \A c \in Albums, l \in Members :
              seen'[c][l] = IF c = alb /\ l = m THEN seen[alb][m] \cup ids ELSE seen[c][l]
    <3>1. added = ids /\ seen' = [seen EXCEPT ![alb][m] = @ \cup ids]
      BY <1>2
    <3>2. seen \in [Albums -> [Members -> SUBSET Ids]]
      BY Shape
    <3> QED
      BY <3>1, <3>2
  <2>2. x \in rows[b][n] /\ Id(n, x) \notin obs[b][n]
    <3>1. Id(n, x) \notin obs[b][n]
      BY <1>5, <2>1
    <3>2. ASSUME NEW id \in ids, b = alb, n = m, id[1] = x
          PROVE  FALSE
      <4>1. id = <<id[1], id[2]>>
        BY DEF ids, ToAdd
      <4>2. id = Id(m, x)
        BY <2>1, <3>2, <4>1 DEF Exists, Id
      <4> QED
        BY <2>1, <3>2, <4>2
    <3>3. b = alb /\ n = m => x \notin AssetsOf(added)
      BY <2>1, <3>2 DEF AssetsOf
    <3> QED
      BY <1>3, <3>1, <3>3
  <2> QED
    BY <2>2, <1>5 DEF Additions, SharedAdded, Extra, WasOffered
<1>8. NoTrash' /\ ListedAdded' /\ AddsExplained'
    BY <1>1, <1>2 DEF Additions, NoTrash, ListedAdded, AddsExplained
<1> QED
    BY <1>6, <1>7, <1>8 DEF Additions

\* Taking something out adds nothing.
LEMMA RemoveAdditions ==
    ASSUME Typed, Additions, NEW alb \in Albums, NEW m \in Members, NEW id \in seen[alb][m],
           RemoveAsset(alb, m, id)
    PROVE  Additions'
<1>1. UNCHANGED <<copy, membership, obs, offered>> /\ pc = "write"
    BY DEF RemoveAsset, sqlite
<1>2. \/ /\ rows' = [rows EXCEPT ![alb][m] = @ \ {id[1]}]
         /\ seen' = [seen EXCEPT ![alb][m] = @ \ {id}]
         /\ pc' = "write"
      \/ pc' = "idle" /\ force' = TRUE /\ rows' = rows
    BY DEF RemoveAsset, Abort, EndCycle
<1>3. \A b \in Albums, n \in Members : rows'[b][n] \subseteq rows[b][n]
  <2>1. rows \in [Albums -> [Members -> SUBSET Assets]]
    BY Shape
  <2> QED
    BY <1>2, <2>1
<1>4. ~Clean'
    BY <1>2 DEF Clean
<1>5. SharedAdded'
    BY <1>1, <1>3, <1>4 DEF Additions, SharedAdded, Clean, Extra, WasOffered, Id
<1>6. WrittenAdded'
  <2> SUFFICES ASSUME pc' = "write", NEW b \in Albums, NEW n \in Members, NEW x \in Assets,
                      x \in rows'[b][n], copy[n][x].st = "live", Id(n, x) \notin seen'[b][n]
               PROVE  <<b, n, Id(n, x)>> \in offered
    BY <1>1 DEF WrittenAdded, Extra, WasOffered, Id
  <2>1. \A c \in Albums, l \in Members :
            /\ rows'[c][l] = IF c = alb /\ l = m THEN rows[alb][m] \ {id[1]} ELSE rows[c][l]
            /\ seen'[c][l] = IF c = alb /\ l = m THEN seen[alb][m] \ {id} ELSE seen[c][l]
    <3>1. rows' = [rows EXCEPT ![alb][m] = @ \ {id[1]}] /\ seen' = [seen EXCEPT ![alb][m] = @ \ {id}]
      BY <1>2
    <3>2. /\ rows \in [Albums -> [Members -> SUBSET Assets]]
          /\ seen \in [Albums -> [Members -> SUBSET Ids]]
      BY Shape
    <3> QED
      BY <3>1, <3>2
  <2>2. x \in rows[b][n] /\ Id(n, x) \notin seen[b][n]
    BY <2>1 DEF Id
  <2> QED
    BY <1>1, <2>2 DEF Additions, WrittenAdded, Extra, WasOffered
<1>7. NoTrash' /\ ListedAdded' /\ AddsExplained'
    BY <1>1, <1>2 DEF Additions, NoTrash, ListedAdded, AddsExplained
<1> QED
    BY <1>5, <1>6, <1>7 DEF Additions

\* The record of a mirror is replaced.
LEMMA UpdateAdditions ==
    ASSUME Typed, Edits, Additions, NEW alb \in Albums, NEW m \in Members,
           UpdateObservations(alb, m)
    PROVE  Additions'
<1>1. /\ UNCHANGED <<copy, rows, membership, seen>>
      /\ pc = "write" /\ Turn(<<alb, m>>) /\ pc' = "apply"
      /\ obs' = [obs EXCEPT ![alb][m] = seen[alb][m]]
      /\ offered' = {o \in offered : o[3] \notin obs'[o[1]][o[2]]}
    BY DEF UpdateObservations, Record, immich
<1>2. \A b \in Albums, n \in Members :
          obs'[b][n] = IF b = alb /\ n = m THEN seen[alb][m] ELSE obs[b][n]
    BY <1>1, Shape
<1>3. \A b \in Albums, n \in Members : obs'[b][n] = seen[b][n]
  <2> SUFFICES ASSUME NEW b \in Albums, NEW n \in Members, ~(b = alb /\ n = m)
               PROVE  obs[b][n] = seen[b][n]
    BY <1>2
  <2>1. <<b, n>> \in Mirrors /\ <<alb, m>> \in Mirrors
    BY DEF Mirrors
  <2>2. ~Turn(<<b, n>>)
    BY <1>1, <2>1, OneTurn
  <2> QED
    BY <1>1, <2>2 DEF Edits, Ground, SeenIsRecorded
<1>4. SharedAdded'
  <2> SUFFICES ASSUME NEW b \in Albums, NEW n \in Members, NEW x \in Assets,
                      x \in rows[b][n], copy[n][x].st = "live", Id(n, x) \notin obs'[b][n]
               PROVE  <<b, n, Id(n, x)>> \in offered'
    BY <1>1 DEF SharedAdded, Extra, WasOffered, Id
  <2>1. <<b, n, Id(n, x)>> \in offered
    BY <1>1, <1>3 DEF Additions, WrittenAdded, Extra, WasOffered
  <2> QED
    BY <1>1, <2>1
<1>5. NoTrash' /\ WrittenAdded' /\ ListedAdded' /\ AddsExplained'
    BY <1>1 DEF Additions, NoTrash, WrittenAdded, ListedAdded, AddsExplained
<1> QED
    BY <1>4, <1>5 DEF Additions

\* Deleting adds nothing.
LEMMA CleanupAdditions ==
    ASSUME Typed, Additions, NEW m \in Members, NEW a \in Assets, CleanupReplica(m, a)
    PROVE  Additions'
<1>1. UNCHANGED <<membership, obs, offered, pc, force>> /\ pc = "post"
    BY DEF CleanupReplica, history
<1>2. \/ UNCHANGED <<copy, rows>>
      \/ /\ copy' = [copy EXCEPT ![m][a].st = "none"]
         /\ rows' = [alb \in Albums |-> [rows[alb] EXCEPT ![m] = @ \ {a}]]
    BY Zenon DEF CleanupReplica, ForgetCopy, DeleteCopy
<1>3. \A b \in Albums, n \in Members : rows'[b][n] \subseteq rows[b][n]
  <2>1. rows \in [Albums -> [Members -> SUBSET Assets]]
    BY Shape
  <2> QED
    BY <1>2, <2>1
<1>4. ASSUME NEW n \in Members, NEW x \in Assets
      PROVE  /\ copy'[n][x].gen = copy[n][x].gen
             /\ copy'[n][x].st = copy[n][x].st \/ copy'[n][x].st = "none"
  <2>1. copy \in [Members -> [Assets -> Copies]]
    BY DEF Typed, TypeOK, ImmichTypeOK
  <2>2. copy[n][x] \in Copies
    BY <2>1
  <2>3. \/ copy' = copy
        \/ copy'[n][x] = IF n = m /\ x = a THEN [copy[m][a] EXCEPT !.st = "none"] ELSE copy[n][x]
    BY <1>2, <2>1
  <2> QED
    BY <2>2, <2>3 DEF Copies
<1>5. NoTrash'
    BY <1>4 DEF Additions, NoTrash
<1>6. SharedAdded'
  <2> SUFFICES ASSUME NEW b \in Albums, NEW n \in Members, NEW x \in Assets,
                      x \in rows'[b][n], copy'[n][x].st = "live",
                      <<x, copy'[n][x].gen>> \notin obs[b][n]
               PROVE  <<b, n, <<x, copy'[n][x].gen>> >> \in offered
    BY <1>1 DEF SharedAdded, Extra, WasOffered, Id
  <2>1. x \in rows[b][n] /\ copy[n][x].st = "live" /\ copy'[n][x].gen = copy[n][x].gen
    BY <1>3, <1>4
  <2> QED
    BY <1>1, <2>1 DEF Additions, SharedAdded, Clean, Extra, WasOffered, Id
<1>7. WrittenAdded' /\ ListedAdded' /\ AddsExplained'
    BY <1>1 DEF WrittenAdded, ListedAdded, AddsExplained
<1> QED
    BY <1>5, <1>6, <1>7 DEF Additions

\* Initially the albums show what is recorded.
LEMMA InitAdditions == Init => Additions
<1> SUFFICES ASSUME Init PROVE Additions
    OBVIOUS
<1>1. /\ pc = "idle"
      /\ rows = [alb \in Albums |-> [m \in Members |-> InitShared[alb]]]
      /\ obs = [alb \in Albums |-> [m \in Members |-> InitShared[alb] \X {1}]]
    BY DEF Init
<1>2. ASSUME NEW alb \in Albums, NEW m \in Members, NEW a \in InitShared[alb]
      PROVE  copy[m][a].gen = 1
  <2>1. a \in Assets /\ Settled(m, a)
    BY MembershipAssumption DEF Settled
  <2> QED
    BY <2>1 DEF Init
<1>3. NoTrash
    BY DEF Init, NoTrash
<1>4. SharedAdded
    BY <1>1, <1>2 DEF SharedAdded, Extra, Id
<1>5. WrittenAdded /\ ListedAdded /\ AddsExplained
    BY <1>1 DEF WrittenAdded, ListedAdded, AddsExplained
<1> QED
    BY <1>3, <1>4, <1>5 DEF Additions

\* Additions is inductive while the trash is out of use.
LEMMA NextAdditions ==
    ASSUME Typed, Edits, TrashUnused => Additions, [Next]_vars
    PROVE  (TrashUnused => Additions)'
<1> SUFFICES ASSUME TrashUnused'
             PROVE  Additions'
    OBVIOUS
<1>0. TrashUnused /\ Additions
    BY TrashGrows
<1>1. CASE User \/ Scan
  <2>1. Together \in Albums
    BY MembershipAssumption
  <2> QED
    BY <1>0, <1>1, <2>1, UserAdditions DEF User, Scan, UserStep
<1>2. CASE StartRun \/ StartWork \/ CycleFault
    BY <1>0, <1>2, OtherAdditions
<1>3. CASE Observe
    BY <1>0, <1>3, OtherAdditions, ListAdditions, PersistAdditions DEF Observe
<1>4. CASE Apply
  <2>1. CASE AuditDone \/ ApplyDone
    BY <1>0, <2>1, OtherAdditions
  <2>2. CASE \E m \in Members, a \in Assets :
                Audit(m, a) \/ \E alb \in Albums : Prepare(alb, m, a) \/ LookUp(alb, m, a)
    BY <1>0, <2>2, OtherAdditions
  <2> QED
    BY <1>0, <1>4, <2>1, <2>2, AddAdditions, RemoveAdditions, UpdateAdditions DEF Apply
<1>5. CASE Post
    BY <1>0, <1>5, CleanupAdditions, OtherAdditions DEF Post
<1>6. CASE UNCHANGED vars
  <2>1. UNCHANGED <<copy, rows, membership, obs, offered, pc, visits, seen, plan, force>>
    BY <1>6 DEF vars, immich, sqlite, process, history
  <2>2. NoTrash' /\ SharedAdded'
    BY <1>0, <2>1 DEF Additions, NoTrash, SharedAdded, Clean, Extra, WasOffered, Id
  <2>3. WrittenAdded' /\ ListedAdded'
    BY <1>0, <2>1 DEF Additions, WrittenAdded, ListedAdded, Extra, WasOffered, Id
  <2>4. AddsExplained'
    <3>1. \A alb \in Albums, m \in Members, a \in Assets : PutIn(alb, m, a)' <=> PutIn(alb, m, a)
      BY <2>1 DEF PutIn
    <3> QED
      BY <1>0, <2>1, <3>1 DEF Additions, AddsExplained
  <2> QED
    BY <2>2, <2>3, <2>4 DEF Additions
<1> QED
    BY <1>1, <1>2, <1>3, <1>4, <1>5, <1>6 DEF Next, Cycle

\* An addition that was decided is one that a user asked for.
LEMMA PersistOffered ==
    ASSUME Edits, Additions, SharingConsistent, PersistPlans,
           NEW alb \in Albums, NEW a \in Assets, a \in membership'[alb], a \notin membership[alb]
    PROVE  \E o \in offered : o[3][1] = a /\ (o[1] = alb \/ alb = Together)
<1>1. pc = "observe" /\ a \in Resolved[alb]
    BY DEF PersistPlans, AllObserved, Decision
<1>2. PICK b \in Albums : a \in Observed(b) /\ (b = alb \/ alb = Together)
    BY <1>1 DEF Resolved
<1>3. a \notin membership[b]
    BY <1>2 DEF SharingConsistent
<1>4. a \in plan.adds[b]
    BY <1>2, <1>3 DEF Observed
<1>5. PICK m \in Members : \E id \in seen[b][m] : id[1] = a /\ <<b, m, id>> \in offered
    BY <1>1, <1>3, <1>4 DEF Additions, AddsExplained, PutIn
<1>6. PICK id \in seen[b][m] : id[1] = a /\ <<b, m, id>> \in offered
    BY <1>5
<1>7. <<b, m, id>>[1] = b /\ <<b, m, id>>[3][1] = a
    BY <1>6
<1> QED
    BY <1>2, <1>6, <1>7

\* An asset joins an album only because a user put it there, or, for Together,
\* in some album: what the bridge wrote and did not record, and what a crash
\* left in an album, is never shared again (observeAlbum, resolveTogether,
\* persistPlans). As long as nobody uses the trash.
THEOREM NeverResurrected == Spec => NoResurrection
<1>1. Typed /\ Edits /\ (TrashUnused => Additions) /\ SharingConsistent /\ [Next]_vars =>
          [TrashUnused => \A alb \in Albums : \A a \in membership'[alb] \ membership[alb] :
              \E o \in offered : o[3][1] = a /\ (o[1] = alb \/ alb = Together)]_vars
  <2> SUFFICES ASSUME Typed, Edits, Additions, SharingConsistent, [Next]_vars, TrashUnused,
                      NEW alb \in Albums, NEW a \in membership'[alb], a \notin membership[alb]
               PROVE  \E o \in offered : o[3][1] = a /\ (o[1] = alb \/ alb = Together)
    OBVIOUS
  <2>1. PersistPlans
    BY OnlyPersistDecides
  <2>2. a \in Assets
    <3>1. Typed'
      BY NextTyped
    <3> QED
      BY <3>1 DEF Typed, TypeOK, StoreTypeOK
  <2> QED
    BY <2>1, <2>2, PersistOffered
<1>2. Init => Typed /\ Edits /\ (TrashUnused => Additions)
    BY InitTyped, InitEdits, InitAdditions
<1>3. Typed /\ Edits /\ (TrashUnused => Additions) /\ [Next]_vars =>
          Typed' /\ Edits' /\ (TrashUnused => Additions)'
    BY NextTyped, NextEdits, NextAdditions
<1>4. Spec => []SharingConsistent
    BY SharingIsConsistent
<1> QED
    BY <1>1, <1>2, <1>3, <1>4, PTL DEF Spec, NoResurrection

\* After a completed cycle an album differs from its recorded observation only
\* by what users did since: no write of the bridge, recorded or not, is taken
\* for a user's edit by the next discovery (UpdateObservations, persistPlans).
\* As long as nobody uses the trash.
THEOREM OnlyEditsDiffer == Spec => []DiffersByEdits
<1>1. Typed /\ Edits /\ (TrashUnused => Additions) => DiffersByEdits
  <2> SUFFICES ASSUME Typed, Edits, Additions, pc = "idle", ~force,
                      NEW alb \in Albums, NEW m \in Members, NEW a \in Assets,
                      copy[m][a].st = "live"
               PROVE  /\ Id(m, a) \in Listing(alb, m) \ obs[alb][m]
                            => <<alb, m, Id(m, a)>> \in offered
                      /\ Id(m, a) \in obs[alb][m] \ Listing(alb, m)
                            => <<alb, m, Id(m, a)>> \in withdrawn
    BY DEF DiffersByEdits
  <2>1. Clean
    BY DEF Clean
  <2>2. Id(m, a) \in Listing(alb, m) <=> a \in rows[alb][m]
    BY DEF Listing, Id
  <2>3. Id(m, a) \in Listing(alb, m) \ obs[alb][m] => <<alb, m, Id(m, a)>> \in offered
    BY <2>1, <2>2 DEF Additions, SharedAdded, Extra, WasOffered
  <2>4. Id(m, a) \in obs[alb][m] \ Listing(alb, m) => <<alb, m, Id(m, a)>> \in withdrawn
    BY <2>1, <2>2 DEF Edits, Withdrawals, SharedTaken, Missing, WasTaken
  <2> QED
    BY <2>3, <2>4
<1>2. Init => Typed /\ Edits /\ (TrashUnused => Additions)
    BY InitTyped, InitEdits, InitAdditions
<1>3. Typed /\ Edits /\ (TrashUnused => Additions) /\ [Next]_vars =>
          Typed' /\ Edits' /\ (TrashUnused => Additions)'
    BY NextTyped, NextEdits, NextAdditions
<1> QED
    BY <1>1, <1>2, <1>3, PTL DEF Spec

-----------------------------------------------------------------------------
(* Every edit that a listing shows is in the plan.                          *)

\* An original is never imported again.
OriginGen == \A a \in Assets : copy[Owner[a]][a].gen = 1

\* Its row knows its id as soon as it was listed.
OriginIds == \A alb \in Albums, m \in Members : \A id \in obs[alb][m] \cup seen[alb][m] :
    Owner[id[1]] = m => id[2] = 1 /\ rep[m][id[1]].gen = 1

\* What was listed beyond the record is an addition of the plan.
AddsPlanned ==
    pc = "observe" => \A alb \in Albums, m \in Members :
        <<alb, m>> \notin visits =>
            \A id \in seen[alb][m] : id \in obs[alb][m] \/ id[1] \in plan.adds[alb]

\* What is recorded, known and in the library, and was not listed, is a removal
\* of the plan or about to be looked up.
RemovesPlanned ==
    pc = "observe" => \A alb \in Albums, m \in Members :
        <<alb, m>> \notin visits =>
            \A id \in obs[alb][m] :
                \/ id \in seen[alb][m]
                \/ ~Known(m, id) \/ ~InLibrary(m, id) \/ <<m, id[1]>> \in flicker
                \/ <<alb, m, id>> \in checks
                \/ id[1] \in plan.removes[alb]

Planned == OriginGen /\ OriginIds /\ AddsPlanned /\ RemovesPlanned

\* No copy changes its id but by a crawl.
LEMMA GenKept ==
    ASSUME Typed, [Next]_vars, NEW a \in Assets
    PROVE  copy'[Owner[a]][a].gen = copy[Owner[a]][a].gen
<1>1. Owner[a] \in Members
    BY MembershipAssumption
<1>2. copy \in [Members -> [Assets -> Copies]] /\ copy[Owner[a]][a] \in Copies
    BY <1>1 DEF Typed, TypeOK, ImmichTypeOK
<1>3. CASE User
  <2>1. ASSUME NEW alb \in Albums, NEW m \in Members, NEW b \in Assets,
               UserAdd(alb, m, b) \/ UserRemove(alb, m, b)
        PROVE  copy' = copy
    BY <2>1 DEF UserAdd, UserRemove, Edit
  <2>2. ASSUME NEW m \in Members, NEW b \in Assets,
               UserTrash(m, b) \/ UserRestore(m, b) \/ UserDelete(m, b)
        PROVE  copy'[Owner[a]][a].gen = copy[Owner[a]][a].gen
    <3>1. PICK st \in {"none", "live", "trashed"} : copy' = [copy EXCEPT ![m][b].st = st]
      BY <2>2 DEF UserTrash, UserRestore, UserDelete
    <3> QED
      BY <1>1, <1>2, <3>1 DEF Copies
  <2> QED
    BY <1>3, <2>1, <2>2 DEF User
<1>4. CASE Scan
    BY <1>1, <1>2, <1>4 DEF Scan, Import
<1>5. CASE StartRun \/ StartWork \/ Observe \/ CycleFault
    BY <1>5 DEF StartRun, StartWork, Observe, ListAlbum, RejectAlbum, CheckMissing,
                ConfirmOrigin, PersistPlans, CycleFault, immich
<1>6. CASE Apply
  <2>1. ASSUME NEW m \in Members, NEW b \in Assets, EnsureReplica(m, b) \/ EnsureError(m, b)
        PROVE  copy'[Owner[a]][a].gen = copy[Owner[a]][a].gen
    BY <1>1, <2>1, EnsureSame DEF SameCopies
  <2>2. ASSUME NEW alb \in Albums, NEW m \in Members, NEW b \in Assets,
               Prepare(alb, m, b) \/ LookUp(alb, m, b)
        PROVE  copy'[Owner[a]][a].gen = copy[Owner[a]][a].gen
    BY <2>1, <2>2 DEF Prepare, LookUp, immich
  <2>3. ASSUME NEW m \in Members, NEW b \in Assets, Audit(m, b)
        PROVE  copy'[Owner[a]][a].gen = copy[Owner[a]][a].gen
    BY <2>1, <2>3 DEF Audit
  <2>4. CASE AuditDone \/ ApplyDone
    BY <2>4 DEF AuditDone, ApplyDone, immich
  <2>5. ASSUME NEW alb \in Albums, NEW m \in Members,
               \/ AddAssets(alb, m) \/ UpdateObservations(alb, m)
               \/ \E id \in seen[alb][m] : RemoveAsset(alb, m, id)
        PROVE  copy' = copy
    BY <2>5 DEF AddAssets, UpdateObservations, RemoveAsset, immich
  <2> QED
    BY <1>6, <2>2, <2>3, <2>4, <2>5 DEF Apply
<1>7. CASE Post
  <2>1. ASSUME NEW m \in Members, NEW b \in Assets, CleanupReplica(m, b)
        PROVE  copy'[Owner[a]][a].gen = copy[Owner[a]][a].gen
    <3>1. copy' = copy \/ copy' = [copy EXCEPT ![m][b].st = "none"]
      BY <2>1, Zenon DEF CleanupReplica, ForgetCopy, DeleteCopy
    <3> QED
      BY <1>1, <1>2, <3>1 DEF Copies
  <2>2. CASE FinishCycle
    BY <2>2 DEF FinishCycle, immich
  <2> QED
    BY <1>7, <2>1, <2>2 DEF Post
<1>8. CASE UNCHANGED vars
    BY <1>8 DEF vars, immich
<1> QED
    BY <1>3, <1>4, <1>5, <1>6, <1>7, <1>8 DEF Next, Cycle

\* Users and crawls leave SQLite and the bridge alone.
LEMMA UsersApart ==
    ASSUME User \/ Scan
    PROVE  UNCHANGED <<sqlite, process, dropped>>
<1>1. ASSUME NEW alb \in Albums, NEW m \in Members, NEW a \in Assets,
             UserAdd(alb, m, a) \/ UserRemove(alb, m, a)
      PROVE  UNCHANGED <<sqlite, process, dropped>>
    BY <1>1 DEF UserAdd, UserRemove, Edit
<1>2. ASSUME NEW m \in Members, NEW a \in Assets,
             UserTrash(m, a) \/ UserRestore(m, a) \/ UserDelete(m, a)
      PROVE  UNCHANGED <<sqlite, process, dropped>>
    BY <1>2 DEF UserTrash, UserRestore, UserDelete, TrashEdit
<1>3. CASE Scan
    BY <1>3 DEF Scan, Import, history
<1> QED
    BY <1>1, <1>2, <1>3 DEF User

\* The row of an original keeps its id.
LEMMA OriginKept ==
    ASSUME Typed, OriginGen, [Next]_vars, NEW a \in Assets, rep[Owner[a]][a].gen = 1
    PROVE  rep'[Owner[a]][a].gen = 1
<1>1. Owner[a] \in Members
    BY MembershipAssumption
<1>2. rep \in [Members -> [Assets -> Replicas]] /\ rep[Owner[a]][a] \in Replicas
    BY <1>1 DEF Typed, TypeOK, StoreTypeOK
<1>3. CASE User \/ Scan \/ StartRun \/ StartWork \/ CycleFault
    BY <1>3, UsersApart DEF StartRun, StartWork, CycleFault, sqlite
<1>4. CASE Observe
  <2>1. ASSUME NEW m \in Members, NEW new, EnsureOrigins(m, new)
        PROVE  rep'[Owner[a]][a].gen = 1
    BY <1>1, <1>2, <2>1 DEF EnsureOrigins
  <2>2. ASSUME PersistPlans
        PROVE  rep'[Owner[a]][a].gen = 1
    <3>1. rep'[Owner[a]][a] = [rep[Owner[a]][a] EXCEPT !.state = PersistedState(Owner[a], a)]
      BY <1>1, <2>2 DEF PersistPlans
    <3> QED
      BY <1>2, <3>1 DEF Replicas
  <2>3. ASSUME NEW alb \in Albums, NEW m \in Members, ListAlbum(alb, m) \/ RejectAlbum(alb, m)
        PROVE  rep'[Owner[a]][a].gen = 1
    BY <2>1, <2>3 DEF ListAlbum, RejectAlbum
  <2>4. ASSUME \/ \E c \in checks : CheckMissing(c[1], c[2], c[3])
               \/ \E b \in Assets : ConfirmOrigin(b)
        PROVE  rep' = rep
    BY <2>4 DEF CheckMissing, ConfirmOrigin, sqlite
  <2> QED
    BY <1>4, <2>2, <2>3, <2>4 DEF Observe
<1>5. CASE Apply
  <2>1. ASSUME NEW m \in Members, NEW b \in Assets, EnsureReplica(m, b) \/ EnsureError(m, b)
        PROVE  rep'[Owner[a]][a].gen = 1
    <3>1. \/ rep' = rep
          \/ \E st \in RepStates : rep' = [rep EXCEPT ![m][b].state = st]
          \/ m # Owner[b] /\ \E r : rep' = [rep EXCEPT ![m][b] = r]
      BY <2>1 DEF EnsureReplica, EnsureError, RepStates
    <3>2. ASSUME NEW st \in RepStates, rep' = [rep EXCEPT ![m][b].state = st]
          PROVE  rep'[Owner[a]][a].gen = 1
      BY <1>1, <1>2, <3>2 DEF Replicas
    <3>3. ASSUME m # Owner[b], NEW r, rep' = [rep EXCEPT ![m][b] = r]
          PROVE  rep'[Owner[a]][a] = rep[Owner[a]][a]
      BY <1>1, <1>2, <3>3
    <3> QED
      BY <3>1, <3>2, <3>3
  <2>2. ASSUME NEW alb \in Albums, NEW m \in Members, NEW b \in Assets, LookUp(alb, m, b)
        PROVE  rep'[Owner[a]][a].gen = 1
    <3>1. \/ rep' = rep
          \/ rep' = [rep EXCEPT ![m][b].state = "ready", ![m][b].gen = copy[m][b].gen]
      BY <2>2 DEF LookUp
    <3>2. CASE rep' = [rep EXCEPT ![m][b].state = "ready", ![m][b].gen = copy[m][b].gen]
      BY <1>1, <1>2, <3>2 DEF OriginGen, Replicas
    <3> QED
      BY <3>1, <3>2
  <2>3. ASSUME NEW alb \in Albums, NEW m \in Members,
               \/ AddAssets(alb, m) \/ UpdateObservations(alb, m)
               \/ \E id \in seen[alb][m] : RemoveAsset(alb, m, id)
        PROVE  rep' = rep
    BY <2>3 DEF AddAssets, UpdateObservations, RemoveAsset, sqlite
  <2>4. CASE AuditDone \/ ApplyDone
    BY <2>4 DEF AuditDone, ApplyDone, sqlite
  <2>5. ASSUME NEW m \in Members, NEW b \in Assets, Audit(m, b)
        PROVE  rep'[Owner[a]][a].gen = 1
    BY <2>1, <2>5 DEF Audit
  <2>6. ASSUME NEW alb \in Albums, NEW m \in Members, NEW b \in Assets, Prepare(alb, m, b)
        PROVE  rep'[Owner[a]][a].gen = 1
    BY <2>1, <2>6 DEF Prepare
  <2> QED
    BY <1>5, <2>2, <2>3, <2>4, <2>5, <2>6 DEF Apply
<1>6. CASE Post
  <2>1. ASSUME NEW m \in Members, NEW b \in Assets, CleanupReplica(m, b)
        PROVE  rep'[Owner[a]][a].gen = 1
    <3>1. m # Owner[b]
      BY <2>1 DEF CleanupReplica, ToClean
    <3>2. \/ rep' = rep
          \/ rep' = [rep EXCEPT ![m][b].state = "deleting", ![m][b].gen = copy[m][b].gen]
          \/ rep' = [rep EXCEPT ![m][b] = NoReplica]
      BY <2>1, Zenon DEF CleanupReplica, ForgetCopy
    <3>3. rep'[Owner[a]][a] = rep[Owner[a]][a]
      BY <1>1, <1>2, <3>1, <3>2
    <3> QED
      BY <3>3
  <2>2. CASE FinishCycle
    <3>1. \/ rep'[Owner[a]][a] = rep[Owner[a]][a]
          \/ rep'[Owner[a]][a] = [rep[Owner[a]][a] EXCEPT !.state = "pending_removal"]
      BY <1>1, <2>2 DEF FinishCycle, MarkUnused
    <3> QED
      BY <1>2, <3>1 DEF Replicas
  <2> QED
    BY <1>6, <2>1, <2>2 DEF Post
<1>7. CASE UNCHANGED vars
    BY <1>7 DEF vars, sqlite
<1> QED
    BY <1>3, <1>4, <1>5, <1>6, <1>7 DEF Next, Cycle

\* Ids get into the tables by a listing or by an addition that succeeded.
LEMMA IdsFrom ==
    ASSUME Typed, [Next]_vars, NEW alb \in Albums, NEW m \in Members,
           NEW id \in obs'[alb][m] \cup seen'[alb][m]
    PROVE  \/ id \in obs[alb][m] \cup seen[alb][m]
           \/ ListAlbum(alb, m) /\ id \in Listing(alb, m)
           \/ AddAssets(alb, m) /\ id \in ToAdd(alb, m) /\ Exists(m, id[1], id[2])
<1>1. /\ seen \in [Albums -> [Members -> SUBSET Ids]]
      /\ obs \in [Albums -> [Members -> SUBSET Ids]]
    BY Shape
<1>2. ASSUME EndCycle
      PROVE  seen'[alb][m] = {}
    BY <1>2 DEF EndCycle, NothingSeen
<1>3. CASE User \/ Scan \/ StartRun \/ UNCHANGED vars
    BY <1>3 DEF User, UserAdd, UserRemove, UserTrash, UserRestore, UserDelete, Edit, TrashEdit,
                Scan, Import, StartRun, sqlite, process, vars
<1>4. CASE StartWork
    BY <1>1, <1>4 DEF StartWork, sqlite, NothingSeen
<1>5. CASE CycleFault
    BY <1>2, <1>5 DEF CycleFault, Abort, sqlite
<1>6. CASE Observe
  <2>1. ASSUME NEW b \in Albums, NEW n \in Members, ListAlbum(b, n)
        PROVE  \/ id \in obs[alb][m] \cup seen[alb][m]
               \/ b = alb /\ n = m /\ id \in Listing(alb, m)
    BY <1>1, <2>1 DEF ListAlbum
  <2>2. ASSUME NEW b \in Albums, NEW n \in Members, RejectAlbum(b, n)
        PROVE  id \in obs[alb][m]
    BY <1>2, <2>2 DEF RejectAlbum, Abort
  <2>3. CASE \/ \E c \in checks : CheckMissing(c[1], c[2], c[3])
             \/ \E b \in Assets : ConfirmOrigin(b)
    BY <2>3 DEF CheckMissing, ConfirmOrigin, sqlite
  <2>4. CASE PersistPlans
    BY <2>4 DEF PersistPlans, Record, Inputs
  <2> QED
    BY <1>6, <2>1, <2>2, <2>3, <2>4 DEF Observe
<1>7. CASE Apply
  <2>1. ASSUME NEW n \in Members, NEW b \in Assets, NEW c \in Albums,
               Audit(n, b) \/ Prepare(c, n, b) \/ LookUp(c, n, b)
        PROVE  id \in obs[alb][m] \cup seen[alb][m]
    BY <2>1 DEF Audit, Prepare, LookUp
  <2>2. CASE AuditDone \/ ApplyDone
    BY <2>2 DEF AuditDone, ApplyDone, sqlite
  <2>3. ASSUME NEW b \in Albums, NEW n \in Members, AddAssets(b, n)
        PROVE  \/ id \in obs[alb][m] \cup seen[alb][m]
               \/ b = alb /\ n = m /\ id \in ToAdd(alb, m) /\ Exists(m, id[1], id[2])
    <3>1. CASE EndCycle
      BY <1>2, <2>3, <3>1 DEF AddAssets, sqlite
    <3>2. CASE ~EndCycle
      <4>1. /\ obs' = obs
            /\ seen' = [seen EXCEPT ![b][n] = @ \cup ToAdd(b, n)]
            /\ ToAdd(b, n) = {i \in ToAdd(b, n) : Exists(n, i[1], i[2])}
        BY <2>3, <3>2 DEF AddAssets, Abort, Written, sqlite
      <4>2. seen'[alb][m] = IF b = alb /\ n = m THEN seen[alb][m] \cup ToAdd(b, n)
                                                ELSE seen[alb][m]
        BY <1>1, <4>1
      <4> QED
        BY <4>1, <4>2
    <3> QED
      BY <3>1, <3>2
  <2>4. ASSUME NEW b \in Albums, NEW n \in Members, UpdateObservations(b, n)
        PROVE  id \in obs[alb][m] \cup seen[alb][m]
    <3>1. seen' = seen /\ obs' = [obs EXCEPT ![b][n] = seen[b][n]]
      BY <2>4 DEF UpdateObservations, Record
    <3> QED
      BY <1>1, <3>1
  <2>5. ASSUME NEW b \in Albums, NEW n \in Members, NEW i \in seen[b][n], RemoveAsset(b, n, i)
        PROVE  id \in obs[alb][m] \cup seen[alb][m]
    <3>1. obs' = obs /\ (seen' = [seen EXCEPT ![b][n] = @ \ {i}] \/ EndCycle)
      BY <2>5 DEF RemoveAsset, Abort, sqlite
    <3> QED
      BY <1>1, <1>2, <3>1
  <2>6. Together \in Albums
    BY MembershipAssumption
  <2> QED
    BY <1>7, <2>1, <2>2, <2>3, <2>4, <2>5, <2>6 DEF Apply
<1>8. CASE Post
  <2>1. ASSUME NEW n \in Members, NEW b \in Assets, CleanupReplica(n, b)
        PROVE  id \in obs[alb][m] \cup seen[alb][m]
    BY <2>1 DEF CleanupReplica
  <2>2. CASE FinishCycle
    BY <1>2, <2>2 DEF FinishCycle
  <2> QED
    BY <1>8, <2>1, <2>2 DEF Post
<1> QED
    BY <1>3, <1>4, <1>5, <1>6, <1>7, <1>8 DEF Next, Cycle

\* The ids of originals in the tables are those of their rows.
LEMMA OriginNext ==
    ASSUME Typed, OriginGen, OriginIds, [Next]_vars
    PROVE  OriginGen' /\ OriginIds'
<1>1. OriginGen'
    BY GenKept DEF OriginGen
<1>2. OriginIds'
  <2> SUFFICES ASSUME NEW alb \in Albums, NEW m \in Members,
                      NEW id \in obs'[alb][m] \cup seen'[alb][m], Owner[id[1]] = m
               PROVE  id[2] = 1 /\ rep'[m][id[1]].gen = 1
    BY DEF OriginIds
  <2>1. CASE id \in obs[alb][m] \cup seen[alb][m]
    <3>1. id[1] \in Assets
      BY <2>1, Shape DEF Ids
    <3>2. id[2] = 1 /\ rep[m][id[1]].gen = 1
      BY <2>1 DEF OriginIds
    <3> QED
      BY <3>1, <3>2, OriginKept
  <2>2. CASE ListAlbum(alb, m) /\ id \in Listing(alb, m)
    <3>1. id[1] \in Assets /\ id[2] = 1
      BY <2>2, ListingCurrent DEF OriginGen
    <3>2. CASE Known(m, id)
      BY <3>1, <3>2, OriginKept DEF Known
    <3>3. CASE ~Known(m, id)
      <4>1. id[1] \in AssetsOf(Unknown(alb, m))
        BY <2>2, <3>3 DEF Unknown, AssetsOf
      <4>2. EnsureOrigins(m, AssetsOf(Unknown(alb, m)))
        BY <2>2 DEF ListAlbum
      <4>3. rep \in [Members -> [Assets -> Replicas]]
        BY DEF Typed, TypeOK, StoreTypeOK
      <4>4. rep'[m][id[1]] = [state |-> "ready", gen |-> 1, path |-> TRUE]
        BY <3>1, <4>1, <4>2, <4>3 DEF EnsureOrigins
      <4> QED
        BY <3>1, <4>4
    <3> QED
      BY <3>2, <3>3
  <2>3. CASE AddAssets(alb, m) /\ id \in ToAdd(alb, m) /\ Exists(m, id[1], id[2])
    <3>1. id[1] \in Assets /\ rep[m][id[1]].gen = id[2]
      BY <2>3, Shape DEF ToAdd
    <3>2. id[2] = 1
      BY <2>3, <3>1 DEF Exists, OriginGen
    <3> QED
      BY <3>1, <3>2, OriginKept
  <2> QED
    BY <2>1, <2>2, <2>3, IdsFrom
<1> QED
    BY <1>1, <1>2

\* The steps that leave the cycle in its observation.
LEMMA ObserveSteps ==
    ASSUME [Next]_vars, pc' = "observe"
    PROVE  \/ \E alb \in Albums, m \in Members, a \in Assets : UserStep(alb, m, a)
           \/ StartRun
           \/ \E alb \in Albums, m \in Members : ListAlbum(alb, m)
           \/ \E c \in checks : CheckMissing(c[1], c[2], c[3])
           \/ \E a \in Assets : ConfirmOrigin(a)
           \/ UNCHANGED vars
<1>1. Together \in Albums
    BY MembershipAssumption
<1>2. ~StartWork /\ ~CycleFault /\ ~PersistPlans /\ ~FinishCycle /\ ~AuditDone /\ ~ApplyDone
    BY DEF StartWork, CycleFault, PersistPlans, FinishCycle, AuditDone, ApplyDone, Abort, EndCycle
<1>3. ASSUME NEW alb \in Albums, NEW m \in Members
      PROVE  /\ ~RejectAlbum(alb, m) /\ ~AddAssets(alb, m) /\ ~UpdateObservations(alb, m)
             /\ ~\E id \in seen[alb][m] : RemoveAsset(alb, m, id)
    BY DEF RejectAlbum, AddAssets, UpdateObservations, RemoveAsset, Abort, EndCycle
<1>4. ASSUME NEW alb \in Albums, NEW m \in Members, NEW a \in Assets
      PROVE  /\ ~Audit(m, a) /\ ~Prepare(alb, m, a) /\ ~LookUp(alb, m, a)
             /\ ~CleanupReplica(m, a)
    BY DEF Audit, Prepare, LookUp, CleanupReplica
<1>5. ~Apply /\ ~Post
    BY <1>1, <1>2, <1>3, <1>4 DEF Apply, Post
<1>6. CASE User \/ Scan
    BY <1>1, <1>6 DEF User, Scan, UserStep
<1>7. CASE Observe
    BY <1>2, <1>3, <1>7 DEF Observe
<1> QED
    BY <1>2, <1>5, <1>6, <1>7 DEF Next, Cycle

\* A listing does not teach the bridge an id that is on record already.
LEMMA ListKnows ==
    ASSUME Typed, OriginIds, NEW b \in Albums, NEW n \in Members, ListAlbum(b, n),
           NEW alb \in Albums, NEW m \in Members, NEW id \in obs[alb][m], Known(m, id)'
    PROVE  Known(m, id)
<1>1. rep \in [Members -> [Assets -> Replicas]] /\ id[1] \in Assets
    BY Shape DEF Typed, TypeOK, StoreTypeOK, Ids
<1>2. EnsureOrigins(n, AssetsOf(Unknown(b, n))) /\ Foreign(b, n) = {}
    BY DEF ListAlbum
<1>3. CASE m = n /\ id[1] \in AssetsOf(Unknown(b, n))
  <2>1. Owner[id[1]] = m
    BY <1>2, <1>3 DEF AssetsOf, Foreign
  <2> QED
    BY <2>1 DEF OriginIds, Known
<1>4. CASE ~(m = n /\ id[1] \in AssetsOf(Unknown(b, n)))
  <2>1. rep'[m][id[1]] = rep[m][id[1]]
    BY <1>1, <1>2, <1>4 DEF EnsureOrigins
  <2> QED
    BY <2>1 DEF Known
<1> QED
    BY <1>3, <1>4

\* The plan keeps up with the listings.
LEMMA PlanNext ==
    ASSUME Typed, Edits, Planned, [Next]_vars
    PROVE  AddsPlanned' /\ RemovesPlanned'
<1> SUFFICES ASSUME pc' = "observe"
             PROVE  AddsPlanned' /\ RemovesPlanned'
    BY DEF AddsPlanned, RemovesPlanned
<1>1. ASSUME NEW b \in Albums, NEW n \in Members, NEW x \in Assets, UserStep(b, n, x)
      PROVE  AddsPlanned' /\ RemovesPlanned'
  <2>1. UNCHANGED <<obs, rep, pc, visits, seen, checks, plan>>
    BY <1>1, UserEffect DEF sqlite, process
  <2>2. AddsPlanned'
    BY <2>1 DEF Planned, AddsPlanned
  <2>3. ASSUME NEW alb \in Albums, NEW m \in Members, NEW id \in obs[alb][m],
               ~InLibrary(m, id) \/ <<m, id[1]>> \in flicker
        PROVE  ~InLibrary(m, id)' \/ <<m, id[1]>> \in flicker'
    <3> SUFFICES ASSUME InLibrary(m, id)', ~InLibrary(m, id)
                 PROVE  <<m, id[1]>> \in flicker'
      BY <1>1, <2>3 DEF UserStep, UserAdd, UserRemove, UserTrash, UserRestore, UserDelete,
                        Import, Edit, history
    <3>1. id[1] \in Assets /\ id[2] \in Nat
      BY Shape, MembershipAssumption DEF Ids, Gens
    <3>2. copy'[m][id[1]].gen = id[2] /\ copy'[m][id[1]].st = "live"
      BY DEF InLibrary, Exists
    <3>3. id[2] <= copy[m][id[1]].gen /\ copy[m][id[1]].gen \in Nat
      BY <3>1, Shape DEF Edits, Ground, OldIds
    <3>4. copy'[m][id[1]].gen = copy[m][id[1]].gen /\ copy[m][id[1]].st # "none"
      BY <1>1, <3>1, <3>2, <3>3, UserEffect
    <3>5. copy[m][id[1]].st # "live"
      BY <3>2, <3>4 DEF InLibrary, Exists
    <3> QED
      BY <1>1, <2>1, <3>1, <3>2, <3>4, <3>5, UserRestores
  <2>4. RemovesPlanned'
    BY <2>1, <2>3 DEF Planned, RemovesPlanned, Known
  <2> QED
    BY <2>2, <2>4
<1>2. CASE StartRun
    BY <1>2 DEF StartRun, AddsPlanned, RemovesPlanned, Mirrors
<1>3. ASSUME NEW b \in Albums, NEW n \in Members, ListAlbum(b, n)
      PROVE  AddsPlanned' /\ RemovesPlanned'
  <2>1. /\ UNCHANGED <<copy, obs, flicker>> /\ pc = "observe" /\ checks = {}
        /\ visits' = visits \ {<<b, n>>}
    BY <1>3 DEF ListAlbum, immich, history
  <2>2. \A alb \in Albums, m \in Members :
            seen'[alb][m] = IF alb = b /\ m = n THEN Listing(b, n) ELSE seen[alb][m]
    BY <1>3, Shape DEF ListAlbum
  <2>3. /\ plan'.removes = plan.removes
        /\ \A alb \in Albums :
              plan'.adds[alb] = IF alb = b THEN plan.adds[b] \cup AssetsOf(Added(b, n))
                                           ELSE plan.adds[alb]
    <3>1. plan \in Plans /\ plan' = [plan EXCEPT !.adds[b] = @ \cup AssetsOf(Added(b, n))]
      BY <1>3 DEF ListAlbum, Typed, TypeOK, ProcessTypeOK
    <3>2. /\ plan'.adds = [plan.adds EXCEPT ![b] = @ \cup AssetsOf(Added(b, n))]
          /\ plan'.removes = plan.removes /\ plan.adds \in [Albums -> SUBSET Assets]
      BY <3>1 DEF Plans
    <3> QED
      BY <3>2
  <2>4. AddsPlanned'
    <3> SUFFICES ASSUME NEW alb \in Albums, NEW m \in Members, <<alb, m>> \notin visits',
                        NEW id \in seen'[alb][m], id \notin obs[alb][m]
                 PROVE  id[1] \in plan'.adds[alb]
      BY <2>1 DEF AddsPlanned
    <3>1. CASE alb = b /\ m = n
      <4>1. id \in Added(b, n)
        BY <2>2, <3>1 DEF Added
      <4> QED
        BY <2>3, <3>1, <4>1 DEF AssetsOf
    <3>2. CASE ~(alb = b /\ m = n)
      <4>1. <<alb, m>> \notin visits /\ id \in seen[alb][m]
        BY <2>1, <2>2, <3>2
      <4>2. id[1] \in plan.adds[alb]
        BY <2>1, <4>1 DEF Planned, AddsPlanned
      <4> QED
        BY <2>3, <4>2
    <3> QED
      BY <3>1, <3>2
  <2>5. RemovesPlanned'
    <3> SUFFICES ASSUME NEW alb \in Albums, NEW m \in Members, <<alb, m>> \notin visits',
                        NEW id \in obs[alb][m], id \notin seen'[alb][m],
                        Known(m, id)', InLibrary(m, id), <<m, id[1]>> \notin flicker
                 PROVE  <<alb, m, id>> \in checks' \/ id[1] \in plan'.removes[alb]
      BY <2>1 DEF RemovesPlanned, InLibrary, Exists
    <3>1. Known(m, id)
      BY <1>3, ListKnows DEF Planned
    <3>2. CASE alb = b /\ m = n
      <4>1. initialized[b]
        BY <3>2 DEF Edits, Ground, Blank
      <4> QED
        BY <1>3, <2>2, <3>1, <3>2, <4>1 DEF ListAlbum
    <3>3. CASE ~(alb = b /\ m = n)
      <4>1. <<alb, m>> \notin visits /\ id \notin seen[alb][m]
        BY <2>1, <2>2, <3>3
      <4> QED
        BY <2>1, <2>3, <3>1, <4>1 DEF Planned, RemovesPlanned
    <3> QED
      BY <3>2, <3>3
  <2> QED
    BY <2>4, <2>5
<1>4. ASSUME NEW c \in checks, CheckMissing(c[1], c[2], c[3])
      PROVE  AddsPlanned' /\ RemovesPlanned'
  <2>1. /\ UNCHANGED <<copy, obs, rep, pc, visits, seen, flicker>>
        /\ checks' = checks \ {<<c[1], c[2], c[3]>>}
    BY <1>4 DEF CheckMissing, immich, sqlite, history
  <2>2. c[1] \in Albums /\ c[2] \in Members /\ c[3] \in Ids
    BY Shape
  <2>3. /\ plan'.adds = plan.adds
        /\ \A alb \in Albums : plan.removes[alb] \subseteq plan'.removes[alb]
        /\ InLibrary(c[2], c[3]) => c[3][1] \in plan'.removes[c[1]]
    <3>1. plan \in Plans
      BY DEF Typed, TypeOK, ProcessTypeOK
    <3> QED
      BY <1>4, <2>2, <3>1 DEF CheckMissing, Plans
  <2>4. AddsPlanned'
    BY <2>1, <2>3 DEF Planned, AddsPlanned
  <2>5. RemovesPlanned'
    <3> SUFFICES ASSUME NEW alb \in Albums, NEW m \in Members, <<alb, m>> \notin visits,
                        NEW id \in obs[alb][m], id \notin seen[alb][m],
                        Known(m, id), InLibrary(m, id), <<m, id[1]>> \notin flicker
                 PROVE  <<alb, m, id>> \in checks' \/ id[1] \in plan'.removes[alb]
      BY <2>1 DEF RemovesPlanned, InLibrary, Exists, Known
    <3>1. <<alb, m, id>> \in checks \/ id[1] \in plan.removes[alb]
      BY <2>1 DEF Planned, RemovesPlanned
    <3>2. CASE <<alb, m, id>> = <<c[1], c[2], c[3]>>
      BY <2>3, <3>2
    <3>3. CASE <<alb, m, id>> # <<c[1], c[2], c[3]>>
      BY <2>1, <2>3, <3>1, <3>3
    <3> QED
      BY <3>2, <3>3
  <2> QED
    BY <2>4, <2>5
<1>5. ASSUME NEW a \in Assets, ConfirmOrigin(a)
      PROVE  AddsPlanned' /\ RemovesPlanned'
  <2>1. UNCHANGED <<copy, obs, rep, pc, visits, seen, checks, flicker>>
    BY <1>5 DEF ConfirmOrigin, immich, sqlite, history
  <2>2. plan'.adds = plan.adds /\ plan'.removes = plan.removes
    BY <1>5 DEF ConfirmOrigin, Typed, TypeOK, ProcessTypeOK, Plans
  <2> QED
    BY <2>1, <2>2 DEF Planned, AddsPlanned, RemovesPlanned, InLibrary, Exists, Known
<1>6. CASE UNCHANGED vars
  <2>1. UNCHANGED <<copy, obs, rep, pc, visits, seen, checks, plan, flicker>>
    BY <1>6 DEF vars, immich, sqlite, process, history
  <2> QED
    BY <2>1 DEF Planned, AddsPlanned, RemovesPlanned, InLibrary, Exists, Known
<1> QED
    BY <1>1, <1>2, <1>3, <1>4, <1>5, <1>6, ObserveSteps

\* Initially the records are of first ids, and nothing is observed.
LEMMA InitPlanned == Init => Planned
<1> SUFFICES ASSUME Init PROVE Planned
    OBVIOUS
<1>1. /\ pc = "idle"
      /\ obs = [alb \in Albums |-> [m \in Members |-> InitShared[alb] \X {1}]]
      /\ seen = NothingSeen
      /\ rep = [m \in Members |-> [a \in Assets |->
                  IF Settled(m, a) THEN [state |-> "ready", gen |-> 1, path |-> TRUE]
                                   ELSE NoReplica]]
    BY DEF Init
<1>2. OriginGen
  <2> SUFFICES ASSUME NEW a \in Assets
               PROVE  copy[Owner[a]][a].gen = 1
    BY DEF OriginGen
  <2>1. Owner[a] \in Members
    BY MembershipAssumption
  <2> QED
    BY <2>1 DEF Init
<1>3. OriginIds
  <2> SUFFICES ASSUME NEW alb \in Albums, NEW m \in Members,
                      NEW id \in obs[alb][m] \cup seen[alb][m]
               PROVE  id[2] = 1 /\ rep[m][id[1]].gen = 1
    BY DEF OriginIds
  <2>1. id \in InitShared[alb] \X {1}
    BY <1>1 DEF NothingSeen
  <2>2. id[1] \in Assets /\ Settled(m, id[1]) /\ id[2] = 1
    BY <2>1, MembershipAssumption DEF Settled
  <2> QED
    BY <1>1, <2>2
<1> QED
    BY <1>1, <1>2, <1>3 DEF Planned, AddsPlanned, RemovesPlanned

\* Planned is inductive.
LEMMA NextPlanned ==
    ASSUME Typed, Edits, Planned, [Next]_vars
    PROVE  Planned'
<1>1. OriginGen' /\ OriginIds'
    BY OriginNext DEF Planned
<1>2. AddsPlanned' /\ RemovesPlanned'
    BY PlanNext
<1> QED
    BY <1>1, <1>2 DEF Planned

\* Observation ends in the transaction of persistPlans.
LEMMA PersistingPersists ==
    ASSUME [Next]_vars, Persisting
    PROVE  PersistPlans
<1>1. pc = "observe" /\ pc' = "audit"
    BY DEF Persisting
<1>2. ~User /\ ~Scan
    BY <1>1, UsersApart DEF process
<1>3. ~StartRun /\ ~StartWork /\ ~CycleFault /\ ~UNCHANGED vars
    BY <1>1 DEF StartRun, StartWork, CycleFault, Abort, EndCycle, vars, process
<1>4. ~Apply
    BY <1>1 DEF Apply, Audit, AuditDone, Prepare, LookUp, AddAssets, UpdateObservations,
                RemoveAsset, ApplyDone
<1>5. ~Post
    BY <1>1 DEF Post, CleanupReplica, FinishCycle
<1>6. Observe
    BY <1>2, <1>3, <1>4, <1>5 DEF Next, Cycle
<1> QED
    BY <1>1, <1>6 DEF Observe, ListAlbum, RejectAlbum, CheckMissing, ConfirmOrigin, Abort, EndCycle

\* What users put in an album, and no one took out of Together, is decided.
LEMMA PersistAdds ==
    ASSUME Edits, Planned, PersistPlans, ~force,
           NEW alb \in Albums, NEW a \in Assets, NEW m \in Members, PutIn(alb, m, a),
           a \notin plan.gone, Origin(a).state # "owner_deleted",
           alb = Together \/ \A n \in Members : ~TakenOut(Together, n, a),
           \A n \in Members : <<n, a>> \notin flicker
    PROVE  a \in membership'[alb] /\ a \in membership'[Together]
<1>1. pc = "observe" /\ visits = {} /\ membership' = Decision /\ Together \in Albums
    BY MembershipAssumption DEF PersistPlans, AllObserved
<1>2. a \in plan.adds[alb]
    BY <1>1 DEF PutIn, Planned, AddsPlanned
<1>3. a \in Observed(alb)
    BY <1>2 DEF Observed
<1>4. alb = Together \/ a \notin Overruled
  <2>1. a \in plan.removes[Together] => \E n \in Members : TakenOut(Together, n, a)
    BY <1>1 DEF Edits, Explained, RemovesExplained
  <2> QED
    BY <2>1 DEF Overruled
<1>5. a \in Resolved[alb] /\ a \in Resolved[Together]
    BY <1>1, <1>3, <1>4 DEF Resolved
<1>6. a \notin Deleted
    BY DEF Deleted
<1> QED
    BY <1>1, <1>5, <1>6 DEF Decision

\* A user's addition that the listing shows is shared in that album and in
\* Together by the discovery after a completed cycle, whatever else goes on:
\* only a removal from Together, the loss of the original or a restoration
\* from trash during the observation can stand in its way (observeAlbum,
\* resolveTogether, resolveOwnerDeletions).
THEOREM AdditionsHonoured == Spec => AdditionHonoured
<1>1. Edits /\ Planned /\ [Next]_vars =>
          [Persisting /\ ~force => \A alb \in Albums, a \in Assets :
              /\ \E m \in Members : PutIn(alb, m, a)
              /\ a \notin plan.gone /\ Origin(a).state # "owner_deleted"
              /\ alb = Together \/ \A m \in Members : ~TakenOut(Together, m, a)
              /\ \A m \in Members : <<m, a>> \notin flicker
              => a \in membership'[alb] /\ a \in membership'[Together]]_vars
    BY PersistingPersists, PersistAdds
<1>2. Init => Typed /\ Edits /\ Planned
    BY InitTyped, InitEdits, InitPlanned
<1>3. Typed /\ Edits /\ Planned /\ [Next]_vars => Typed' /\ Edits' /\ Planned'
    BY NextTyped, NextEdits, NextPlanned
<1> QED
    BY <1>1, <1>2, <1>3, PTL DEF Spec, AdditionHonoured

\* What a user took out of Together, and no one put there, is not decided.
LEMMA PersistRemoves ==
    ASSUME Additions, Planned, PersistPlans, ~force, NEW a \in Assets
    PROVE  RemovalStands(a)
<1>1. /\ pc = "observe" /\ visits = {} /\ checks = {} /\ membership' = Decision
      /\ Together \in Albums
    BY MembershipAssumption DEF PersistPlans, AllObserved
<1> SUFFICES ASSUME NEW m \in Members, NEW id \in Taken(Together, m, a),
                    Known(m, id), Exists(m, a, id[2]),
                    copy[m][a].st = "live", <<m, a>> \notin flicker,
                    \A n \in Members : ~PutIn(Together, n, a),
                    NEW alb \in Albums
             PROVE  a \notin membership'[alb]
    BY DEF RemovalStands
<1>2. id \in obs[Together][m] /\ id \notin seen[Together][m] /\ id[1] = a
    BY DEF Taken
<1>3. a \in plan.removes[Together]
    BY <1>1, <1>2 DEF Planned, RemovesPlanned, InLibrary
<1>4. a \notin plan.adds[Together]
    BY <1>1 DEF Additions, AddsExplained
<1>5. a \in Overruled /\ a \notin Observed(Together)
    BY <1>3, <1>4 DEF Overruled, Observed
<1>6. a \notin Resolved[alb]
    BY <1>5 DEF Resolved
<1> QED
    BY <1>1, <1>6 DEF Decision

\* A user's removal from Together ends the sharing everywhere at the discovery
\* after a completed cycle, unless someone puts the asset in Together at the
\* same time, however many cycles were aborted before: what they left unrecorded
\* does not overrule it (observeAlbum, resolveTogether). Without exception, as
\* long as nobody uses the trash.
THEOREM RemovalsStand ==
    Spec => [][TrashUnused /\ Persisting /\ ~force => \A a \in Assets : RemovalStands(a)]_vars
<1>1. Typed /\ (TrashUnused => Additions) /\ Planned /\ [Next]_vars =>
          [TrashUnused /\ Persisting /\ ~force => \A a \in Assets : RemovalStands(a)]_vars
    BY PersistingPersists, PersistRemoves
<1>2. Init => Typed /\ Edits /\ (TrashUnused => Additions) /\ Planned
    BY InitTyped, InitEdits, InitAdditions, InitPlanned
<1>3. Typed /\ Edits /\ (TrashUnused => Additions) /\ Planned /\ [Next]_vars =>
          Typed' /\ Edits' /\ (TrashUnused => Additions)' /\ Planned'
    BY NextTyped, NextEdits, NextAdditions, NextPlanned
<1> QED
    BY <1>1, <1>2, <1>3, PTL DEF Spec

-----------------------------------------------------------------------------
(* Deletion waits a polling interval: no shared asset's copy is up for       *)
(* removal when a completed cycle ends.                                      *)

InRemoval(m, a) == rep[m][a].state \in RemovalStates

NothingTried == pc \in {"idle", "observe"} => tried = {}

\* An album that was never discovered shares nothing.
Undiscovered == \A alb \in Albums : ~initialized[alb] => membership[alb] = {}

\* Whatever this cycle prepared has left its removal state.
Prepared ==
    pc \in {"audit", "apply", "write"} => \A m \in Members, a \in Assets :
        {<<"prepare", m, a>>, <<"failed", m, a>>} \cap tried # {} => ~InRemoval(m, a)

\* So has everything shared in a mirror that was visited.
Visited ==
    pc \in {"apply", "write"} => \A alb \in Albums, m \in Members :
        initialized[alb] /\ (<<alb, m>> \notin visits \/ (pc = "write" /\ Turn(<<alb, m>>)))
            => \A a \in membership[alb] : ~InRemoval(m, a)

\* And at the end everything shared, until the next decision.
SharedIsKept ==
    pc = "post" \/ (pc \in {"idle", "observe"} /\ ~force) =>
        \A alb \in Albums, m \in Members : initialized[alb] =>
            \A a \in membership[alb] : ~InRemoval(m, a)

\* What this cycle stopped sharing is not up for removal before it ends.
DroppedIsKept == ~force => \A m \in Members, a \in dropped : ~InRemoval(m, a)

Grace == NothingTried /\ Undiscovered /\ Prepared /\ Visited /\ SharedIsKept /\ DroppedIsKept

\* A call that verifies, repairs or links a copy takes its row out of the
\* removal states, unless the original is in the trash.
LEMMA EnsurePrepares ==
    ASSUME Typed, NoTrash, NEW m \in Members, NEW a \in Assets,
           EnsureReplica(m, a) \/ EnsureError(m, a)
    PROVE  /\ rep'[m][a].state \notin RemovalStates
           /\ \A n \in Members, b \in Assets : InRemoval(n, b)' => InRemoval(n, b)
<1>1. rep \in [Members -> [Assets -> Replicas]] /\ rep[m][a] \in Replicas
    BY DEF Typed, TypeOK, StoreTypeOK
<1>2. copy[Owner[a]][a].st # "trashed"
    BY MembershipAssumption DEF NoTrash
<1>3. \/ rep' = rep /\ WasReady(m, a)
      \/ \E st \in {"source_missing", "ready", "api_error"} : rep' = [rep EXCEPT ![m][a].state = st]
      \/ \E st \in {"pending_import", "error"} :
            rep' = [rep EXCEPT ![m][a] = [state |-> st, gen |-> 0, path |-> TRUE]]
    BY <1>2, Zenon DEF EnsureReplica, EnsureError
<1>4. rep'[m][a].state \notin RemovalStates
    BY <1>1, <1>3 DEF WasReady, RemovalStates, Replicas
<1>5. \A n \in Members, b \in Assets : ~(n = m /\ b = a) => rep'[n][b] = rep[n][b]
    BY <1>1, <1>3
<1> QED
    BY <1>4, <1>5 DEF InRemoval

\* Only MarkUnused puts a row up for removal, and only of an unshared asset.
LEMMA RemovalFrom ==
    ASSUME Typed, NoTrash, [Next]_vars, NEW m \in Members, NEW a \in Assets, InRemoval(m, a)'
    PROVE  InRemoval(m, a) \/ (FinishCycle /\ Unshared(a))
<1>1. rep \in [Members -> [Assets -> Replicas]] /\ rep[m][a] \in Replicas
    BY DEF Typed, TypeOK, StoreTypeOK
<1>2. CASE rep' = rep
    BY <1>2 DEF InRemoval
<1>3. CASE User \/ Scan
    BY <1>2, <1>3, UsersApart DEF sqlite
<1>4. CASE StartRun \/ StartWork \/ CycleFault \/ UNCHANGED vars
    BY <1>2, <1>4 DEF StartRun, StartWork, CycleFault, vars, sqlite
<1>5. CASE Observe
  <2>1. ASSUME NEW n \in Members, NEW new, EnsureOrigins(n, new)
        PROVE  InRemoval(m, a)
    <3>1. \/ rep'[m][a] = rep[m][a]
          \/ rep'[m][a] = [state |-> "ready", gen |-> 1, path |-> TRUE]
      BY <1>1, <2>1 DEF EnsureOrigins
    <3> QED
      BY <3>1 DEF InRemoval, RemovalStates
  <2>2. ASSUME NEW alb \in Albums, NEW n \in Members, ListAlbum(alb, n) \/ RejectAlbum(alb, n)
        PROVE  InRemoval(m, a)
    BY <2>1, <2>2 DEF ListAlbum, RejectAlbum
  <2>3. CASE \/ \E c \in checks : CheckMissing(c[1], c[2], c[3])
             \/ \E b \in Assets : ConfirmOrigin(b)
    BY <1>2, <2>3 DEF CheckMissing, ConfirmOrigin, sqlite
  <2>4. CASE PersistPlans
    <3>1. rep'[m][a].state = PersistedState(m, a)
      BY <1>1, <2>4 DEF PersistPlans, Replicas
    <3>2. PersistedState(m, a) \in {"owner_deleted", "ready", "repair_pending", rep[m][a].state}
      BY DEF PersistedState
    <3> QED
      BY <3>1, <3>2 DEF InRemoval, RemovalStates
  <2> QED
    BY <1>5, <2>2, <2>3, <2>4 DEF Observe
<1>6. CASE Apply
  <2>1. Together \in Albums
    BY MembershipAssumption
  <2>2. ASSUME NEW alb \in Albums, NEW n \in Members, NEW b \in Assets,
               Audit(n, b) \/ Prepare(alb, n, b)
        PROVE  InRemoval(m, a)
    BY <2>2, EnsurePrepares DEF Audit, Prepare
  <2>3. ASSUME NEW alb \in Albums, NEW n \in Members, NEW b \in Assets, LookUp(alb, n, b)
        PROVE  InRemoval(m, a)
    <3>1. \/ rep' = rep
          \/ rep' = [rep EXCEPT ![n][b].state = "ready", ![n][b].gen = copy[n][b].gen]
      BY <2>3, Zenon DEF LookUp
    <3>2. CASE rep' = [rep EXCEPT ![n][b].state = "ready", ![n][b].gen = copy[n][b].gen]
      <4>1. CASE n = m /\ b = a
        <5>1. rep'[m][a].state = "ready"
          BY <1>1, <3>2, <4>1 DEF Replicas
        <5> QED
          BY <5>1 DEF InRemoval, RemovalStates
      <4>2. CASE ~(n = m /\ b = a)
        <5>1. rep'[m][a] = rep[m][a]
          BY <1>1, <3>2, <4>2
        <5> QED
          BY <5>1 DEF InRemoval
      <4> QED
        BY <4>1, <4>2
    <3> QED
      BY <3>1, <3>2 DEF InRemoval
  <2>4. ASSUME NEW alb \in Albums, NEW n \in Members,
               \/ AddAssets(alb, n) \/ UpdateObservations(alb, n)
               \/ \E id \in seen[alb][n] : RemoveAsset(alb, n, id)
        PROVE  InRemoval(m, a)
    <3>1. rep' = rep
      BY <2>4 DEF AddAssets, UpdateObservations, RemoveAsset, sqlite
    <3> QED
      BY <3>1 DEF InRemoval
  <2>5. CASE AuditDone \/ ApplyDone
    BY <1>2, <2>5 DEF AuditDone, ApplyDone, sqlite
  <2> QED
    BY <1>6, <2>1, <2>2, <2>3, <2>4, <2>5 DEF Apply
<1>7. CASE Post
  <2>1. ASSUME NEW n \in Members, NEW b \in Assets, CleanupReplica(n, b)
        PROVE  InRemoval(m, a)
    <3>1. InRemoval(n, b)
      BY <2>1 DEF CleanupReplica, ToClean, InRemoval
    <3>2. \/ rep' = rep
          \/ rep' = [rep EXCEPT ![n][b].state = "deleting", ![n][b].gen = copy[n][b].gen]
          \/ rep' = [rep EXCEPT ![n][b] = NoReplica]
      BY <2>1, Zenon DEF CleanupReplica, ForgetCopy
    <3>3. ~(n = m /\ b = a) => rep'[m][a] = rep[m][a]
      BY <1>1, <3>2
    <3> QED
      BY <3>1, <3>3 DEF InRemoval
  <2>2. CASE FinishCycle
    <3>1. rep'[m][a] = rep[m][a] \/ Unshared(a)
      BY <2>2 DEF FinishCycle, MarkUnused
    <3> QED
      BY <2>2, <3>1 DEF InRemoval
  <2> QED
    BY <1>7, <2>1, <2>2 DEF Post
<1> QED
    BY <1>3, <1>4, <1>5, <1>6, <1>7 DEF Next, Cycle

\* Users, crawls, and steps within a phase.
LEMMA QuietGrace ==
    ASSUME Grace, UNCHANGED <<pc, visits, tried, force, dropped, membership, initialized>>,
           \A m \in Members, a \in Assets : InRemoval(m, a)' => InRemoval(m, a),
           \A alb \in Albums : membership[alb] \subseteq Assets, dropped \subseteq Assets
    PROVE  Grace'
<1>1. NothingTried' /\ Undiscovered'
    BY DEF Grace, NothingTried, Undiscovered
<1>2. Prepared'
    BY DEF Grace, Prepared
<1>3. Visited'
  <2>1. \A alb \in Albums, m \in Members : Turn(<<alb, m>>)' <=> Turn(<<alb, m>>)
    BY DEF Turn, Before
  <2> QED
    BY <2>1 DEF Grace, Visited
<1>4. SharedIsKept' /\ DroppedIsKept'
    BY DEF Grace, SharedIsKept, DroppedIsKept
<1> QED
    BY <1>1, <1>2, <1>3, <1>4 DEF Grace

\* An aborted cycle promises nothing.
LEMMA AbortGrace ==
    ASSUME Grace, Abort, UNCHANGED <<membership, initialized>>
    PROVE  Grace'
    BY DEF Abort, EndCycle, Grace, NothingTried, Undiscovered, Prepared, Visited, SharedIsKept,
           DroppedIsKept

\* What was decided may be dropped in this cycle, and was kept by the last.
LEMMA PersistGrace ==
    ASSUME Typed, NoTrash, Grace, [Next]_vars, PersistPlans
    PROVE  Grace'
<1>1. /\ pc = "observe" /\ pc' = "audit" /\ initialized' = [alb \in Albums |-> TRUE]
      /\ dropped' = {a \in Assets : a \in membership[Together] \ Decision[Together]}
      /\ tried' = tried /\ force' = force /\ Together \in Albums /\ tried = {}
    BY MembershipAssumption DEF PersistPlans, AllObserved, Grace, NothingTried
<1>2. ~FinishCycle
    BY <1>1 DEF FinishCycle
<1>3. DroppedIsKept'
  <2> SUFFICES ASSUME ~force, NEW m \in Members, NEW a \in Assets, a \in membership[Together]
               PROVE  ~InRemoval(m, a)'
    BY <1>1 DEF DroppedIsKept
  <2>1. initialized[Together]
    BY <1>1 DEF Grace, Undiscovered
  <2>2. ~InRemoval(m, a)
    BY <1>1, <2>1 DEF Grace, SharedIsKept
  <2> QED
    BY <1>2, <2>2, RemovalFrom
<1> QED
    BY <1>1, <1>3 DEF Grace, NothingTried, Undiscovered, Prepared, Visited, SharedIsKept

\* A call for one copy.
LEMMA CallGrace ==
    ASSUME Typed, NoTrash, Grace, NEW alb \in Albums, NEW m \in Members, NEW a \in Assets,
           Audit(m, a) \/ Prepare(alb, m, a) \/ LookUp(alb, m, a), [Next]_vars
    PROVE  Grace'
<1>1. /\ UNCHANGED <<pc, visits, force, dropped, membership, initialized>>
      /\ pc \in {"audit", "apply"}
    BY DEF Audit, Prepare, LookUp, history
<1>2. ~FinishCycle
    BY <1>1 DEF FinishCycle
<1>3. \A n \in Members, b \in Assets : InRemoval(n, b)' => InRemoval(n, b)
    BY <1>2, RemovalFrom
<1>4. /\ \A c \in Albums : membership[c] \subseteq Assets
      /\ dropped \subseteq Assets
    BY Shape DEF Typed, TypeOK, HistoryTypeOK
<1>5. Prepared'
  <2>1. CASE Audit(m, a) \/ Prepare(alb, m, a)
    <3>1. /\ tried' \subseteq tried \cup {<<w, m, a>> : w \in Work}
          /\ ~InRemoval(m, a)'
      BY <2>1, EnsurePrepares DEF Audit, Prepare, Work, InRemoval
    <3> SUFFICES ASSUME NEW n \in Members, NEW b \in Assets,
                        {<<"prepare", n, b>>, <<"failed", n, b>>} \cap tried' # {}
                 PROVE  ~InRemoval(n, b)'
      BY <1>1 DEF Prepared
    <3>2. CASE n = m /\ b = a
      BY <3>1, <3>2
    <3>3. CASE ~(n = m /\ b = a)
      <4>1. {<<"prepare", n, b>>, <<"failed", n, b>>} \cap tried # {}
        BY <3>1, <3>3
      <4> QED
        BY <1>1, <1>3, <4>1 DEF Grace, Prepared
    <3> QED
      BY <3>2, <3>3
  <2>2. CASE LookUp(alb, m, a)
    <3>1. tried' = tried \cup {<<"lookup", m, a>>}
      BY <2>2 DEF LookUp
    <3>2. \A n \in Members, b \in Assets :
              {<<"prepare", n, b>>, <<"failed", n, b>>} \cap tried'
                  = {<<"prepare", n, b>>, <<"failed", n, b>>} \cap tried
      BY <3>1
    <3> QED
      BY <1>1, <1>3, <3>2 DEF Grace, Prepared
  <2> QED
    BY <2>1, <2>2
<1>6. NothingTried' /\ Undiscovered'
    BY <1>1 DEF Grace, NothingTried, Undiscovered
<1>7. Visited'
  <2>1. \A c \in Albums, n \in Members : Turn(<<c, n>>)' <=> Turn(<<c, n>>)
    BY <1>1 DEF Turn, Before
  <2> QED
    BY <1>1, <1>3, <1>4, <2>1 DEF Grace, Visited
<1>8. SharedIsKept' /\ DroppedIsKept'
    BY <1>1, <1>3, <1>4 DEF Grace, SharedIsKept, DroppedIsKept
<1> QED
    BY <1>5, <1>6, <1>7, <1>8 DEF Grace

\* A mirror is visited when nothing is left to prepare for it.
LEMMA WriteGrace ==
    ASSUME Typed, Grace, NEW alb \in Albums, NEW m \in Members,
           \/ AddAssets(alb, m) \/ UpdateObservations(alb, m)
           \/ \E id \in seen[alb][m] : RemoveAsset(alb, m, id)
    PROVE  Grace'
<1>1. UNCHANGED <<membership, initialized, rep>>
    BY DEF AddAssets, UpdateObservations, RemoveAsset, sqlite
<1>2. CASE Abort
    BY <1>1, <1>2, AbortGrace
<1>3. CASE ~Abort
  <2>1. UNCHANGED <<tried, force, dropped>> /\ pc \in {"apply", "write"} /\ pc' \in {"apply", "write"}
    BY <1>3 DEF AddAssets, UpdateObservations, RemoveAsset
  <2>2. NothingTried' /\ Undiscovered' /\ SharedIsKept'
    BY <1>1, <2>1 DEF Grace, NothingTried, Undiscovered, SharedIsKept
  <2>3. Prepared' /\ DroppedIsKept'
    BY <1>1, <2>1 DEF Grace, Prepared, DroppedIsKept, InRemoval
  <2>4. \A c \in Albums, n \in Members :
            /\ (c = alb /\ n = m) \/ <<c, n>> \notin visits
            /\ initialized[c]
            => \A a \in membership[c] : ~InRemoval(n, a)
    <3>1. Turn(<<alb, m>>)
      BY DEF AddAssets, UpdateObservations, RemoveAsset
    <3>2. CASE pc = "write"
      BY <2>1, <3>1, <3>2 DEF Grace, Visited
    <3>3. CASE AddAssets(alb, m)
      <4>1. ToPrepare(alb, m) = {} /\ pc = "apply"
        BY <3>3 DEF AddAssets
      <4>2. ASSUME NEW a \in membership[alb]
            PROVE  ~InRemoval(m, a)
        <5>1. a \in Assets
          BY Shape
        <5>2. CASE {<<"prepare", m, a>>, <<"failed", m, a>>} \cap tried = {}
          BY <4>1, <5>2 DEF ToPrepare, Ready, InRemoval, RemovalStates
        <5> QED
          BY <4>1, <5>1, <5>2 DEF Grace, Prepared
      <4> QED
        BY <4>1, <4>2 DEF Grace, Visited
    <3> QED
      BY <3>2, <3>3 DEF UpdateObservations, RemoveAsset
  <2>5. Visited'
    <3>1. \/ pc' = "write" /\ visits' = visits /\ Turn(<<alb, m>>)
          \/ pc' = "apply" /\ visits' = visits \ {<<alb, m>>}
      BY <1>3 DEF AddAssets, UpdateObservations, RemoveAsset
    <3>2. ASSUME NEW c \in Albums, NEW n \in Members,
                 <<c, n>> \notin visits' \/ (pc' = "write" /\ Turn(<<c, n>>)')
          PROVE  (c = alb /\ n = m) \/ <<c, n>> \notin visits
      <4>1. CASE <<c, n>> \notin visits'
        BY <3>1, <4>1
      <4>2. CASE pc' = "write" /\ Turn(<<c, n>>)'
        <5>1. Turn(<<c, n>>) /\ Turn(<<alb, m>>)
          BY <2>1, <3>1, <4>2 DEF Turn, Before
        <5>2. <<c, n>> \in Mirrors /\ <<alb, m>> \in Mirrors
          BY DEF Mirrors
        <5> QED
          BY <5>1, <5>2, OneTurn
      <4> QED
        BY <3>2, <4>1, <4>2
    <3> SUFFICES ASSUME NEW c \in Albums, NEW n \in Members, initialized[c],
                        <<c, n>> \notin visits' \/ (pc' = "write" /\ Turn(<<c, n>>)'),
                        NEW a \in membership[c]
                 PROVE  ~InRemoval(n, a)'
      BY <1>1 DEF Visited
    <3>3. ~InRemoval(n, a)
      BY <2>4, <3>2
    <3> QED
      BY <1>1, <3>3 DEF InRemoval
  <2> QED
    BY <2>2, <2>3, <2>5 DEF Grace
<1> QED
    BY <1>2, <1>3

\* Cleanup takes no shared asset, and nothing this cycle dropped.
LEMMA CleanupGrace ==
    ASSUME Typed, NoTrash, Grace, [Next]_vars, NEW m \in Members, NEW a \in Assets,
           CleanupReplica(m, a)
    PROVE  Grace'
<1>1. UNCHANGED <<pc, visits, force, dropped, membership, initialized>> /\ pc = "post"
    BY DEF CleanupReplica, history
<1>2. ~FinishCycle
    BY <1>1, Zenon DEF CleanupReplica, FinishCycle, EndCycle
<1>3. \A n \in Members, b \in Assets : InRemoval(n, b)' => InRemoval(n, b)
    BY <1>2, RemovalFrom
<1>4. /\ \A c \in Albums : membership[c] \subseteq Assets
      /\ dropped \subseteq Assets
    BY Shape DEF Typed, TypeOK, HistoryTypeOK
<1> QED
    BY <1>1, <1>3, <1>4 DEF Grace, NothingTried, Undiscovered, Prepared, Visited, SharedIsKept,
                            DroppedIsKept

\* The cycle ends: MarkUnused takes no shared asset.
LEMMA FinishGrace ==
    ASSUME Typed, NoTrash, Grace, SharingConsistent, [Next]_vars, FinishCycle
    PROVE  Grace'
<1>1. /\ pc = "post" /\ pc' = "idle" /\ tried' = {} /\ dropped' = {}
      /\ UNCHANGED <<membership, initialized>>
    BY DEF FinishCycle, EndCycle
<1>2. SharedIsKept'
  <2> SUFFICES ASSUME NEW alb \in Albums, NEW m \in Members, initialized[alb],
                      NEW a \in membership[alb]
               PROVE  ~InRemoval(m, a)'
    BY <1>1 DEF SharedIsKept
  <2>1. a \in Assets
    BY Shape
  <2>2. ~InRemoval(m, a)
    BY <1>1 DEF Grace, SharedIsKept
  <2>3. ~Unshared(a)
    BY DEF SharingConsistent, Unshared
  <2> QED
    BY <2>1, <2>2, <2>3, RemovalFrom
<1> QED
    BY <1>1, <1>2 DEF Grace, NothingTried, Undiscovered, Prepared, Visited, DroppedIsKept

\* A cycle starts, or goes on to its next phase.
LEMMA PhaseGrace ==
    ASSUME Typed, NoTrash, Grace, [Next]_vars,
           \/ StartRun \/ StartWork \/ AuditDone \/ ApplyDone
           \/ \E alb \in Albums, m \in Members : ListAlbum(alb, m)
    PROVE  Grace'
<1>1. /\ UNCHANGED <<tried, force, dropped, membership, initialized>>
      /\ ~FinishCycle
    BY DEF StartRun, StartWork, AuditDone, ApplyDone, ListAlbum, FinishCycle, sqlite, history
<1>2. \A n \in Members, b \in Assets : InRemoval(n, b)' => InRemoval(n, b)
    BY <1>1, RemovalFrom
<1>3. /\ \A c \in Albums : membership[c] \subseteq Assets
      /\ dropped \subseteq Assets
    BY Shape DEF Typed, TypeOK, HistoryTypeOK
<1>4. Undiscovered' /\ DroppedIsKept'
    BY <1>1, <1>2, <1>3 DEF Grace, Undiscovered, DroppedIsKept
<1>5. CASE StartRun \/ \E alb \in Albums, m \in Members : ListAlbum(alb, m)
  <2>1. pc \in {"idle", "observe"} /\ pc' = "observe"
    BY <1>5 DEF StartRun, ListAlbum
  <2> QED
    BY <1>1, <1>2, <1>3, <1>4, <2>1 DEF Grace, NothingTried, Prepared, Visited, SharedIsKept
<1>6. CASE StartWork
  <2>1. pc = "idle" /\ pc' = "audit" /\ tried = {}
    BY <1>6 DEF StartWork, Grace, NothingTried
  <2> QED
    BY <1>1, <1>4, <2>1 DEF Grace, NothingTried, Prepared, Visited, SharedIsKept
<1>7. CASE AuditDone
  <2>1. pc = "audit" /\ pc' = "apply" /\ visits' = {v \in Mirrors : initialized[v[1]]}
    BY <1>7 DEF AuditDone
  <2>2. Visited'
    BY <1>1, <2>1 DEF Visited, Mirrors
  <2>3. Prepared'
    BY <1>1, <1>2, <2>1 DEF Grace, Prepared
  <2> QED
    BY <1>4, <2>1, <2>2, <2>3 DEF Grace, NothingTried, SharedIsKept
<1>8. CASE ApplyDone
  <2>1. pc = "apply" /\ pc' = "post" /\ visits = {}
    BY <1>8 DEF ApplyDone
  <2>2. SharedIsKept'
    BY <1>1, <1>2, <1>3, <2>1 DEF Grace, Visited, SharedIsKept
  <2> QED
    BY <1>4, <2>1, <2>2 DEF Grace, NothingTried, Prepared, Visited
<1> QED
    BY <1>5, <1>6, <1>7, <1>8

\* At first nothing is up for removal.
LEMMA InitGrace == Init => Grace
<1> SUFFICES ASSUME Init PROVE Grace
    OBVIOUS
<1>1. pc = "idle" /\ tried = {} /\ dropped = {} /\ force = TRUE
    BY DEF Init
<1>2. Undiscovered
    BY MembershipAssumption DEF Init, Undiscovered
<1> QED
    BY <1>1, <1>2 DEF Grace, NothingTried, Prepared, Visited, SharedIsKept, DroppedIsKept

\* Grace is inductive while the trash is out of use.
LEMMA NextGrace ==
    ASSUME Typed, TrashUnused => Additions /\ Grace, SharingConsistent, [Next]_vars
    PROVE  (TrashUnused => Grace)'
<1> SUFFICES ASSUME TrashUnused'
             PROVE  Grace'
    OBVIOUS
<1>1. NoTrash /\ Grace
    BY TrashGrows DEF Additions
<1>2. /\ \A c \in Albums : membership[c] \subseteq Assets
      /\ dropped \subseteq Assets
    BY Shape DEF Typed, TypeOK, HistoryTypeOK
<1>3. ASSUME rep' = rep
      PROVE  \A m \in Members, a \in Assets : InRemoval(m, a)' => InRemoval(m, a)
    BY <1>3 DEF InRemoval
<1>4. CASE User \/ Scan \/ UNCHANGED vars
  <2>1. UNCHANGED <<pc, visits, tried, force, dropped, membership, initialized, rep>>
    BY <1>4, UsersApart DEF vars, sqlite, process, history
  <2> QED
    BY <1>1, <1>2, <1>3, <2>1, QuietGrace
<1>5. CASE StartRun \/ StartWork
    BY <1>1, <1>5, PhaseGrace
<1>6. CASE CycleFault
  <2>1. Abort /\ UNCHANGED <<membership, initialized>>
    BY <1>6 DEF CycleFault, sqlite
  <2> QED
    BY <1>1, <2>1, AbortGrace
<1>7. CASE Observe
  <2>1. ASSUME NEW alb \in Albums, NEW m \in Members, ListAlbum(alb, m)
        PROVE  Grace'
    BY <1>1, <2>1, PhaseGrace
  <2>2. ASSUME NEW alb \in Albums, NEW m \in Members, RejectAlbum(alb, m)
        PROVE  Grace'
    <3>1. Abort /\ UNCHANGED <<membership, initialized>>
      BY <2>2 DEF RejectAlbum
    <3> QED
      BY <1>1, <3>1, AbortGrace
  <2>3. CASE \/ \E c \in checks : CheckMissing(c[1], c[2], c[3])
             \/ \E a \in Assets : ConfirmOrigin(a)
    <3>1. UNCHANGED <<pc, visits, tried, force, dropped, membership, initialized, rep>>
      BY <2>3 DEF CheckMissing, ConfirmOrigin, sqlite, history
    <3> QED
      BY <1>1, <1>2, <1>3, <3>1, QuietGrace
  <2>4. CASE PersistPlans
    BY <1>1, <2>4, PersistGrace
  <2> QED
    BY <1>7, <2>1, <2>2, <2>3, <2>4 DEF Observe
<1>8. CASE Apply
  <2>1. Together \in Albums
    BY MembershipAssumption
  <2>2. ASSUME NEW alb \in Albums, NEW m \in Members, NEW a \in Assets,
               Audit(m, a) \/ Prepare(alb, m, a) \/ LookUp(alb, m, a)
        PROVE  Grace'
    BY <1>1, <2>2, CallGrace
  <2>3. ASSUME NEW alb \in Albums, NEW m \in Members,
               \/ AddAssets(alb, m) \/ UpdateObservations(alb, m)
               \/ \E id \in seen[alb][m] : RemoveAsset(alb, m, id)
        PROVE  Grace'
    BY <1>1, <2>3, WriteGrace
  <2>4. CASE AuditDone \/ ApplyDone
    BY <1>1, <2>4, PhaseGrace
  <2> QED
    BY <1>8, <2>1, <2>2, <2>3, <2>4 DEF Apply
<1>9. CASE Post
    BY <1>1, <1>9, CleanupGrace, FinishGrace DEF Post
<1> QED
    BY <1>4, <1>5, <1>6, <1>7, <1>8, <1>9 DEF Next, Cycle

\* A newly removed sharing reference gets a full polling interval to be added
\* again: after a completed cycle, the next one deletes no copy of an asset
\* that it stopped sharing itself (applyPlans, cleanupUnusedReplicas,
\* MarkUnused). As long as nobody uses the trash.
THEOREM GraceKept == Spec => DeletionGrace
<1>1. Typed /\ (TrashUnused => Grace) /\ [Next]_vars =>
          [TrashUnused /\ ~force => \A m \in Members, a \in Assets :
              BridgeDeletes(m, a) => a \notin dropped]_vars
  <2> SUFFICES ASSUME Typed, Grace, [Next]_vars, ~force,
                      NEW m \in Members, NEW a \in Assets, BridgeDeletes(m, a)
               PROVE  a \notin dropped
    OBVIOUS
  <2>1. InRemoval(m, a)
    BY OnlyCleanupDeletes DEF CleanupReplica, ToClean, InRemoval
  <2> QED
    BY <2>1 DEF Grace, DroppedIsKept
<1>2. Init => Typed /\ Edits /\ (TrashUnused => Additions) /\ (TrashUnused => Grace)
    BY InitTyped, InitEdits, InitAdditions, InitGrace
<1>3. /\ Typed /\ Edits /\ (TrashUnused => Additions) /\ (TrashUnused => Grace)
      /\ SharingConsistent /\ [Next]_vars
      => Typed' /\ Edits' /\ (TrashUnused => Additions)' /\ (TrashUnused => Grace)'
    BY NextTyped, NextEdits, NextAdditions, NextGrace
<1>4. Spec => []SharingConsistent
    BY SharingIsConsistent
<1> QED
    BY <1>1, <1>2, <1>3, <1>4, PTL DEF Spec, DeletionGrace
=============================================================================
