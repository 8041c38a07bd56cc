----------------------------- MODULE Membership -----------------------------
(***************************************************************************)
(* The reconciliation cycle of the family bridge: how user edits made in   *)
(* every member's Immich albums become one shared membership in SQLite,    *)
(* and how that membership is written back to the members' mirror albums.  *)
(*                                                                         *)
(* Covered: Run and Work (internal/reconcile/reconcile.go), observeAlbum,  *)
(* resolveTogether, resolveOwnerDeletions and persistPlans (membership.go),*)
(* the audit, preparation, import lookup, cleanup and MarkUnused of the    *)
(* replicas, and the scheduling flag of cmd/familybridge/main.go.          *)
(*                                                                         *)
(* Not covered here: covers, names, stacks, sidecars, batch limits and     *)
(* cursors, registration, unmirroring and restoration of albums.           *)
(*                                                                         *)
(* Crashes, cancelled contexts and API errors all end a cycle in the same  *)
(* way: its in-memory plan is lost and the next cycle is a full discovery. *)
(*                                                                         *)
(* A definition marked Mutant is a faulty variant of the one below it. The *)
(* specification does not use it; it shows that a property can fail.       *)
(***************************************************************************)
EXTENDS Naturals, FiniteSets

CONSTANTS
    Members,        \* configured family members
    Albums,         \* logical albums that are mirrored
    Together,       \* the album with system_key "together"
    Assets,         \* logical assets
    Owner,          \* Owner[a]: the member whose upload a is
    AlbumRank,      \* position of an album in ORDER BY name, id
    MemberRank,     \* position of a member in the configuration
    InitShared,     \* InitShared[alb]: assets mirrored in alb at the start
    RemoveUnshared, \* the remove_unshared_replicas setting
    ReadOnlyMount,  \* Immich mounts the recipient tree read-only
    MaxGen,         \* bound: times Immich may give a copy a new asset id
    MaxEdits,       \* bound: user edits of albums
    MaxTrash,       \* bound: user trash, restore and delete operations
    MaxFaults       \* bound: crashes, cancellations and transient API errors

ASSUME MembershipAssumption ==
    /\ Together \in Albums
    /\ Owner \in [Assets -> Members]
    /\ AlbumRank \in [Albums -> Nat]
    /\ MemberRank \in [Members -> Nat]
    /\ InitShared \in [Albums -> SUBSET Assets]
    /\ \A alb \in Albums : InitShared[alb] \subseteq InitShared[Together]
    /\ RemoveUnshared \in BOOLEAN
    /\ ReadOnlyMount \in BOOLEAN
    /\ MaxGen \in Nat \ {0}
    /\ MaxEdits \in Nat /\ MaxTrash \in Nat /\ MaxFaults \in Nat

VARIABLES
    \* Immich (external)
    copy,        \* copy[m][a]: the asset in m's account: id generation, status
    file,        \* file[m][a]: a bridge hard link of a lies in m's library path
    rows,        \* rows[alb][m]: assets in m's mirror of alb, trashed included
    \* SQLite
    membership,  \* album_memberships
    sources,     \* sharing_sources of kind album
    obs,         \* album_observations: asset ids last recorded per mirror
    initialized, \* logical_albums.initialized
    rep,         \* asset_replicas
    \* the bridge process, all of it lost when a cycle ends
    pc,          \* where the cycle is
    visits,      \* <<album, member>> mirrors the current pass has yet to visit
    seen,        \* observed.assets of every plan
    checks,      \* recorded ids missing from a listing, GetAsset outstanding
    plan,        \* the decisions gathered by observation
    tried,       \* work attempted in this cycle
    force,       \* main.go: forceDiscovery
    \* history, never read by the bridge
    offered,     \* <<alb, m, id>>: m put id in alb, not yet recorded in obs
    withdrawn,   \* <<alb, m, id>>: m took id from alb, still recorded in obs
    flicker,     \* <<m, a>>: m restored a from trash during this observation
    dropped,     \* assets whose last sharing source this cycle removed
    spent        \* user edits, trash operations and faults so far

immich  == <<copy, file, rows>>
sqlite  == <<membership, sources, obs, initialized, rep>>
process == <<pc, visits, seen, checks, plan, tried, force>>
history == <<offered, withdrawn, flicker, dropped>>
vars    == <<immich, sqlite, process, history, spent>>

-----------------------------------------------------------------------------
(* An Immich asset id is the logical asset with a generation: deleting a   *)
(* copy for good and importing its file again gives a new generation.      *)
(* Generation 0 stands for a NULL immich_asset_id.                         *)

Mirrors == Albums \X Members
Gens    == 0..MaxGen
Ids     == Assets \X (Gens \ {0})
Copies  == [gen : Gens, st : {"none", "live", "trashed"}]
Work    == {"audit", "failed", "prepare", "lookup", "cleanup"}

RemovalStates == {"pending_removal", "deleting"}
RepStates == {"none", "ready", "repair_pending", "pending_import", "error",
              "api_error", "source_missing", "owner_deleted"} \cup RemovalStates
Replicas == [state : RepStates, gen : Gens, path : BOOLEAN]

Plans == [adds : [Albums -> SUBSET Assets], removes : [Albums -> SUBSET Assets],
          repairs : SUBSET (Members \X Assets),
          confirmed : SUBSET Assets, gone : SUBSET Assets]
Budget == [edits : 0..MaxEdits, trash : 0..MaxTrash, faults : 0..MaxFaults]

NoReplica == [state |-> "none", gen |-> 0, path |-> FALSE]
EmptyPlan == [adds      |-> [alb \in Albums |-> {}],
              removes   |-> [alb \in Albums |-> {}],
              repairs   |-> {},
              confirmed |-> {},
              gone      |-> {}]
NothingSeen == [alb \in Albums |-> [m \in Members |-> {}]]

Id(m, a) == <<a, copy[m][a].gen>>

\* GetAsset(m, <<a, g>>) succeeds.
Exists(m, a, g) == copy[m][a].st # "none" /\ copy[m][a].gen = g

Origin(a) == rep[Owner[a]][a]

\* The asset_replicas row of m that carries the id (ReplicaAssetIDs).
Known(m, id) == rep[m][id[1]].gen = id[2]

Ready(m, a)    == rep[m][a].state = "ready" /\ rep[m][a].gen # 0
WasReady(m, a) == rep[m][a].state \in {"ready", "repair_pending"} /\ rep[m][a].gen # 0

AssetsOf(ids) == {id[1] : id \in ids}

\* SourceCount(a) = 0
Unshared(a) == \A alb \in Albums : a \notin sources[alb]

-----------------------------------------------------------------------------
(* Initially some assets are mirrored everywhere and settled, the others   *)
(* are uploads the bridge has never seen. An album with nothing mirrored   *)
(* is freshly registered.                                                  *)

Settled(m, a) == a \in InitShared[Together]

Init ==
    /\ copy = [m \in Members |-> [a \in Assets |->
                IF m = Owner[a] \/ Settled(m, a)
                THEN [gen |-> 1, st |-> "live"]
                ELSE [gen |-> 0, st |-> "none"]]]
    /\ file = [m \in Members |-> [a \in Assets |-> m # Owner[a] /\ Settled(m, a)]]
    /\ rows = [alb \in Albums |-> [m \in Members |-> InitShared[alb]]]
    /\ membership = InitShared
    /\ sources = InitShared
    /\ obs = [alb \in Albums |-> [m \in Members |-> InitShared[alb] \X {1}]]
    /\ initialized = [alb \in Albums |-> InitShared[alb] # {}]
    /\ rep = [m \in Members |-> [a \in Assets |->
                IF Settled(m, a)
                THEN [state |-> "ready", gen |-> 1, path |-> TRUE]
                ELSE NoReplica]]
    /\ pc = "idle"
    /\ visits = {}
    /\ seen = NothingSeen
    /\ checks = {}
    /\ plan = EmptyPlan
    /\ tried = {}
    /\ force = TRUE
    /\ offered = {}
    /\ withdrawn = {}
    /\ flicker = {}
    /\ dropped = {}
    /\ spent = [edits |-> 0, trash |-> 0, faults |-> 0]

-----------------------------------------------------------------------------
(* Users and Immich, between any two requests of the bridge.               *)

Edit == /\ spent.edits < MaxEdits
        /\ spent' = [spent EXCEPT !.edits = @ + 1]
        /\ UNCHANGED <<copy, file, sqlite, process, flicker, dropped>>

\* Whether the current observation has listed the mirror, with or without id.
ListedWith(alb, m, id)    == pc = "observe" /\ id \in seen[alb][m]
ListedWithout(alb, m, id) == pc = "observe" /\ <<alb, m>> \notin visits /\ id \notin seen[alb][m]

UserAdd(alb, m, a) ==
    LET edit == <<alb, m, Id(m, a)>>
    IN  /\ copy[m][a].st = "live"
        /\ a \notin rows[alb][m]
        /\ rows' = [rows EXCEPT ![alb][m] = @ \cup {a}]
        /\ offered' = offered \cup {edit}
        /\ withdrawn' = IF ListedWithout(alb, m, Id(m, a)) THEN withdrawn ELSE withdrawn \ {edit}
        /\ Edit

UserRemove(alb, m, a) ==
    LET edit == <<alb, m, Id(m, a)>>
    IN  /\ copy[m][a].st = "live"
        /\ a \in rows[alb][m]
        /\ rows' = [rows EXCEPT ![alb][m] = @ \ {a}]
        /\ offered' = IF ListedWith(alb, m, Id(m, a)) THEN offered ELSE offered \ {edit}
        /\ withdrawn' = withdrawn \cup {edit}
        /\ Edit

TrashEdit == /\ spent.trash < MaxTrash
             /\ spent' = [spent EXCEPT !.trash = @ + 1]
             /\ UNCHANGED <<sqlite, process, withdrawn, dropped>>

UserTrash(m, a) ==
    /\ copy[m][a].st = "live"
    /\ copy' = [copy EXCEPT ![m][a].st = "trashed"]
    /\ TrashEdit
    /\ UNCHANGED <<file, rows, offered, flicker>>

\* Immich restores album membership along with trash.
UserRestore(m, a) ==
    /\ copy[m][a].st = "trashed"
    /\ copy' = [copy EXCEPT ![m][a].st = "live"]
    /\ offered' = offered \cup {<<alb, m, Id(m, a)>> : alb \in {x \in Albums : a \in rows[x][m]}}
    /\ flicker' = IF pc = "observe" THEN flicker \cup {<<m, a>>} ELSE flicker
    /\ TrashEdit
    /\ UNCHANGED <<file, rows>>

\* A permanent deletion may take the file of an external library with it.
FilesLeft(m, a) ==
    \E left \in {file[m][a], file[m][a] /\ ReadOnlyMount} : file' = [file EXCEPT ![m][a] = left]

UserDelete(m, a) ==
    /\ copy[m][a].st # "none"
    /\ copy' = [copy EXCEPT ![m][a].st = "none"]
    /\ rows' = [alb \in Albums |-> [rows[alb] EXCEPT ![m] = @ \ {a}]]
    /\ FilesLeft(m, a)
    /\ TrashEdit
    /\ UNCHANGED <<offered, flicker>>

\* A library crawl imports a hard link that has no asset yet.
Import(m, a) ==
    /\ m # Owner[a]
    /\ file[m][a]
    /\ copy[m][a].st = "none"
    /\ copy[m][a].gen < MaxGen
    /\ copy' = [copy EXCEPT ![m][a] = [gen |-> copy[m][a].gen + 1, st |-> "live"]]
    /\ UNCHANGED <<file, rows, sqlite, process, history, spent>>

-----------------------------------------------------------------------------
(* Albums are read ORDER BY name, id and members in configuration order;   *)
(* applyPlans sees Together first.                                         *)

Before(v, w) ==
    LET first(x) == pc # "observe" /\ x[1] = Together
    IN  \/ first(v) /\ ~first(w)
        \/ /\ first(v) = first(w)
           /\ \/ AlbumRank[v[1]] < AlbumRank[w[1]]
              \/ v[1] = w[1] /\ MemberRank[v[2]] < MemberRank[w[2]]

Turn(v) == v \in visits /\ \A w \in visits : w = v \/ Before(v, w)

\* Everything the process held in memory is gone.
EndCycle ==
    /\ pc' = "idle" /\ visits' = {} /\ seen' = NothingSeen /\ checks' = {}
    /\ plan' = EmptyPlan /\ tried' = {} /\ flicker' = {} /\ dropped' = {}

\* The cycle returned an error other than ErrPostwork.
Abort == EndCycle /\ force' = TRUE

\* The edits an observation row now stands for are history.
Record(newObs) ==
    /\ obs' = newObs
    /\ offered' = {o \in offered : o[3] \notin newObs[o[1]][o[2]]}
    /\ withdrawn' = {w \in withdrawn : w[3] \in newObs[w[1]][w[2]]}

-----------------------------------------------------------------------------
(* Run, first half: observe every mirror, decide, persist.                 *)

StartRun ==
    /\ pc = "idle"
    /\ pc' = "observe"
    /\ visits' = Mirrors
    /\ UNCHANGED <<immich, sqlite, seen, checks, plan, tried, force, history, spent>>

Listing(alb, m) == {Id(m, a) : a \in {x \in rows[alb][m] : copy[m][x].st = "live"}}

\* An unknown asset is a new origin when it is the member's own upload. Every
\* other unknown asset lies in the bridge's library: "unknown bridge or
\* foreign asset".
Unknown(alb, m) == {id \in Listing(alb, m) : ~Known(m, id)}
Foreign(alb, m) == {id \in Unknown(alb, m) : Owner[id[1]] # m}

EnsureOrigins(m, new) ==
    rep' = [rep EXCEPT ![m] = [a \in Assets |->
             IF a \in new THEN [state |-> "ready", gen |-> 1, path |-> TRUE] ELSE @[a]]]

\* What the listing has and the last observation lacks is an addition; a new
\* album contributes all that it lists.
\* Mutant: every listed asset counts as an addition, observed before or not.
AddedAlways(alb, m) == Listing(alb, m)
Added(alb, m) == IF initialized[alb] THEN Listing(alb, m) \ obs[alb][m] ELSE Listing(alb, m)

ListAlbum(alb, m) ==
    LET listed == Listing(alb, m)
        new    == AssetsOf(Unknown(alb, m))
        old    == {id \in obs[alb][m] \ listed : Known(m, id)}
    IN  /\ pc = "observe"
        /\ checks = {}
        /\ Turn(<<alb, m>>)
        /\ Foreign(alb, m) = {}
        /\ EnsureOrigins(m, new)
        /\ seen' = [seen EXCEPT ![alb][m] = listed]
        /\ plan' = [plan EXCEPT !.adds[alb] = @ \cup AssetsOf(Added(alb, m))]
        /\ checks' = IF initialized[alb] THEN {<<alb, m, id>> : id \in old} ELSE {}
        /\ visits' = visits \ {<<alb, m>>}
        /\ UNCHANGED <<immich, membership, sources, obs, initialized, pc, tried,
                       force, history, spent>>

\* EnsureOrigin commits on its own, so the origins listed before the foreign
\* asset stay.
RejectAlbum(alb, m) ==
    /\ pc = "observe"
    /\ checks = {}
    /\ Turn(<<alb, m>>)
    /\ Foreign(alb, m) # {}
    /\ \E new \in SUBSET AssetsOf(Unknown(alb, m) \ Foreign(alb, m)) : EnsureOrigins(m, new)
    /\ Abort
    /\ UNCHANGED <<immich, membership, sources, obs, initialized, offered, withdrawn, spent>>

\* GetAsset of a recorded id that was not listed: a live asset was taken out
\* of the album, a trashed or deleted one only needs repair.
\* Mutant: a copy in the trash counts as taken out.
InLibraryOrTrash(m, id) == Exists(m, id[1], id[2])
InLibrary(m, id) == Exists(m, id[1], id[2]) /\ copy[m][id[1]].st = "live"

CheckMissing(alb, m, id) ==
    /\ pc = "observe"
    /\ <<alb, m, id>> \in checks
    /\ checks' = checks \ {<<alb, m, id>>}
    /\ plan' = IF InLibrary(m, id)
               THEN [plan EXCEPT !.removes[alb] = @ \cup {id[1]}]
               ELSE IF m # Owner[id[1]]
               THEN [plan EXCEPT !.repairs = @ \cup {<<m, id[1]>>}]
               ELSE plan
    /\ UNCHANGED <<immich, sqlite, pc, visits, seen, tried, force, history, spent>>

\* observeAlbum: what the album's own mirrors ask for.
Observed(alb) == (membership[alb] \cup plan.adds[alb]) \ (plan.removes[alb] \ plan.adds[alb])

\* resolveTogether
\* Mutant: an addition to any album wins over a removal from Together.
OverruledByAny == plan.removes[Together] \ UNION {plan.adds[alb] : alb \in Albums}
Overruled == plan.removes[Together] \ plan.adds[Together]
\* Mutant: secondary albums do not feed Together.
ResolvedApart == [alb \in Albums |-> Observed(alb) \ (IF alb = Together THEN {} ELSE Overruled)]
Resolved ==
    LET secondary(alb) == Observed(alb) \ Overruled
    IN  [alb \in Albums |->
           IF alb = Together
           THEN Observed(alb) \cup UNION {secondary(s) : s \in Albums \ {Together}}
           ELSE secondary(alb)]

\* resolveOwnerDeletions
Candidates == UNION {Resolved[alb] \cup membership[alb] : alb \in Albums}
Present(a) == \E alb \in Albums : <<a, Origin(a).gen>> \in seen[alb][Owner[a]]
ToConfirm  == {a \in Candidates : Origin(a).state \notin {"none", "owner_deleted"} /\ ~Present(a)}
Restored   == {a \in Candidates : Origin(a).state = "owner_deleted" /\ Present(a)}
Deleted    == {a \in Candidates : Origin(a).state = "owner_deleted" /\ ~Present(a)} \cup plan.gone

AllObserved == pc = "observe" /\ visits = {} /\ checks = {}

ConfirmOrigin(a) ==
    /\ AllObserved
    /\ a \in ToConfirm \ plan.confirmed
    /\ plan' = [plan EXCEPT !.confirmed = @ \cup {a},
                            !.gone = IF copy[Owner[a]][a].st # "live" THEN @ \cup {a} ELSE @]
    /\ UNCHANGED <<immich, sqlite, pc, visits, seen, checks, tried, force, history, spent>>

\* Mutant: owner deletions do not reach the decision.
DecisionUnchecked == [alb \in Albums |-> Resolved[alb]]
Decision == [alb \in Albums |-> Resolved[alb] \ Deleted]

\* The states persistPlans writes, in its order: repairs, restores, deletes.
PersistedState(m, a) ==
    CASE m = Owner[a] /\ a \in Deleted -> "owner_deleted"
      [] m = Owner[a] /\ a \in Restored \ Deleted -> "ready"
      [] m # Owner[a] /\ <<m, a>> \in plan.repairs -> "repair_pending"
      [] OTHER -> rep[m][a].state

\* The observation rows that are saved with the decision: what was listed, not
\* what the bridge is about to write.
\* Mutant: what the bridge is about to write.
Outputs == [alb \in Albums |-> [m \in Members |->
              {id \in {<<a, rep[m][a].gen>> : a \in Decision[alb]} : id[2] # 0}]]
Inputs == seen

\* One SQLite transaction. plan.desired is then what album_memberships holds.
PersistPlans ==
    /\ AllObserved
    /\ ToConfirm \subseteq plan.confirmed
    /\ rep' = [m \in Members |-> [a \in Assets |->
                 [rep[m][a] EXCEPT !.state = PersistedState(m, a)]]]
    /\ membership' = Decision
    /\ sources' = [alb \in Albums |->
                     (sources[alb] \ (membership[alb] \ Decision[alb]))
                         \cup (Decision[alb] \ membership[alb])]
    /\ Record(Inputs)
    /\ initialized' = [alb \in Albums |-> TRUE]
    /\ pc' = "audit"
    /\ plan' = EmptyPlan
    /\ flicker' = {}
    /\ dropped' = {a \in Assets : a \in membership[Together] \ Decision[Together]}
    /\ UNCHANGED <<immich, visits, seen, checks, tried, force, spent>>

\* Work continues what the last full observation persisted.
StartWork ==
    /\ pc = "idle"
    /\ ~force
    /\ pc' = "audit"
    /\ seen' = [alb \in Albums |-> IF initialized[alb] THEN obs[alb] ELSE NothingSeen[alb]]
    /\ UNCHANGED <<immich, sqlite, visits, checks, plan, tried, force, history, spent>>

-----------------------------------------------------------------------------
(* ensureReplica, one call for one member: verify or repair a ready copy,  *)
(* or link the original and wait for its import.                           *)

\* rep'[m][a] and the Immich side after a call whose requests all succeed.
EnsureReplica(m, a) ==
    LET r    == rep[m][a]
        here == Exists(m, a, r.gen) /\ WasReady(m, a)
    IN  \/ /\ copy[Owner[a]][a].st = "none"
           /\ rep' = [rep EXCEPT ![m][a].state = "source_missing"]
           /\ UNCHANGED <<copy, file>>
        \/ /\ copy[Owner[a]][a].st = "trashed"
           /\ UNCHANGED <<rep, copy, file>>
        \/ /\ copy[Owner[a]][a].st = "live"
           /\ m = Owner[a]
           /\ rep' = [rep EXCEPT ![m][a].state = "ready"]
           /\ UNCHANGED <<copy, file>>
        \/ /\ copy[Owner[a]][a].st = "live"
           /\ m # Owner[a] /\ here
           /\ copy' = [copy EXCEPT ![m][a].st = "live"]
           /\ file' = [file EXCEPT ![m][a] = TRUE]
           /\ rep' = [rep EXCEPT ![m][a].state = "ready"]
        \/ /\ copy[Owner[a]][a].st = "live"
           /\ m # Owner[a] /\ ~here
           /\ file' = [file EXCEPT ![m][a] = TRUE]
           /\ rep' = [rep EXCEPT ![m][a] =
                        [state |-> "pending_import", gen |-> 0, path |-> TRUE]]
           /\ UNCHANGED copy

\* The error returns other than errPendingImport.
EnsureFails(a) == copy[Owner[a]][a].st # "live"

\* A call in which a request or a hard link failed, perhaps after the copy was
\* restored or its original linked.
EnsureError(m, a) ==
    LET here == WasReady(m, a) /\ Exists(m, a, rep[m][a].gen)
    IN  \/ /\ rep' = IF WasReady(m, a) THEN rep
                     ELSE [rep EXCEPT ![m][a].state = "api_error"]
           /\ UNCHANGED <<copy, file>>
        \/ /\ copy[Owner[a]][a].st = "live"
           /\ m # Owner[a] /\ here
           /\ copy' = [copy EXCEPT ![m][a].st = "live"]
           /\ UNCHANGED <<rep, file>>
        \/ /\ copy[Owner[a]][a].st = "live"
           /\ m # Owner[a] /\ ~here
           /\ \E linked \in {file[m][a], TRUE} : file' = [file EXCEPT ![m][a] = linked]
           /\ rep' = [rep EXCEPT ![m][a] = [state |-> "error", gen |-> 0, path |-> TRUE]]
           /\ UNCHANGED copy

Fault == /\ spent.faults < MaxFaults
         /\ spent' = [spent EXCEPT !.faults = @ + 1]

Wanted == UNION {membership[alb] : alb \in {x \in Albums : initialized[x]}}

ToAudit == {w \in Members \X Assets :
              w[2] \in Wanted /\ Ready(w[1], w[2]) /\ <<"audit", w[1], w[2]>> \notin tried}

Audit(m, a) ==
    /\ pc = "audit"
    /\ <<m, a>> \in ToAudit
    /\ \/ /\ EnsureReplica(m, a)
          /\ tried' = tried \cup {<<w, m, a>> : w \in IF EnsureFails(a) THEN {"audit", "failed"}
                                                                       ELSE {"audit"}}
          /\ UNCHANGED spent
       \/ /\ Fault
          /\ EnsureError(m, a)
          /\ tried' = tried \cup {<<w, m, a>> : w \in {"audit", "failed"}}
    /\ UNCHANGED <<rows, membership, sources, obs, initialized, pc, visits, seen, checks,
                   plan, force, history>>

AuditDone ==
    /\ pc = "audit"
    /\ ToAudit = {}
    /\ pc' = "apply"
    /\ visits' = {v \in Mirrors : initialized[v[1]]}
    /\ UNCHANGED <<immich, sqlite, seen, checks, plan, tried, force, history, spent>>

-----------------------------------------------------------------------------
(* applyAlbum for one member: reconcileMemberAssets prepares and looks up  *)
(* copies and adds the ready ones, then unwanted assets are removed and    *)
(* the observations are replaced by what the bridge left in the album.     *)

ToPrepare(alb, m) == {a \in membership[alb] :
    /\ ~Ready(m, a)
    /\ rep[m][a].state # "pending_import"
    /\ {<<"prepare", m, a>>, <<"failed", m, a>>} \cap tried = {}}

\* Mutant: only what this cycle linked is looked up.
ToLookUpFresh(alb, m) == {a \in membership[alb] :
    rep[m][a].state = "pending_import" /\ <<"prepare", m, a>> \in tried
        /\ <<"lookup", m, a>> \notin tried}
ToLookUp(alb, m) == {a \in membership[alb] :
    /\ rep[m][a].state = "pending_import"
    /\ {<<"lookup", m, a>>, <<"failed", m, a>>} \cap tried = {}}

Prepare(alb, m, a) ==
    /\ pc = "apply"
    /\ Turn(<<alb, m>>)
    /\ a \in ToPrepare(alb, m)
    /\ tried' = tried \cup {<<"prepare", m, a>>}
    /\ \/ EnsureReplica(m, a) /\ UNCHANGED spent
       \/ Fault /\ EnsureError(m, a)
    /\ UNCHANGED <<rows, membership, sources, obs, initialized, pc, visits, seen, checks,
                   plan, force, history>>

\* FindByPath finds the copy: the search does not ask for trashed assets.
Searchable(m, a) == copy[m][a].st = "live"

\* resolvePendingImport: FindByPath returns the imported asset, if it shows one.
LookUp(alb, m, a) ==
    /\ pc = "apply"
    /\ Turn(<<alb, m>>)
    /\ ToPrepare(alb, m) = {}
    /\ a \in ToLookUp(alb, m)
    /\ tried' = tried \cup {<<"lookup", m, a>>}
    /\ \/ /\ ~Searchable(m, a)
          /\ UNCHANGED <<rep, spent>>
       \/ /\ Searchable(m, a)
          /\ rep' = [rep EXCEPT ![m][a].state = "ready", ![m][a].gen = copy[m][a].gen]
          /\ UNCHANGED spent
       \/ Fault /\ UNCHANGED rep
    /\ UNCHANGED <<immich, membership, sources, obs, initialized, pc, visits, seen, checks,
                   plan, force, history>>

\* Ready copies missing from the album; a secondary album only gets what the
\* bridge has recorded in the member's Together album.
ToAdd(alb, m) == {id \in {<<a, rep[m][a].gen>> : a \in {x \in membership[alb] : Ready(m, x)}} :
    /\ <<"failed", m, id[1]>> \notin tried
    /\ id \notin seen[alb][m]
    /\ alb # Together => id \in obs[Together][m]}

\* The written ids join o.assets, so that they are recorded as observed.
\* Mutant: the bridge's additions are not recorded.
WrittenNothing(ids) == {}
Written(ids) == ids

\* One PUT. An id that no longer exists is an item error, after the other
\* items were added.
AddAssets(alb, m) ==
    LET ids   == ToAdd(alb, m)
        added == {id \in ids : Exists(m, id[1], id[2])}
    IN  /\ pc = "apply"
        /\ Turn(<<alb, m>>)
        /\ ToPrepare(alb, m) = {} /\ ToLookUp(alb, m) = {}
        /\ rows' = [rows EXCEPT ![alb][m] = @ \cup AssetsOf(added)]
        /\ \/ /\ added = ids
              /\ pc' = "write"
              /\ seen' = [seen EXCEPT ![alb][m] = @ \cup Written(ids)]
              /\ UNCHANGED <<visits, checks, plan, tried, flicker, dropped, force>>
           \/ added # ids /\ Abort
        /\ UNCHANGED <<copy, file, sqlite, offered, withdrawn, spent>>

ToRemove(alb, m) == {id \in seen[alb][m] : Known(m, id) /\ id[1] \notin membership[alb]}

\* One DELETE per unwanted asset. Taking out what is no longer in the album is
\* an error.
RemoveAsset(alb, m, id) ==
    /\ pc = "write"
    /\ Turn(<<alb, m>>)
    /\ id \in ToRemove(alb, m)
    /\ \/ /\ id[1] \in rows[alb][m] /\ Exists(m, id[1], id[2])
          /\ rows' = [rows EXCEPT ![alb][m] = @ \ {id[1]}]
          /\ seen' = [seen EXCEPT ![alb][m] = @ \ {id}]
          /\ UNCHANGED <<pc, visits, checks, plan, tried, flicker, dropped, force>>
       \/ /\ ~(id[1] \in rows[alb][m] /\ Exists(m, id[1], id[2]))
          /\ Abort
          /\ UNCHANGED rows
    /\ UNCHANGED <<copy, file, sqlite, offered, withdrawn, spent>>

UpdateObservations(alb, m) ==
    /\ pc = "write"
    /\ Turn(<<alb, m>>)
    /\ ToRemove(alb, m) = {}
    /\ Record([obs EXCEPT ![alb][m] = seen[alb][m]])
    /\ visits' = visits \ {<<alb, m>>}
    /\ pc' = "apply"
    /\ UNCHANGED <<immich, membership, sources, initialized, rep, seen, checks, plan,
                   tried, force, flicker, dropped, spent>>

-----------------------------------------------------------------------------
(* After the last album: cleanup of unused replicas, then MarkUnused. Their *)
(* errors are ErrPostwork and do not force a discovery.                     *)

ApplyDone ==
    /\ pc = "apply"
    /\ visits = {}
    /\ pc' = "post"
    /\ UNCHANGED <<immich, sqlite, visits, seen, checks, plan, tried, force, history, spent>>

\* RemovalReplicas, SourceCount
\* Mutant: the removal state of the row is not asked for.
ToCleanAllUnshared == {w \in Members \X Assets :
    /\ w[1] # Owner[w[2]] /\ rep[w[1]][w[2]].state # "none"
    /\ Unshared(w[2])
    /\ <<"cleanup", w[1], w[2]>> \notin tried}
\* Mutant: the remove_unshared_replicas setting is not asked for.
ToCleanAnyOrigin == {w \in Members \X Assets :
    /\ w[1] # Owner[w[2]]
    /\ rep[w[1]][w[2]].state \in RemovalStates
    /\ Unshared(w[2])
    /\ <<"cleanup", w[1], w[2]>> \notin tried}
ToClean == {w \in Members \X Assets :
    /\ w[1] # Owner[w[2]]
    /\ rep[w[1]][w[2]].state \in RemovalStates
    /\ RemoveUnshared \/ Origin(w[2]).state = "owner_deleted"
    /\ Unshared(w[2])
    /\ <<"cleanup", w[1], w[2]>> \notin tried}

\* DeleteAssets with force, of a copy GetAsset still finds, trashed or not.
DeleteCopy(m, a) ==
    /\ copy' = [copy EXCEPT ![m][a].st = "none"]
    /\ rows' = [alb \in Albums |-> [rows[alb] EXCEPT ![m] = @ \ {a}]]
    /\ FilesLeft(m, a)

\* removeReplicaFiles, DeleteReplica
\* Mutant: the row stays, in a state nothing else knows.
ForgetCopyTombstone(m, a) ==
    /\ file' = [file EXCEPT ![m][a] = FALSE]
    /\ rep' = [rep EXCEPT ![m][a].state = "removed"]
    /\ UNCHANGED <<copy, rows>>
ForgetCopy(m, a) ==
    /\ file' = [file EXCEPT ![m][a] = FALSE]
    /\ rep' = [rep EXCEPT ![m][a] = NoReplica]
    /\ UNCHANGED <<copy, rows>>

\* A row whose copy was never looked up, or lies in the trash, waits for a scan
\* that may be queued.
\* A failed cleanup may come after the deletion or the unlinking.
CleanupReplica(m, a) ==
    LET r       == rep[m][a]
        awaited == r.gen = 0 /\ r.path /\ ~Searchable(m, a)
        found   == IF r.gen = 0 THEN r.path /\ Searchable(m, a) ELSE Exists(m, a, r.gen)
    IN  /\ pc = "post"
        /\ <<m, a>> \in ToClean
        /\ tried' = tried \cup {<<"cleanup", m, a>>}
        /\ \/ awaited /\ UNCHANGED <<copy, rows, file, rep, spent>>
           \/ /\ found
              /\ DeleteCopy(m, a)
              /\ rep' = [rep EXCEPT ![m][a].state = "deleting", ![m][a].gen = copy[m][a].gen]
              /\ UNCHANGED spent
           \/ /\ ~awaited /\ ~found
              /\ ForgetCopy(m, a)
              /\ UNCHANGED spent
           \/ /\ Fault
              /\ \/ UNCHANGED <<copy, rows, file>>
                 \/ found /\ DeleteCopy(m, a)
                 \/ ~awaited /\ ~found /\ file' = [file EXCEPT ![m][a] = FALSE]
                      /\ UNCHANGED <<copy, rows>>
              /\ UNCHANGED rep
        /\ UNCHANGED <<membership, sources, obs, initialized, pc, visits, seen, checks,
                       plan, force, history>>

MarkUnused ==
    rep' = [m \in Members |-> [a \in Assets |->
              IF /\ m # Owner[a] /\ Unshared(a)
                 /\ rep[m][a].state \notin RemovalStates \cup {"none"}
              THEN [rep[m][a] EXCEPT !.state = "pending_removal"]
              ELSE rep[m][a]]]

FinishCycle ==
    /\ pc = "post"
    /\ ToClean = {}
    /\ MarkUnused
    /\ EndCycle
    /\ force' = FALSE
    /\ UNCHANGED <<immich, membership, sources, obs, initialized, offered, withdrawn, spent>>

\* A crash, a cancelled context, or an API or SQLite error that stops the
\* cycle between two of its steps. A failed request whose effect reached
\* Immich is the step followed by the fault.
CycleFault ==
    /\ pc # "idle"
    /\ Fault
    /\ Abort
    /\ UNCHANGED <<immich, sqlite, offered, withdrawn>>

-----------------------------------------------------------------------------
User ==
    \/ \E alb \in Albums, m \in Members, a \in Assets :
          UserAdd(alb, m, a) \/ UserRemove(alb, m, a)
    \/ \E m \in Members, a \in Assets :
          UserTrash(m, a) \/ UserRestore(m, a) \/ UserDelete(m, a)

Scan == \E m \in Members, a \in Assets : Import(m, a)

Observe ==
    \/ \E alb \in Albums, m \in Members : ListAlbum(alb, m) \/ RejectAlbum(alb, m)
    \/ \E c \in checks : CheckMissing(c[1], c[2], c[3])
    \/ \E a \in Assets : ConfirmOrigin(a)
    \/ PersistPlans

Apply ==
    \/ \E m \in Members, a \in Assets : Audit(m, a)
    \/ AuditDone
    \/ \E alb \in Albums, m \in Members, a \in Assets :
          Prepare(alb, m, a) \/ LookUp(alb, m, a)
    \/ \E alb \in Albums, m \in Members : AddAssets(alb, m) \/ UpdateObservations(alb, m)
    \/ \E alb \in Albums, m \in Members : \E id \in seen[alb][m] : RemoveAsset(alb, m, id)
    \/ ApplyDone

Post == (\E m \in Members, a \in Assets : CleanupReplica(m, a)) \/ FinishCycle

Cycle == Observe \/ Apply \/ Post

Next == User \/ Scan \/ StartRun \/ StartWork \/ Cycle \/ CycleFault

Spec == Init /\ [][Next]_vars

(* runPolling calls runCycle after every cycle until shutdown, a cycle never *)
(* blocks for ever (requests have time-outs), a discovery is due whenever    *)
(* discovery_interval has passed, and Immich crawls its libraries.           *)
FairSpec ==
    /\ Spec
    /\ WF_vars(Cycle)
    /\ WF_vars(StartRun \/ StartWork)
    /\ SF_vars(StartRun)
    /\ \A m \in Members, a \in Assets : WF_vars(Import(m, a))
-----------------------------------------------------------------------------
(* Properties                                                              *)

\* Every variable keeps its type: the SQLite rows have their states, plans
\* and observations mention only known albums, members, assets and ids.
ImmichTypeOK ==
    /\ copy \in [Members -> [Assets -> Copies]]
    /\ file \in [Members -> [Assets -> BOOLEAN]]
    /\ rows \in [Albums -> [Members -> SUBSET Assets]]
StoreTypeOK ==
    /\ membership \in [Albums -> SUBSET Assets]
    /\ sources \in [Albums -> SUBSET Assets]
    /\ obs \in [Albums -> [Members -> SUBSET Ids]]
    /\ initialized \in [Albums -> BOOLEAN]
    /\ rep \in [Members -> [Assets -> Replicas]]
ProcessTypeOK ==
    /\ pc \in {"idle", "observe", "audit", "apply", "write", "post"}
    /\ visits \in SUBSET Mirrors
    /\ seen \in [Albums -> [Members -> SUBSET Ids]]
    /\ checks \in SUBSET (Albums \X Members \X Ids)
    /\ plan \in Plans
    /\ tried \in SUBSET (Work \X Members \X Assets)
    /\ force \in BOOLEAN
HistoryTypeOK ==
    /\ offered \in SUBSET (Albums \X Members \X Ids)
    /\ withdrawn \in SUBSET (Albums \X Members \X Ids)
    /\ flicker \in SUBSET (Members \X Assets)
    /\ dropped \in SUBSET Assets
    /\ spent \in Budget
TypeOK == ImmichTypeOK /\ StoreTypeOK /\ ProcessTypeOK /\ HistoryTypeOK

\* A copy in a library has an asset id. Strengthens TypeOK for its proof.
CopiesHaveIds == \A m \in Members, a \in Assets : copy[m][a].st # "none" => copy[m][a].gen # 0

\* Together owns the shared set: what a secondary album shares, Together
\* shares, and the sharing sources cleanup consults are the memberships, at
\* every point of a cycle and after any crash (resolveTogether, persistPlans).
SharingConsistent ==
    \A alb \in Albums :
        membership[alb] \subseteq membership[Together] /\ sources[alb] = membership[alb]

\* An asset whose owner deletion is recorded is shared nowhere
\* (resolveOwnerDeletions overrides additions in every album).
OwnerDeletedUnshared ==
    \A a \in Assets, alb \in Albums : Origin(a).state = "owner_deleted" => a \notin membership[alb]

Persisting == pc = "observe" /\ pc' = "audit"

\* An asset becomes shared only because a user put it in that album, or, for
\* Together, in some album. The bridge's own unfinished writes and old album
\* contents left by a crash never share an asset again (persistPlans). Once the trash
\* is used it does not hold: a restored copy is back in albums nobody put it in again.
TrashUnused == spent.trash = 0
NoResurrection ==
    [][TrashUnused => \A alb \in Albums : \A a \in membership'[alb] \ membership[alb] :
          \E o \in offered : o[3][1] = a /\ (o[1] = alb \/ alb = Together)]_vars

\* The ids of a that m took out of alb, where the listing shows them gone.
Taken(alb, m, a) ==
    {id \in obs[alb][m] \ seen[alb][m] : id[1] = a /\ <<alb, m, id>> \in withdrawn}
TakenOut(alb, m, a) == Taken(alb, m, a) # {}

\* A user put a in alb, and the listing shows what obs does not have.
PutIn(alb, m, a) ==
    \E id \in seen[alb][m] \ obs[alb][m] : id[1] = a /\ <<alb, m, id>> \in offered

\* An asset stops being shared in an album only because a user took it out of
\* that album or of Together, the owner's original was gone, or a copy was
\* restored from trash while it was being observed. Deleting or trashing a
\* recipient copy never ends sharing (observeAlbum, resolveTogether).
UnshareByIntentOrRestore ==
    [][\A alb \in Albums : \A a \in membership[alb] \ membership'[alb] :
          \/ \E m \in Members : TakenOut(alb, m, a) \/ TakenOut(Together, m, a)
          \/ a \in plan.gone
          \/ \E m \in Members : <<m, a>> \in flicker]_vars

\* A user's removal from Together ends the sharing everywhere, unless a user
\* directly put the asset in Together. The removed copy must still be the one
\* that the bridge maps and that lies in the library, out of trash throughout
\* the observation: a copy under repair is put back into its album.
RemovalStands(a) ==
    /\ \E m \in Members : \E id \in Taken(Together, m, a) :
           /\ Known(m, id) /\ Exists(m, a, id[2])
           /\ copy[m][a].st = "live" /\ <<m, a>> \notin flicker
    /\ \A m \in Members : ~PutIn(Together, m, a)
    => \A alb \in Albums : a \notin membership'[alb]

\* Every discovery that follows a completed cycle honours removals, whatever
\* else users did at the same time (resolveTogether), unless a repair failed:
\* a copy that was restored when the rest of its repair failed is back in its
\* album without a record of it. Its row is still in repair_pending, or ready
\* if an earlier failure had kept the album's record from being saved.
RepairFailed(a) ==
    /\ spent.trash > 0
    /\ (\E m \in Members : rep[m][a].state = "repair_pending") \/ spent.faults > 1
RemovalHonoured ==
    [][Persisting /\ ~force => \A a \in Assets : RepairFailed(a) \/ RemovalStands(a)]_vars

\* So does the discovery that follows a crash or a failed request.
RemovalAlwaysHonoured == [][Persisting => \A a \in Assets : RemovalStands(a)]_vars

\* A user's addition is shared in that album and in Together, unless the
\* original is gone or a user took the asset out of Together at the same time
\* or restored a copy from trash (resolveTogether). After a completed cycle.
AdditionHonoured ==
    [][Persisting /\ ~force => \A alb \in Albums, a \in Assets :
          /\ \E m \in Members : PutIn(alb, m, a)
          /\ a \notin plan.gone /\ Origin(a).state # "owner_deleted"
          /\ alb = Together \/ \A m \in Members : ~TakenOut(Together, m, a)
          /\ \A m \in Members : <<m, a>> \notin flicker
          => a \in membership'[alb] /\ a \in membership'[Together]]_vars

\* Between cycles, and whatever earlier cycles left unfinished, an album differs
\* from its recorded observation only by what users did since: the bridge does
\* not mistake its own writes for edits (UpdateObservations, persistPlans), as
\* long as no copy was restored from trash.
DiffersByEdits ==
    TrashUnused /\ pc = "idle" /\ ~force => \A alb \in Albums, m \in Members, a \in Assets :
        LET id == Id(m, a)
        IN  copy[m][a].st = "live" =>
              /\ id \in Listing(alb, m) \ obs[alb][m] => <<alb, m, id>> \in offered
              /\ id \in obs[alb][m] \ Listing(alb, m) => <<alb, m, id>> \in withdrawn

BridgeDeletes(m, a) == pc = "post" /\ copy[m][a].st # "none" /\ copy'[m][a].st = "none"
                           /\ spent'.trash = spent.trash

\* The bridge force-deletes only recipient copies of assets that no album
\* shares, and without remove_unshared_replicas only after an owner deletion.
DeletesOnlyUnshared ==
    [][\A m \in Members, a \in Assets : BridgeDeletes(m, a) =>
          /\ m # Owner[a]
          /\ \A alb \in Albums : a \notin membership[alb]
          /\ RemoveUnshared \/ Origin(a).state = "owner_deleted"]_vars

\* A newly removed sharing reference gets a full polling interval to be added
\* again: no copy is deleted in the cycle that stopped sharing the asset
\* (applyPlans), unless the cycle before it was not completed. Not with the
\* trash: an asset shared again while its original is there stays in
\* pending_removal, and is deleted as soon as it is unshared again.
DeletionGrace ==
    [][TrashUnused /\ ~force => \A m \in Members, a \in Assets :
          BridgeDeletes(m, a) => a \notin dropped]_vars

\* Every mirror shows exactly the shared assets.
Mirrored ==
    \A alb \in Albums, m \in Members :
        Listing(alb, m) = {Id(m, a) : a \in membership[alb]}

\* A visible recipient copy whose id the bridge does not know stops every Run,
\* and after a failed Run there is no Work that could look it up.
Blocked == \E alb \in Albums, m \in Members : Foreign(alb, m) # {}

\* A copy was trashed after its import and before the bridge looked it up. Its row
\* stays pending_import, which is only looked up, and the lookup does not see it.
AwaitsTrashed(m, a) == rep[m][a].state = "pending_import" /\ copy[m][a].st = "trashed"

\* Every mirror shows the shared assets, except those it awaits from the trash.
MirroredUnlessAwaited ==
    \A alb \in Albums, m \in Members :
        Listing(alb, m) = {Id(m, a) : a \in {x \in membership[alb] : ~AwaitsTrashed(m, x)}}

\* Once users and faults stop, every mirror converges to the shared membership
\* for good: removed assets leave, restored, deleted or not yet imported copies
\* come back. There are two exceptions: a discovery that is Blocked for good, and a
\* copy trashed before its lookup (AwaitsTrashed), which alone stays away.
ConvergesUnlessBlocked == <>[]MirroredUnlessAwaited \/ <>[]Blocked

\* Repeated cycles resume after an import delay or a restart: every mirror
\* converges to the shared membership, without exception.
Converges == <>[]Mirrored
=============================================================================
