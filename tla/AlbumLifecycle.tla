--------------------------- MODULE AlbumLifecycle ---------------------------
(***************************************************************************)
(* How mirrored albums come and go: registration through the API or by     *)
(* sharing an album with the Together user, creation of the other members' *)
(* albums, unmirroring (archive, then delete every remote album) and       *)
(* restoration from the archive. Both of the latter are sequences of       *)
(* requests that later cycles resume after a crash.                        *)
(*                                                                         *)
(* Covered: internal/reconcile/album_deletions.go, album_sharing.go,       *)
(* registerWithReplicas and ensureAlbumReplicas (reconcile.go), and        *)
(* internal/store/album_deletions.go. What Run does after an album's       *)
(* mirrors exist is the module Membership.                                 *)
(*                                                                         *)
(* Not covered: names, descriptions other than the restoration tag,        *)
(* covers, album memberships, dry run, an empty together_user_id, and the  *)
(* adoption of Together's own albums by name.                              *)
(*                                                                         *)
(* A definition marked Mutant is a faulty variant of the one below it. The *)
(* specification does not use it; it shows that a property can fail.       *)
(***************************************************************************)
EXTENDS Naturals, FiniteSets

CONSTANTS
    Members,      \* configured family members
    Albums,       \* logical albums that can exist
    Together,     \* the album with system_key "together"
    Photos,       \* photos; every member has a copy of each
    AlbumRank,    \* position of an album in the order of names and ids
    MemberRank,   \* position of a member in the configuration
    InitRemotes,  \* remote albums at the start
    InitOwner,    \* InitOwner[r]: who owns remote r
    InitReplica,  \* InitReplica[l][m]: the mirror at the start, 0 for none
    MaxRemotes,   \* bound: remote albums ever created
    MaxEdits,     \* bound: user edits of albums, shares and photos
    MaxInputs,    \* bound: calls of the HTTP API, an edit in place of two calls
    MaxFaults     \* bound: crashes and failed requests

Remotes == 1..MaxRemotes

ASSUME LifecycleAssumption ==
    /\ Together \in Albums /\ Members # {}
    /\ AlbumRank \in [Albums -> Nat]
    /\ MemberRank \in [Members -> Nat]
    /\ MaxRemotes \in Nat /\ MaxEdits \in Nat /\ MaxInputs \in Nat /\ MaxFaults \in Nat
    /\ InitRemotes \subseteq Remotes
    /\ InitOwner \in [InitRemotes -> Members]
    /\ InitReplica \in [Albums -> [Members -> InitRemotes \cup {0}]]
    /\ \A l \in Albums, m \in Members : InitReplica[l][m] # 0 => InitOwner[InitReplica[l][m]] = m
    /\ \A m \in Members : InitReplica[Together][m] # 0
    /\ \A k, l \in Albums, m \in Members :
          InitReplica[k][m] = InitReplica[l][m] /\ k # l => InitReplica[k][m] = 0

VARIABLES
    \* Immich (external)
    remote,     \* remote[r]: an album in a member's account
    lost,       \* lost[m]: photos deleted for good from m's account
    trashed,    \* trashed[m]: photos in m's trash
    \* SQLite
    registered, \* logical_albums
    replica,    \* album_replicas: replica[l][m], 0 when there is none
    marker,     \* album_marker_observations: <<l, m>> with a confirmed share
    archive,    \* album_deletions
    \* the bridge process, under the reconciler's mutex
    job,        \* what it is doing and what it holds in memory
    \* history, never read by the bridge
    asked,      \* remotes whose share a user removed or whose album the API unmirrored
    taken,      \* <<r, p>>: a user took photo p out of remote r
    spent       \* edits, calls and faults so far

immich  == <<remote, lost, trashed>>
sqlite  == <<registered, replica, marker, archive>>
history == <<asked, taken>>
vars    == <<immich, sqlite, job, history, spent>>

-----------------------------------------------------------------------------
Owners  == [Members -> Remotes \cup {0}]
Pairs   == Albums \X Members

\* Every tag names one restoration; 0 is an ordinary description.
Tags    == 0..MaxInputs
RemoteAlbums == [st : {"none", "live", "deleted"}, owner : Members, shared : BOOLEAN,
                 tag : Tags, items : SUBSET Photos]

\* domain.AlbumDeletion: the mirrors with their contents, which of them are
\* deleted, which restored as what. A restoration has its RestoreToken.
Records  == [state : {"none", "deleting", "deleted", "restoring"}, token : Tags,
             old : Owners, items : [Members -> SUBSET Photos], gone : SUBSET Members,
             new : Owners, back : SUBSET Members]
Archives == {a \in Records : a.state = "restoring" => a.token # 0}
NoArchive == [state |-> "none", token |-> 0,
              old   |-> [m \in Members |-> 0], items |-> [m \in Members |-> {}],
              gone  |-> {}, new |-> [m \in Members |-> 0], back |-> {}]

\* phase: where the cycle is, or "api"; op and step: the operation under way on
\* album, for the members left; the other fields are the phase's own to-do lists.
Jobs == [phase : {"idle", "api", "resume", "markers", "unmirror", "discover", "mirror"},
         op : {"none", "archive", "delete", "restore", "ensure"},
         step : {"start", "record", "verify", "describe", "map", "share", "mark", "save"},
         album : Albums, left : SUBSET Members, full : BOOLEAN,
         queue : SUBSET Albums, checks : SUBSET Pairs, hosts : SUBSET Members,
         found : SUBSET Remotes,
         saw : BOOLEAN, made : Remotes \cup {0}, draft : [Members -> SUBSET Photos]]
Idle == [phase |-> "idle", op |-> "none", step |-> "start", album |-> Together, left |-> {},
         full |-> FALSE, queue |-> {}, checks |-> {}, hosts |-> {}, found |-> {},
         saw |-> FALSE, made |-> 0, draft |-> [m \in Members |-> {}]]

Budget == [edits : 0..MaxEdits, calls : 0..MaxInputs, faults : 0..MaxFaults]

Deleted(x) == [x EXCEPT !.st = "deleted", !.shared = FALSE, !.tag = 0, !.items = {}]

Live(r)   == r \in Remotes /\ remote[r].st = "live"

\* ListAlbumAssets: a photo in the trash stays in its albums and is not listed.
Shown(r) == remote[r].items \ trashed[remote[r].owner]

\* Albums(): registered and not archived.
Active == {l \in registered : archive[l].state = "none"}

\* protectedAlbumID
Protected(r) == \E m \in Members : replica[Together][m] = r

Earlier(k, l) == AlbumRank[k] < AlbumRank[l]
FirstOf(S, l) == l \in S /\ \A k \in S : k = l \/ Earlier(l, k)
FirstMember(S, m) == m \in S /\ \A n \in S : n = m \/ MemberRank[m] < MemberRank[n]

Init ==
    /\ remote = [r \in Remotes |->
          IF r \in InitRemotes
          THEN [st |-> "live", owner |-> InitOwner[r], tag |-> 0, items |-> Photos,
                shared |-> \E l \in Albums : InitReplica[l][InitOwner[r]] = r]
          ELSE [st |-> "none", owner |-> CHOOSE m \in Members : TRUE, tag |-> 0,
                items |-> {}, shared |-> FALSE]]
    /\ lost = [m \in Members |-> {}]
    /\ trashed = [m \in Members |-> {}]
    /\ registered = {l \in Albums : \E m \in Members : InitReplica[l][m] # 0}
    /\ replica = InitReplica
    /\ marker = {w \in Pairs : InitReplica[w[1]][w[2]] # 0}
    /\ archive = [l \in Albums |-> NoArchive]
    /\ job = Idle
    /\ asked = {}
    /\ taken = {}
    /\ spent = [edits |-> 0, calls |-> 0, faults |-> 0]

-----------------------------------------------------------------------------
(* Users.                                                                  *)

Spendable(cost) == 2 * spent.edits + spent.calls + cost <= MaxInputs

Edit == /\ Spendable(2) /\ spent.edits < MaxEdits
        /\ spent' = [spent EXCEPT !.edits = @ + 1]
        /\ UNCHANGED <<sqlite, job>>

UserShare(r) ==
    /\ Live(r) /\ ~remote[r].shared
    /\ remote' = [remote EXCEPT ![r].shared = TRUE]
    /\ Edit
    /\ UNCHANGED <<lost, trashed, history>>

UserUnshare(r) ==
    /\ Live(r) /\ remote[r].shared
    /\ remote' = [remote EXCEPT ![r].shared = FALSE]
    /\ asked' = asked \cup {r}
    /\ Edit
    /\ UNCHANGED <<lost, trashed, taken>>

\* Together's own albums are left alone.
UserDeleteAlbum(r) ==
    /\ Live(r) /\ ~Protected(r)
    /\ remote' = [remote EXCEPT ![r] = Deleted(@)]
    /\ Edit
    /\ UNCHANGED <<lost, trashed, history>>

UserRemovePhoto(r, p) ==
    /\ Live(r) /\ ~Protected(r) /\ p \in Shown(r)
    /\ remote' = [remote EXCEPT ![r].items = @ \ {p}]
    /\ taken' = taken \cup {<<r, p>>}
    /\ Edit
    /\ UNCHANGED <<lost, trashed, asked>>

UserDeletePhoto(m, p) ==
    /\ p \notin lost[m]
    /\ lost' = [lost EXCEPT ![m] = @ \cup {p}]
    /\ trashed' = [trashed EXCEPT ![m] = @ \ {p}]
    /\ remote' = [r \in Remotes |-> IF remote[r].owner = m
                                    THEN [remote[r] EXCEPT !.items = @ \ {p}] ELSE remote[r]]
    /\ Edit
    /\ UNCHANGED history

UserTrashPhoto(m, p) ==
    /\ p \notin lost[m] \cup trashed[m]
    /\ trashed' = [trashed EXCEPT ![m] = @ \cup {p}]
    /\ Edit
    /\ UNCHANGED <<remote, lost, history>>

\* Each restoration follows an edit of its own.
UserRestorePhoto(m, p) ==
    /\ p \in trashed[m]
    /\ trashed' = [trashed EXCEPT ![m] = @ \ {p}]
    /\ UNCHANGED <<remote, lost, sqlite, job, history, spent>>

-----------------------------------------------------------------------------
(* Steps of an operation. An error anywhere ends the call or the cycle and *)
(* what it held in memory; what is in SQLite and Immich stays.             *)

Abort == job' = Idle

SpendFault == /\ spent.faults < MaxFaults
              /\ spent' = [spent EXCEPT !.faults = @ + 1]

Turn(op, step, m) == job.op = op /\ job.step = step /\ FirstMember(job.left, m)

To(step)     == job' = [job EXCEPT !.step = step]
MemberDone(m) == job' = [job EXCEPT !.left = @ \ {m}, !.step = "start"]
\* The API call returns, or the cycle goes on with its phase.
OpDone == job' = IF job.phase = "api" THEN Idle ELSE [job EXCEPT !.op = "none"]

Operate(op, l, left) ==
    [job EXCEPT !.op = op, !.album = l, !.left = left, !.step = "start"]

\* The remote id of the next album that is created.
Fresh(r) == r \in Remotes /\ remote[r].st = "none" /\ \A q \in 1..(r - 1) : remote[q].st # "none"

Create(r, m, tag) ==
    remote' = [remote EXCEPT ![r] = [st |-> "live", owner |-> m, shared |-> FALSE,
                                     tag |-> tag, items |-> {}]]

-----------------------------------------------------------------------------
(* unmirrorAlbum: read every mirror, archive in one transaction, then      *)
(* delete one remote album after the other, recording each.                *)

ArchiveRead(m) ==
    LET r == replica[job.album][m]
    IN  /\ Turn("archive", "start", m)
        /\ \/ /\ r = 0 \/ Live(r)
              /\ job' = [job EXCEPT !.left = @ \ {m},
                                    !.draft[m] = IF r = 0 THEN {} ELSE Shown(r)]
           \/ r # 0 /\ ~Live(r) /\ Abort
        /\ UNCHANGED <<immich, sqlite, history, spent>>

\* The confirmed shares go with the album: a restored album starts afresh.
\* Mutant: they stay.
MarkersKept(l) == marker
MarkersLeft(l) == {w \in marker : w[1] # l}

BeginAlbumDeletion ==
    LET l == job.album
    IN  /\ job.op = "archive" /\ job.left = {}
        /\ archive' = [archive EXCEPT ![l] = [NoArchive EXCEPT
                          !.state = "deleting", !.old = replica[l], !.items = job.draft]]
        /\ marker' = MarkersLeft(l)
        /\ job' = Operate("delete", l, Members)
        /\ UNCHANGED <<immich, registered, replica, history, spent>>

\* A mirror that is gone already counts as deleted.
\* Mutant: DeleteAlbum must find it.
DeleteExisting(m) ==
    LET r == archive[job.album].old[m]
    IN  /\ Turn("delete", "start", m)
        /\ \/ (Protected(r) \/ ~Live(r)) /\ Abort /\ UNCHANGED remote
           \/ /\ ~Protected(r) /\ Live(r)
              /\ remote' = [remote EXCEPT ![r] = Deleted(@)]
              /\ To("record")
        /\ UNCHANGED <<lost, trashed, sqlite, history, spent>>
DeleteRemote(m) ==
    LET r == archive[job.album].old[m]
    IN  /\ Turn("delete", "start", m)
        /\ \/ Protected(r) /\ Abort /\ UNCHANGED remote
           \/ /\ ~Protected(r)
              /\ remote' = [q \in Remotes |-> IF q = r /\ Live(q)
                                              THEN Deleted(remote[q]) ELSE remote[q]]
              /\ To("record")
        /\ UNCHANGED <<lost, trashed, sqlite, history, spent>>

SaveDeleted(m) ==
    /\ Turn("delete", "record", m)
    /\ archive' = [archive EXCEPT ![job.album].gone = @ \cup {m}]
    /\ MemberDone(m)
    /\ UNCHANGED <<immich, registered, replica, marker, history, spent>>

FinishDeletion ==
    /\ job.op = "delete" /\ job.left = {}
    /\ archive' = [archive EXCEPT ![job.album].state = "deleted"]
    /\ OpDone
    /\ UNCHANGED <<immich, registered, replica, marker, history, spent>>

-----------------------------------------------------------------------------
(* ensureTogetherShare, with the album as it was read before.              *)

ShareWithdrawn(l, m) == <<l, m>> \in marker /\ l # Together

EnsureShare(m) ==
    LET l == job.album
        r == replica[l][m]
    IN  /\ job.op \in {"restore", "ensure"} /\ job.step = "share" /\ FirstMember(job.left, m)
        /\ \/ job.saw /\ To("mark") /\ UNCHANGED remote
           \/ /\ ~job.saw /\ ~ShareWithdrawn(l, m) /\ Live(r)
              /\ remote' = [remote EXCEPT ![r].shared = TRUE]
              /\ To("mark")
           \/ /\ ~job.saw
              /\ ShareWithdrawn(l, m) \/ ~Live(r)
              /\ Abort
              /\ UNCHANGED remote
        /\ UNCHANGED <<lost, trashed, sqlite, history, spent>>

RecordAlbumMarker(m) ==
    /\ job.op \in {"restore", "ensure"} /\ job.step = "mark" /\ FirstMember(job.left, m)
    /\ marker' = marker \cup {<<job.album, m>>}
    /\ IF job.op = "restore" THEN To("save") ELSE MemberDone(m)
    /\ UNCHANGED <<immich, registered, replica, archive, history, spent>>

-----------------------------------------------------------------------------
(* finishAlbumRestore, one member after the other.                         *)

\* The albums of m that carry the tag of this restoration.
\* Mutant: none is looked for.
TaggedNone(m) == {}
Tagged(m) == {r \in Remotes : /\ Live(r) /\ remote[r].owner = m
                              /\ remote[r].tag # 0 /\ remote[r].tag = archive[job.album].token}

\* A retry adopts an album whose creation was not recorded.
FindOrCreateRestored(m) ==
    /\ Turn("restore", "start", m)
    /\ archive[job.album].new[m] = 0
    /\ \/ /\ Cardinality(Tagged(m)) > 1
          /\ Abort
          /\ UNCHANGED remote
       \/ \E r \in Tagged(m) :
             /\ Tagged(m) = {r}
             /\ job' = [job EXCEPT !.made = r, !.step = "record"]
             /\ UNCHANGED remote
       \/ \E r \in Remotes :
             /\ Tagged(m) = {} /\ Fresh(r)
             /\ Create(r, m, archive[job.album].token)
             /\ job' = [job EXCEPT !.made = r, !.step = "record"]
    /\ UNCHANGED <<lost, trashed, sqlite, history, spent>>

\* Mutant: the member counts as restored with the creation of its album.
SavedAsRestored(a, m, r) == [a EXCEPT !.new[m] = r, !.back = @ \cup {m}]
Saved(a, m, r) == [a EXCEPT !.new[m] = r]

SaveRestoredAlbum(m) ==
    LET a == Saved(archive[job.album], m, job.made)
    IN  /\ Turn("restore", "record", m)
        /\ archive' = [archive EXCEPT ![job.album] = a]
        /\ job' = [job EXCEPT !.step = "start", !.made = 0, !.left = @ \ a.back]
        /\ UNCHANGED <<immich, registered, replica, marker, history, spent>>

\* Photos that no longer exist are skipped: GetAsset finds those in the trash.
\* AddAssets may succeed for a part only.
FillRestored(m) ==
    LET a   == archive[job.album]
        r   == a.new[m]
        ids == a.items[m] \ lost[m]
    IN  /\ Turn("restore", "start", m)
        /\ r # 0
        /\ \/ /\ Live(r) /\ ~Protected(r)
              /\ \E added \in SUBSET ids :
                    /\ \/ added = ids /\ UNCHANGED spent
                       \/ added # ids /\ SpendFault
                    /\ remote' = [remote EXCEPT ![r].items = @ \cup added]
              /\ job' = [job EXCEPT !.saw = remote[r].shared, !.draft[m] = ids, !.step = "verify"]
           \/ ~(Live(r) /\ ~Protected(r)) /\ Abort /\ UNCHANGED <<remote, spent>>
        /\ UNCHANGED <<lost, trashed, sqlite, history>>

\* Every photo must be listed in the album, or have vanished meanwhile. One in
\* the trash is neither: "restored album is missing asset after addition".
\* Mutant: a successful AddAssets is trusted.
VerifyNothing(m) ==
    /\ Turn("restore", "verify", m)
    /\ To("describe")
    /\ UNCHANGED <<immich, sqlite, history, spent>>
VerifyRestored(m) ==
    LET r == archive[job.album].new[m]
    IN  /\ Turn("restore", "verify", m)
        /\ IF Live(r) /\ job.draft[m] \ Shown(r) \subseteq lost[m]
           THEN To("describe")
           ELSE Abort
        /\ UNCHANGED <<immich, sqlite, history, spent>>

\* UpdateAlbum puts the archived description in place of the tag.
DescribeRestored(m) ==
    LET r == archive[job.album].new[m]
    IN  /\ Turn("restore", "describe", m)
        /\ \/ Live(r) /\ remote' = [remote EXCEPT ![r].tag = 0] /\ To("map")
           \/ ~Live(r) /\ Abort /\ UNCHANGED remote
        /\ UNCHANGED <<lost, trashed, sqlite, history, spent>>

\* immich_album_id is UNIQUE.
MapRestored(m) ==
    LET l == job.album
        r == archive[l].new[m]
        elsewhere == \E w \in Pairs : w # <<l, m>> /\ replica[w[1]][w[2]] = r
    IN  /\ Turn("restore", "map", m)
        /\ \/ elsewhere /\ Abort /\ UNCHANGED replica
           \/ ~elsewhere /\ replica' = [replica EXCEPT ![l][m] = r] /\ To("share")
        /\ UNCHANGED <<immich, registered, marker, archive, history, spent>>

SaveRestored(m) ==
    /\ Turn("restore", "save", m)
    /\ archive' = [archive EXCEPT ![job.album].back = @ \cup {m}]
    /\ MemberDone(m)
    /\ UNCHANGED <<immich, registered, replica, marker, history, spent>>

FinishAlbumRestore ==
    /\ job.op = "restore" /\ job.left = {}
    /\ archive' = [archive EXCEPT ![job.album] = NoArchive]
    /\ OpDone
    /\ UNCHANGED <<immich, registered, replica, marker, history, spent>>

-----------------------------------------------------------------------------
(* registerWithReplicas and ensureAlbumReplicas.                           *)

\* AddAlbum, for the source album and the existing albums given with it.
Register(l, given) ==
    /\ l \in Albums \ registered
    /\ \A k \in Albums \ registered : k = l \/ Earlier(l, k)
    /\ registered' = registered \cup {l}
    /\ replica' = [replica EXCEPT ![l] = [m \in Members |->
                      IF \E r \in given : remote[r].owner = m
                      THEN CHOOSE r \in given : remote[r].owner = m ELSE 0]]
    /\ UNCHANGED <<marker, archive>>

\* Recording a share again that is confirmed already changes nothing.
LookAtReplica(m) ==
    LET r == replica[job.album][m]
    IN  /\ Turn("ensure", "start", m)
        /\ r # 0
        /\ \/ ~Live(r) /\ Abort
           \/ /\ Live(r)
              /\ IF remote[r].shared /\ <<job.album, m>> \in marker
                 THEN MemberDone(m)
                 ELSE job' = [job EXCEPT !.saw = remote[r].shared, !.step = "share"]
        /\ UNCHANGED <<immich, sqlite, history, spent>>

CreateReplica(m) ==
    /\ Turn("ensure", "start", m)
    /\ replica[job.album][m] = 0
    /\ \E r \in Remotes : /\ Fresh(r)
                          /\ Create(r, m, 0)
                          /\ job' = [job EXCEPT !.made = r, !.step = "map"]
    /\ UNCHANGED <<lost, trashed, sqlite, history, spent>>

SetAlbumReplica(m) ==
    /\ Turn("ensure", "map", m)
    /\ replica' = [replica EXCEPT ![job.album][m] = job.made]
    /\ job' = [job EXCEPT !.saw = FALSE, !.made = 0, !.step = "share"]
    /\ UNCHANGED <<immich, registered, marker, archive, history, spent>>

FinishEnsure ==
    /\ job.op = "ensure" /\ job.left = {}
    /\ OpDone
    /\ UNCHANGED <<immich, sqlite, history, spent>>

-----------------------------------------------------------------------------
(* Cycles: Work resumes open operations; Run also detects removed shares,  *)
(* discovers shared albums and completes the mirrors of every album.       *)

Phase(p) == job.phase = p /\ job.op = "none"

StartCycle(full) ==
    /\ job = Idle
    /\ job' = [Idle EXCEPT !.phase = "resume", !.full = full,
                           !.queue = {l \in Albums : archive[l].state \in {"deleting", "restoring"}}]
    /\ UNCHANGED <<immich, sqlite, history, spent>>

\* An error in one record keeps every later one, and the rest of the cycle, waiting.
ResumeNext(l) ==
    LET a == archive[l]
    IN  /\ Phase("resume") /\ FirstOf(job.queue, l)
        /\ job' = [IF a.state = "deleting" THEN Operate("delete", l, Members \ a.gone)
                                           ELSE Operate("restore", l, Members \ a.back)
                   EXCEPT !.queue = @ \ {l}]
        /\ UNCHANGED <<immich, sqlite, history, spent>>

\* Only a confirmed share can be missing.
\* Mutant: an album that was never shared counts as withdrawn.
ChecksAnyShare(l, m) == replica[l][m] # 0
ChecksShare(l, m) == <<l, m>> \in marker /\ replica[l][m] # 0

ResumeDone ==
    /\ Phase("resume") /\ job.queue = {}
    /\ job' = IF job.full
              THEN [job EXCEPT !.phase = "markers",
                               !.checks = {w \in Pairs : /\ w[1] \in Active \ {Together}
                                                          /\ ChecksShare(w[1], w[2])}]
              ELSE Idle
    /\ UNCHANGED <<immich, sqlite, history, spent>>

\* missingAlbumMarkers, one album of one member at a time.
CheckMarker(l, m) ==
    LET r == replica[l][m]
        rest == [job EXCEPT !.checks = @ \ {<<l, m>>}]
    IN  /\ Phase("markers")
        /\ FirstOf({w[1] : w \in job.checks}, l)
        /\ FirstMember({n \in Members : <<l, n>> \in job.checks}, m)
        /\ \/ ~Live(r) /\ Abort
           \/ /\ Live(r)
              /\ job' = IF remote[r].shared THEN rest ELSE [rest EXCEPT !.queue = @ \cup {l}]
        /\ UNCHANGED <<immich, sqlite, history, spent>>

MarkersDone ==
    /\ Phase("markers") /\ job.checks = {}
    /\ job' = [job EXCEPT !.phase = "unmirror"]
    /\ UNCHANGED <<immich, sqlite, history, spent>>

\* The missing albums are a Go map: any order.
UnmirrorNext(l) ==
    /\ Phase("unmirror") /\ l \in job.queue
    /\ job' = [Operate("archive", l, Members) EXCEPT !.queue = @ \ {l}]
    /\ UNCHANGED <<immich, sqlite, history, spent>>

UnmirrorDone ==
    /\ Phase("unmirror") /\ job.queue = {}
    /\ job' = [job EXCEPT !.phase = "discover", !.hosts = Members]
    /\ UNCHANGED <<immich, sqlite, history, spent>>

\* discoverTogetherAlbums: list the albums of one member after the other.
ListShared(m) ==
    /\ Phase("discover") /\ job.found = {} /\ FirstMember(job.hosts, m)
    /\ job' = [job EXCEPT !.hosts = @ \ {m},
                          !.found = {r \in Remotes : /\ Live(r) /\ remote[r].owner = m
                                                     /\ remote[r].shared}]
    /\ UNCHANGED <<immich, sqlite, history, spent>>

\* AlbumByReplica. Mutant: the mirrors of an archived album do not count.
MappedActive(r) == \E l \in Active, m \in Members : replica[l][m] = r
Mapped(r) == \E l \in Albums, m \in Members : replica[l][m] = r

RegisterFound(r) ==
    /\ Phase("discover") /\ r \in job.found
    /\ \/ /\ Mapped(r)
          /\ job' = [job EXCEPT !.found = @ \ {r}]
          /\ UNCHANGED sqlite
       \/ ~Mapped(r) /\ ~Live(r) /\ Abort /\ UNCHANGED sqlite
       \/ /\ ~Mapped(r) /\ Live(r)
          /\ \E l \in Albums : /\ Register(l, {r})
                               /\ job' = [Operate("ensure", l, Members) EXCEPT !.found = @ \ {r}]
    /\ UNCHANGED <<immich, history, spent>>

DiscoverDone ==
    /\ Phase("discover") /\ job.hosts = {} /\ job.found = {}
    /\ job' = [job EXCEPT !.phase = "mirror", !.queue = Active]
    /\ UNCHANGED <<immich, sqlite, history, spent>>

MirrorNext(l) ==
    /\ Phase("mirror") /\ FirstOf(job.queue, l)
    /\ job' = [Operate("ensure", l, Members) EXCEPT !.queue = @ \ {l}]
    /\ UNCHANGED <<immich, sqlite, history, spent>>

MirrorDone ==
    /\ Phase("mirror") /\ job.queue = {}
    /\ job' = Idle
    /\ UNCHANGED <<immich, sqlite, history, spent>>

-----------------------------------------------------------------------------
(* The HTTP API. A call that is rejected changes nothing and is left out.  *)

Call == /\ job = Idle
        /\ Spendable(1)
        /\ spent' = [spent EXCEPT !.calls = @ + 1]

Request(op, l, left) == job' = [Operate(op, l, left) EXCEPT !.phase = "api"]

CallUnmirror(l) ==
    /\ Call
    /\ l \in registered \ {Together}
    /\ \/ archive[l].state = "none" /\ Request("archive", l, Members)
       \/ archive[l].state = "deleting" /\ Request("delete", l, Members \ archive[l].gone)
    /\ asked' = asked \cup ({replica[l][m] : m \in Members} \ {0})
    /\ UNCHANGED <<immich, sqlite, taken>>

\* Mutant: a restoration starts without a token.
RestoringUntagged(a) == [a EXCEPT !.state = "restoring"]
Restoring(a) == [a EXCEPT !.state = "restoring", !.token = spent.calls + 1]

CallRestore(l) ==
    /\ Call
    /\ archive[l].state \in {"deleted", "restoring"}
    /\ archive' = IF archive[l].state = "deleted"
                  THEN [archive EXCEPT ![l] = Restoring(@)] ELSE archive
    /\ Request("restore", l, Members \ archive[l].back)
    /\ UNCHANGED <<immich, registered, replica, marker, history>>

\* given: the source album and the existing albums of other members, none of
\* them registered.
CallRegister(given) ==
    /\ Call
    /\ given # {}
    /\ \A q, r \in given : remote[q].owner = remote[r].owner => q = r
    /\ \E l \in Albums : Register(l, given) /\ Request("ensure", l, Members)
    /\ UNCHANGED <<immich, history>>

\* Registering a known album again completes its mirrors.
CallRegisterAgain(l) ==
    /\ Call
    /\ l \in Active
    /\ Request("ensure", l, Members)
    /\ UNCHANGED <<immich, sqlite, history>>

-----------------------------------------------------------------------------
(* A crash, a cancelled context, a failed request or transaction.          *)

Fault ==
    /\ job # Idle
    /\ SpendFault
    /\ Abort
    /\ UNCHANGED <<immich, sqlite, history>>

User ==
    \/ \E r \in Remotes : UserShare(r) \/ UserUnshare(r) \/ UserDeleteAlbum(r)
    \/ \E r \in Remotes, p \in Photos : UserRemovePhoto(r, p)
    \/ \E m \in Members, p \in Photos :
          UserDeletePhoto(m, p) \/ UserTrashPhoto(m, p) \/ UserRestorePhoto(m, p)

Api ==
    \/ \E l \in Albums : CallUnmirror(l) \/ CallRestore(l) \/ CallRegisterAgain(l)
    \/ \E given \in SUBSET {r \in Remotes : Live(r) /\ ~Mapped(r)} : CallRegister(given)

Operation ==
    \/ \E m \in Members :
          \/ ArchiveRead(m) \/ DeleteRemote(m) \/ SaveDeleted(m)
          \/ FindOrCreateRestored(m) \/ SaveRestoredAlbum(m) \/ FillRestored(m)
          \/ VerifyRestored(m) \/ DescribeRestored(m) \/ MapRestored(m) \/ SaveRestored(m)
          \/ EnsureShare(m) \/ RecordAlbumMarker(m)
          \/ LookAtReplica(m) \/ CreateReplica(m) \/ SetAlbumReplica(m)
    \/ BeginAlbumDeletion \/ FinishDeletion \/ FinishAlbumRestore \/ FinishEnsure

Cycle ==
    \/ \E l \in Albums : ResumeNext(l) \/ UnmirrorNext(l) \/ MirrorNext(l)
    \/ \E l \in Albums, m \in Members : CheckMarker(l, m)
    \/ \E m \in Members : ListShared(m)
    \/ \E r \in Remotes : RegisterFound(r)
    \/ ResumeDone \/ MarkersDone \/ UnmirrorDone \/ DiscoverDone \/ MirrorDone

Next == User \/ Api \/ Operation \/ Cycle \/ Fault \/ \E full \in BOOLEAN : StartCycle(full)

Spec == Init /\ [][Next]_vars

\* A cycle and a call go on, since requests have time-outs; after each polling
\* interval a cycle starts, and after each discovery interval a full one.
FairSpec ==
    /\ Spec
    /\ WF_vars(Operation \/ Cycle)
    /\ WF_vars(\E full \in BOOLEAN : StartCycle(full))
    /\ SF_vars(StartCycle(TRUE))

-----------------------------------------------------------------------------
(* Properties.                                                             *)

\* Types; a restoration under way has its token, without which
\* finishAlbumRestore rejects it ("invalid album restoration state").
TypeOK ==
    /\ remote \in [Remotes -> RemoteAlbums]
    /\ lost \in [Members -> SUBSET Photos]
    /\ trashed \in [Members -> SUBSET Photos]
    /\ registered \subseteq Albums
    /\ replica \in [Albums -> Owners]
    /\ marker \subseteq Pairs
    /\ archive \in [Albums -> Archives]
    /\ job \in Jobs
    /\ asked \subseteq Remotes
    /\ taken \subseteq Remotes \X Photos
    /\ spent \in Budget

\* The archive, the mappings and Immich agree while a deletion or a restoration
\* is interrupted: a mapping is replaced only by the restored album, an album
\* counts as deleted when its mirrors are gone, and a member as restored when
\* its new album is mapped and its share confirmed.
ArchiveAgrees ==
    \A l \in Albums : archive[l].state # "none" =>
        LET a == archive[l]
        IN  \A m \in Members :
               /\ replica[l][m] \in {a.old[m], a.new[m]}
               /\ m \in a.gone => ~Live(a.old[m])
               /\ a.state # "deleting" => m \in a.gone
               /\ m \in a.back => /\ a.new[m] # 0 /\ replica[l][m] = a.new[m]
                                  /\ <<l, m>> \in marker

\* A mirror that still exists while its album is archived is not registered
\* again as an album of its own (comment on discoverTogetherAlbums).
ArchivedNotRediscovered ==
    \A k, l \in Albums, m \in Members :
        archive[l].state # "none" /\ archive[l].old[m] # 0 /\ replica[k][m] = archive[l].old[m]
            => k = l

\* A restoration creates one album per member however often it is retried, and
\* a tagged album belongs to a restoration that is under way and not yet done
\* for its owner.
OneRestoredAlbum ==
    /\ \A q, r \in Remotes :
          Live(q) /\ Live(r) /\ remote[q].tag # 0
              /\ remote[q].tag = remote[r].tag /\ remote[q].owner = remote[r].owner => q = r
    /\ \A r \in Remotes : Live(r) /\ remote[r].tag # 0 =>
          \E l \in Albums : /\ archive[l].state = "restoring"
                            /\ archive[l].token = remote[r].tag
                            /\ archive[l].new[remote[r].owner] \in {0, r}
                            /\ remote[r].owner \notin archive[l].back

\* The bridge deletes a remote album only when it is archived, and somebody
\* asked for it: through the API, or by removing the Together user from one of
\* the mirrors. Together itself is never deleted.
DeletesOnlyRequested ==
    [][\A r \in Remotes :
          Live(r) /\ remote'[r].st = "deleted" /\ spent'.edits = spent.edits =>
              /\ ~Protected(r)
              /\ \E l \in Albums : /\ archive[l].state = "deleting"
                                   /\ \E m \in Members : archive[l].old[m] = r
                                   /\ \E m \in Members : archive[l].old[m] \in asked]_vars

\* When the archive record is dropped, every member has a mapped new album with
\* all archived photos, except those a user took out or deleted for good, unless
\* a user deleted the new album.
ContentsRestored ==
    [][\A l \in Albums : archive[l].state = "restoring" /\ archive'[l].state = "none" =>
          \A m \in Members :
              LET r == replica[l][m]
              IN  /\ r = archive[l].new[m] /\ r # 0
                  /\ Live(r) => /\ remote[r].tag = 0
                                /\ \A p \in archive[l].items[m] :
                                      p \in remote[r].items \cup lost[m] \/ <<r, p>> \in taken]_vars

\* What the bridge is driving at: nothing half deleted or half restored, every
\* album mirrored and shared for every member, every shared album registered.
Settled ==
    /\ \A l \in Albums : archive[l].state \in {"none", "deleted"}
    /\ \A l \in Active, m \in Members :
          LET r == replica[l][m]
          IN  Live(r) /\ remote[r].shared /\ <<l, m>> \in marker
    /\ \A r \in Remotes : Live(r) /\ remote[r].shared => Mapped(r)

\* The reasons why every cycle fails, for all albums: a user deleted a mirror or
\* a new album of a restoration, registered the latter on its own, withdrew its
\* share before the restoration was recorded, or has a photo of the archive in
\* the trash, which is added to the new album and never listed there.
Blocked ==
    \/ \E l \in Active, m \in Members : replica[l][m] # 0 /\ ~Live(replica[l][m])
    \/ \E l \in Albums, m \in Members :
          LET r == archive[l].new[m]
          IN  /\ archive[l].state = "restoring" /\ r # 0 /\ m \notin archive[l].back
              /\ \/ ~Live(r)
                 \/ \E k \in Albums \ {l} : replica[k][m] = r
                 \/ r \in asked /\ ~remote[r].shared
                 \/ archive[l].items[m] \cap trashed[m] # {}

\* Interrupted operations are resumed until nothing is left to do, unless a user
\* interfered in a way that needs the operator.
Resumes == <>[](Settled \/ Blocked)
=============================================================================
