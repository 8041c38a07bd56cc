------------------------ MODULE AlbumLifecycle_proofs ------------------------
(* Archive, mappings and Immich agree through every crash of AlbumLifecycle; *)
(* what is deleted was asked for, and what is restored is complete.          *)
EXTENDS AlbumLifecycle, TLAPS

-----------------------------------------------------------------------------
(* The inductive invariant: remote albums, tables and archives.            *)

\* A remote album of m's account that was created.
Existing(r, m) == remote[r].st # "none" /\ remote[r].owner = m

\* Mirrors, archived or not, and restored albums are albums of their members.
MirrorsExist ==
    \A l \in Albums, m \in Members :
       /\ replica[l][m] # 0 => Existing(replica[l][m], m)
       /\ archive[l].old[m] # 0 => Existing(archive[l].old[m], m)
       /\ archive[l].new[m] # 0 => Existing(archive[l].new[m], m)

\* No remote album mirrors two logical ones.
MirrorsUnique ==
    \A k, l \in Albums, m \in Members : replica[k][m] = replica[l][m] /\ k # l => replica[k][m] = 0

\* A registered album has a mirror; another one has neither mirrors nor an archive.
RegisteredAreMirrored ==
    \A l \in Albums :
       IF l \in registered THEN \E m \in Members : replica[l][m] # 0
       ELSE archive[l].state = "none" /\ \A m \in Members : replica[l][m] = 0

\* A mirror is shared unless a user asked for its album to go.
SharedOrAsked(r) == Live(r) => remote[r].shared \/ r \in asked

\* A confirmed share is one of the mirror that is mapped, after a restoration the new one.
MarkersConfirmed ==
    \A l \in Albums, m \in Members : <<l, m>> \in marker =>
       /\ replica[l][m] # 0 /\ SharedOrAsked(replica[l][m])
       /\ archive[l].state # "none" => replica[l][m] = archive[l].new[m]

\* m's restored album has what the archive has, or users took it out.
Complete(l, m) ==
    LET r == archive[l].new[m]
    IN  Live(r) => \A p \in archive[l].items[m] :
                      p \in remote[r].items \cup lost[m] \/ <<r, p>> \in taken

Untagged(l, m) == Live(archive[l].new[m]) => remote[archive[l].new[m]].tag = 0

\* What an archived album is waiting for.
ArchiveInOrder ==
    \A l \in Albums : archive[l].state # "none" =>
       /\ archive[l].state = "deleting" => \E m \in Members : archive[l].old[m] \in asked
       /\ \A m \in Members :
             /\ archive[l].new[m] = 0 => replica[l][m] = archive[l].old[m]
             /\ archive[l].state # "restoring" => archive[l].new[m] = 0
             /\ m \in archive[l].back => Complete(l, m) /\ Untagged(l, m)

StateTypeOK ==
    /\ remote \in [Remotes -> RemoteAlbums]
    /\ lost \in [Members -> SUBSET Photos]
    /\ trashed \in [Members -> SUBSET Photos]
    /\ registered \subseteq Albums
    /\ replica \in [Albums -> Owners]
    /\ marker \subseteq Pairs
    /\ archive \in [Albums -> Archives]
    /\ asked \subseteq Remotes
    /\ taken \subseteq Remotes \X Photos
    /\ spent \in Budget

TablesInv ==
    /\ StateTypeOK /\ MirrorsExist /\ MirrorsUnique /\ RegisteredAreMirrored
    /\ MarkersConfirmed /\ ArchiveInOrder /\ ArchiveAgrees /\ ArchivedNotRediscovered

StateInv == TablesInv /\ OneRestoredAlbum

-----------------------------------------------------------------------------
(* The inductive invariant: what the bridge process has in memory.         *)

\* A phase runs its own operations only.
PhaseInOrder ==
    /\ job.phase \in {"idle", "markers"} => job.op = "none"
    /\ job.phase = "resume" => job.op \in {"none", "delete", "restore"}
    /\ job.phase = "unmirror" => job.op \in {"none", "archive", "delete"}
    /\ job.phase \in {"discover", "mirror"} => job.op \in {"none", "ensure"}

IsActive(l) == l \in registered /\ archive[l].state = "none"
AskedFor(l) == \E m \in Members : replica[l][m] \in asked

\* What a phase has still to do is to be done when it comes to it.
QueueInOrder ==
    /\ job.phase \in {"resume", "unmirror"} /\ job.op # "none" => job.album \notin job.queue
    /\ job.phase = "resume" => \A l \in job.queue : archive[l].state \in {"deleting", "restoring"}
    /\ job.phase = "markers" => \A w \in job.checks : w \in marker /\ IsActive(w[1])
    /\ job.phase \in {"markers", "unmirror"} => \A l \in job.queue : IsActive(l) /\ AskedFor(l)
    /\ job.phase = "mirror" => \A l \in job.queue : IsActive(l)

\* The steps of finishAlbumRestore for m.
RestoreInOrder(m) ==
    LET l == job.album
        a == archive[l]
        r == a.new[m]
    IN  /\ job.step = "record" =>
              /\ r = 0 /\ job.made # 0 /\ Existing(job.made, m)
              /\ \A q \in Remotes :
                    Live(q) /\ remote[q].owner = m /\ remote[q].tag = a.token => q = job.made
        /\ job.step \in {"verify", "describe", "map", "share", "mark", "save"} => r # 0
        /\ job.step = "verify" => a.items[m] \ job.draft[m] \subseteq lost[m]
        /\ job.step \in {"describe", "map", "share", "mark", "save"} => Complete(l, m)
        /\ job.step \in {"map", "share", "mark", "save"} => Untagged(l, m)
        /\ job.step \in {"verify", "describe", "map"} =>
              \A k \in Albums \ {l} :
                 archive[k].state # "none" /\ archive[k].old[m] = r => m \notin archive[k].gone
        /\ job.step \in {"share", "mark", "save"} => replica[l][m] = r
        /\ job.step \in {"verify", "describe", "map", "share"} /\ job.saw => SharedOrAsked(r)
        /\ job.step = "mark" => SharedOrAsked(r)
        /\ job.step = "save" => <<l, m>> \in marker

\* The steps of ensureAlbumReplicas for m.
EnsureInOrder(m) ==
    LET l == job.album
    IN  /\ job.step = "map" =>
              /\ job.made # 0 /\ Existing(job.made, m) /\ replica[l][m] = 0
              /\ \A k \in Albums : job.made \notin {replica[k][m], archive[k].old[m]}
        /\ job.step \in {"share", "mark"} => replica[l][m] # 0
        /\ job.step = "share" /\ job.saw => SharedOrAsked(replica[l][m])
        /\ job.step = "mark" => SharedOrAsked(replica[l][m])

\* What an operation has done for those members that are not left, and for the next one.
OperationInOrder ==
    LET l == job.album
    IN  /\ job.op = "archive" => IsActive(l) /\ AskedFor(l)
        /\ job.op = "delete" =>
              /\ archive[l].state = "deleting" /\ Members \ job.left \subseteq archive[l].gone
              /\ job.step = "record" =>
                    \A m \in Members : FirstMember(job.left, m) => ~Live(archive[l].old[m])
        /\ job.op = "restore" =>
              /\ archive[l].state = "restoring" /\ job.left = Members \ archive[l].back
              /\ \A m \in Members : FirstMember(job.left, m) => RestoreInOrder(m)
        /\ job.op = "ensure" =>
              /\ IsActive(l)
              /\ \A m \in Members : FirstMember(job.left, m) => EnsureInOrder(m)

JobInv == job \in Jobs /\ PhaseInOrder /\ QueueInOrder /\ OperationInOrder

Inv == StateInv /\ JobInv

-----------------------------------------------------------------------------
(* What a step may do to remote albums.                                    *)

\* An album that is there changes as users and the bridge let it: it is not created
\* again, its tag is only taken off, and a share or a photo goes on request only.
Evolves(r) ==
    remote[r].st # "none" =>
       /\ remote'[r].owner = remote[r].owner /\ remote'[r].st # "none"
       /\ remote'[r].st = "live" =>
             /\ remote[r].st = "live"
             /\ remote'[r].tag \in {remote[r].tag, 0}
             /\ remote[r].shared => remote'[r].shared \/ r \in asked'
             /\ \A p \in remote[r].items :
                   p \in remote'[r].items \cup lost'[remote[r].owner] \/ <<r, p>> \in taken'

World ==
    /\ \A r \in Remotes : Evolves(r)
    /\ asked \subseteq asked' /\ taken \subseteq taken'
    /\ \A m \in Members : lost[m] \subseteq lost'[m]

\* No album gets a tag.
NoNewTag ==
    \A r \in Remotes : Live(r)' /\ remote'[r].tag # 0 =>
       Live(r) /\ remote'[r].tag = remote[r].tag /\ remote'[r].owner = remote[r].owner

\* What is known of an album that was created stays true.
LEMMA WorldFacts ==
    ASSUME StateTypeOK, World
    PROVE  /\ \A r \in Remotes : remote[r].st # "none" =>
                 (Live(r)' => Live(r)) /\ (SharedOrAsked(r) => SharedOrAsked(r)')
           /\ \A r \in Remotes, m \in Members : Existing(r, m) => Existing(r, m)'
BY DEF StateTypeOK, World, Evolves, Live, SharedOrAsked, Existing

\* What a restored album has stays there, and its tag off.
LEMMA RestoredFacts ==
    ASSUME StateTypeOK, MirrorsExist, World, NEW l \in Albums, NEW m \in Members,
           archive[l].new[m] # 0, archive'[l] = archive[l]
    PROVE  /\ Complete(l, m) => Complete(l, m)'
           /\ Untagged(l, m) => Untagged(l, m)'
<1> DEFINE r == archive[l].new[m]
<1>1. r \in Remotes /\ remote[r].st # "none" /\ remote[r].owner = m
    BY DEF StateTypeOK, Archives, Records, Owners, MirrorsExist, Existing
<1>2. ASSUME Complete(l, m) PROVE Complete(l, m)'
    <2> SUFFICES ASSUME Live(r)', NEW p \in archive[l].items[m]
                 PROVE  p \in remote'[r].items \cup lost'[m] \/ <<r, p>> \in taken'
        BY DEF Complete
    <2>1. Live(r)
        BY <1>1, WorldFacts
    <2>2. p \in remote[r].items \cup lost[m] \/ <<r, p>> \in taken
        BY <1>2, <2>1 DEF Complete
    <2> QED
        BY <1>1, <2>2 DEF World, Evolves, Live
<1>3. ASSUME Untagged(l, m) PROVE Untagged(l, m)'
    BY <1>1, <1>3, WorldFacts DEF Untagged, World, Evolves, Live
<1> QED
    BY <1>2, <1>3

\* The tables are right about albums that change.
LEMMA WorldKeeps ==
    ASSUME TablesInv, World, StateTypeOK', UNCHANGED sqlite
    PROVE  TablesInv'
<1> USE DEF TablesInv, sqlite
<1>1. \A l \in Albums, m \in Members :
         /\ replica[l][m] \in Remotes \cup {0}
         /\ archive[l].old[m] \in Remotes \cup {0} /\ archive[l].new[m] \in Remotes \cup {0}
    BY DEF StateTypeOK, Archives, Records, Owners
<1>2. MirrorsExist'
    BY <1>1, WorldFacts DEF MirrorsExist
<1>3. MirrorsUnique' /\ RegisteredAreMirrored' /\ ArchivedNotRediscovered'
    BY DEF MirrorsUnique, RegisteredAreMirrored, ArchivedNotRediscovered
<1>4. MarkersConfirmed'
    BY <1>1, WorldFacts DEF MarkersConfirmed, MirrorsExist, Existing
<1>5. ArchiveAgrees'
    <2>1. \A l \in Albums, m \in Members : ~Live(archive[l].old[m]) => ~Live(archive[l].old[m])'
        BY <1>1, WorldFacts DEF MirrorsExist, Existing, Live, Remotes
    <2> QED
        BY <2>1 DEF ArchiveAgrees
<1>6. ArchiveInOrder'
    <2>1. ASSUME NEW l \in Albums, archive[l].state # "none", NEW m \in Members,
                 m \in archive[l].back
          PROVE  Complete(l, m)' /\ Untagged(l, m)'
        BY <2>1, RestoredFacts DEF ArchiveInOrder, ArchiveAgrees
    <2> QED
        BY <2>1 DEF ArchiveInOrder, World
<1> QED
    BY <1>2, <1>3, <1>4, <1>5, <1>6

\* A restoration still has one album per member.
LEMMA TagsKeep ==
    ASSUME OneRestoredAlbum, StateTypeOK, NoNewTag, UNCHANGED archive
    PROVE  OneRestoredAlbum'
BY DEF OneRestoredAlbum, StateTypeOK, RemoteAlbums, NoNewTag

-----------------------------------------------------------------------------
(* Users.                                                                  *)

\* What an album of the tables is.
LEMMA TableTypes ==
    ASSUME StateTypeOK
    PROVE  /\ \A l \in Albums, m \in Members :
                 /\ replica[l][m] \in Remotes \cup {0}
                 /\ archive[l].old[m] \in Remotes \cup {0} /\ archive[l].new[m] \in Remotes \cup {0}
                 /\ archive[l].items[m] \subseteq Photos
           /\ \A l \in Albums :
                 /\ archive[l] \in Records
                 /\ archive[l].state = "restoring" => archive[l].token # 0
           /\ \A r \in Remotes : remote[r] \in RemoteAlbums
BY DEF StateTypeOK, Archives, Records, Owners

\* A deleted album is an album still, of the same owner.
LEMMA DeletedAlbum ==
    ASSUME NEW x \in RemoteAlbums
    PROVE  /\ Deleted(x) \in RemoteAlbums
           /\ Deleted(x).st = "deleted" /\ Deleted(x).owner = x.owner
<1>1. 0 \in Tags
    BY LifecycleAssumption DEF Tags
<1> DEFINE a == [x EXCEPT !.st = "deleted"]
           b == [a EXCEPT !.shared = FALSE]
           c == [b EXCEPT !.tag = 0]
<1>2. a \in RemoteAlbums /\ a.st = "deleted" /\ a.owner = x.owner
    BY DEF RemoteAlbums
<1> HIDE DEF a
<1>3. b \in RemoteAlbums /\ b.st = "deleted" /\ b.owner = x.owner
    BY <1>2 DEF RemoteAlbums
<1> HIDE DEF b
<1>4. c \in RemoteAlbums /\ c.st = "deleted" /\ c.owner = x.owner
    BY <1>1, <1>3 DEF RemoteAlbums
<1> HIDE DEF c
<1>5. [c EXCEPT !.items = {}] \in RemoteAlbums /\ [c EXCEPT !.items = {}].st = "deleted"
      /\ [c EXCEPT !.items = {}].owner = x.owner
    BY <1>4 DEF RemoteAlbums
<1>6. Deleted(x) = [c EXCEPT !.items = {}]
    BY DEF Deleted, a, b, c
<1> QED
    BY <1>5, <1>6

\* An album that is shared, gets photos or loses its tag is one the bridge may change so.
Grown(x, y) ==
    /\ y \in RemoteAlbums /\ y.st = x.st /\ y.owner = x.owner /\ y.tag \in {x.tag, 0}
    /\ (x.shared => y.shared) /\ x.items \subseteq y.items

LEMMA GrownAlbums ==
    ASSUME NEW x \in RemoteAlbums, NEW s \in SUBSET Photos
    PROVE  /\ Grown(x, [x EXCEPT !.shared = TRUE]) /\ [x EXCEPT !.shared = TRUE].shared
           /\ Grown(x, [x EXCEPT !.items = @ \cup s])
           /\ Grown(x, [x EXCEPT !.tag = 0]) /\ [x EXCEPT !.tag = 0].tag = 0
<1>1. 0 \in Tags
    BY LifecycleAssumption DEF Tags
<1>2. Grown(x, [x EXCEPT !.shared = TRUE]) /\ [x EXCEPT !.shared = TRUE].shared
    BY DEF RemoteAlbums, Grown
<1>3. Grown(x, [x EXCEPT !.items = @ \cup s])
    BY DEF RemoteAlbums, Grown
<1>4. Grown(x, [x EXCEPT !.tag = 0]) /\ [x EXCEPT !.tag = 0].tag = 0
    BY <1>1 DEF RemoteAlbums, Grown
<1> QED
    BY <1>2, <1>3, <1>4

LEMMA AlbumGrows ==
    ASSUME StateTypeOK, NEW r \in Remotes, Live(r), NEW y, Grown(remote[r], y),
           remote' = [remote EXCEPT ![r] = y], UNCHANGED <<lost, asked, taken>>
    PROVE  /\ remote' \in [Remotes -> RemoteAlbums] /\ remote'[r] = y
           /\ World /\ NoNewTag /\ \A q \in Remotes : Live(q) => Live(q)'
<1>1. remote \in [Remotes -> RemoteAlbums] /\ y \in RemoteAlbums
    BY DEF StateTypeOK, Grown
<1>2. /\ remote' \in [Remotes -> RemoteAlbums] /\ remote'[r] = y
      /\ \A q \in Remotes : q # r => remote'[q] = remote[q]
    BY <1>1
<1>3. \A q \in Remotes : Evolves(q)
    BY <1>1, <1>2 DEF Evolves, Grown, RemoteAlbums
<1>4. World
    BY <1>3 DEF World
<1>5. NoNewTag /\ \A q \in Remotes : Live(q) => Live(q)'
    BY <1>2 DEF NoNewTag, Live, Grown
<1> QED
    BY <1>2, <1>4, <1>5

LEMMA AlbumsStay ==
    ASSUME StateTypeOK, UNCHANGED <<remote, lost, taken>>, asked \subseteq asked'
    PROVE  World /\ NoNewTag /\ remote' \in [Remotes -> RemoteAlbums]
<1>1. \A r \in Remotes : remote'[r] = remote[r] /\ remote[r] \in RemoteAlbums
    BY DEF StateTypeOK
<1>2. \A r \in Remotes : Evolves(r)
    BY <1>1 DEF Evolves
<1>3. NoNewTag
    BY <1>1 DEF NoNewTag, Live
<1> QED
    BY <1>2, <1>3 DEF World, StateTypeOK

\* The bounds.
LEMMA CallCounted ==
    ASSUME spent \in Budget, 2 * spent.edits + spent.calls + 1 <= MaxInputs,
           spent' = [spent EXCEPT !.calls = @ + 1]
    PROVE  spent' \in Budget /\ spent.calls + 1 \in Tags /\ spent.calls + 1 # 0
<1>1. spent.edits \in Nat /\ spent.calls \in Nat /\ spent.calls + 1 \in 0..MaxInputs
    BY LifecycleAssumption DEF Budget
<1>2. spent' \in Budget
    BY <1>1 DEF Budget
<1> QED
    BY <1>1, <1>2 DEF Tags

LEMMA EditCounted ==
    ASSUME spent \in Budget, spent.edits < MaxEdits, spent' = [spent EXCEPT !.edits = @ + 1]
    PROVE  spent' \in Budget
<1>1. spent.edits \in Nat /\ spent.edits + 1 \in 0..MaxEdits
    BY LifecycleAssumption DEF Budget
<1> QED
    BY <1>1 DEF Budget

LEMMA FaultCounted ==
    ASSUME spent \in Budget, SpendFault
    PROVE  spent' \in Budget
<1>1. spent.faults \in Nat /\ spent.faults + 1 \in 0..MaxFaults
    BY LifecycleAssumption DEF Budget, SpendFault
<1> QED
    BY <1>1 DEF Budget, SpendFault

\* Users change albums as World says, tag none, and touch nothing of the bridge.
LEMMA UserEvolves ==
    ASSUME StateTypeOK, User
    PROVE  /\ StateTypeOK' /\ World /\ NoNewTag
           /\ UNCHANGED <<sqlite, job>>
<1>1. /\ remote \in [Remotes -> RemoteAlbums] /\ lost \in [Members -> SUBSET Photos]
      /\ trashed \in [Members -> SUBSET Photos]
      /\ asked \subseteq Remotes /\ taken \subseteq Remotes \X Photos /\ spent \in Budget
    BY DEF StateTypeOK
<1>2. UNCHANGED <<sqlite, job>> /\ (Edit \/ UNCHANGED spent)
    BY DEF User, UserShare, UserUnshare, UserDeleteAlbum, UserRemovePhoto, UserDeletePhoto,
           UserTrashPhoto, UserRestorePhoto, Edit
<1>3. spent' \in Budget
    BY <1>1, <1>2, EditCounted DEF Edit
<1>4. SUFFICES /\ remote' \in [Remotes -> RemoteAlbums] /\ lost' \in [Members -> SUBSET Photos]
               /\ trashed' \in [Members -> SUBSET Photos]
               /\ asked' \subseteq Remotes /\ taken' \subseteq Remotes \X Photos
               /\ World /\ NoNewTag
    BY <1>2, <1>3 DEF StateTypeOK, sqlite
<1> USE <1>1 DEF RemoteAlbums, World, Evolves, NoNewTag, Live, history, Tags
<1>5. CASE \E r \in Remotes : UserShare(r)
    <2>1. PICK r \in Remotes : UserShare(r)
        BY <1>5
    <2>2. remote' = [remote EXCEPT ![r].shared = TRUE] /\ UNCHANGED <<lost, trashed, asked, taken>>
        BY <2>1 DEF UserShare
    <2>3. remote' \in [Remotes -> RemoteAlbums]
        BY <2>2
    <2>4. World /\ NoNewTag
        BY <2>2
    <2> QED
        BY <2>2, <2>3, <2>4
<1>6. CASE \E r \in Remotes : UserUnshare(r)
    <2>1. PICK r \in Remotes : UserUnshare(r)
        BY <1>6
    <2>2. /\ remote' = [remote EXCEPT ![r].shared = FALSE]
          /\ asked' = asked \cup {r} /\ UNCHANGED <<lost, trashed, taken>>
        BY <2>1 DEF UserUnshare
    <2>3. remote' \in [Remotes -> RemoteAlbums]
        BY <2>2
    <2>4. World /\ NoNewTag
        BY <2>2
    <2> QED
        BY <2>2, <2>3, <2>4
<1>7. CASE \E r \in Remotes : UserDeleteAlbum(r)
    <2>1. PICK r \in Remotes : UserDeleteAlbum(r)
        BY <1>7
    <2>2. /\ remote' = [remote EXCEPT ![r] = Deleted(@)] /\ remote[r].st = "live"
          /\ UNCHANGED <<lost, trashed, asked, taken>>
        BY <2>1 DEF UserDeleteAlbum
    <2>3. Deleted(remote[r]) \in RemoteAlbums /\ Deleted(remote[r]).st = "deleted"
          /\ Deleted(remote[r]).owner = remote[r].owner
        BY DeletedAlbum
    <2>4. World /\ NoNewTag
        BY <2>2, <2>3
    <2> QED
        BY <2>2, <2>3, <2>4
<1>8. CASE \E r \in Remotes, p \in Photos : UserRemovePhoto(r, p)
    BY <1>8 DEF UserRemovePhoto, Shown
<1>9. CASE \E m \in Members, p \in Photos : UserDeletePhoto(m, p)
    <2>1. PICK m \in Members, p \in Photos : UserDeletePhoto(m, p)
        BY <1>9
    <2> DEFINE without(r) == [remote[r] EXCEPT !.items = @ \ {p}]
    <2>2. \A r \in Remotes : /\ without(r) \in RemoteAlbums /\ without(r).st = remote[r].st
                             /\ without(r).owner = remote[r].owner /\ without(r).tag = remote[r].tag
                             /\ without(r).shared = remote[r].shared
                             /\ without(r).items = remote[r].items \ {p}
        OBVIOUS
    <2>3. /\ remote' = [r \in Remotes |-> IF remote[r].owner = m THEN without(r) ELSE remote[r]]
          /\ lost' = [lost EXCEPT ![m] = @ \cup {p}] /\ UNCHANGED <<asked, taken>>
        BY <2>1 DEF UserDeletePhoto
    <2> HIDE DEF without
    <2>4. /\ remote' \in [Remotes -> RemoteAlbums]
          /\ \A r \in Remotes : remote'[r] = IF remote[r].owner = m THEN without(r) ELSE remote[r]
        BY <2>2, <2>3
    <2>5. /\ lost' \in [Members -> SUBSET Photos] /\ lost'[m] = lost[m] \cup {p}
          /\ \A n \in Members : lost[n] \subseteq lost'[n]
        BY <2>3
    <2>9. trashed' \in [Members -> SUBSET Photos]
        BY <2>1 DEF UserDeletePhoto
    <2>6. \A r \in Remotes : Evolves(r)
        BY <2>2, <2>3, <2>4, <2>5
    <2>7. World
        BY <2>3, <2>5, <2>6
    <2>8. NoNewTag
        BY <2>2, <2>4
    <2> QED
        BY <2>3, <2>4, <2>5, <2>7, <2>8, <2>9
<1>10. CASE \E m \in Members, p \in Photos : UserTrashPhoto(m, p) \/ UserRestorePhoto(m, p)
    <2>1. UNCHANGED <<remote, lost, asked, taken>>
        BY <1>10 DEF UserTrashPhoto, UserRestorePhoto
    <2>2. trashed' \in [Members -> SUBSET Photos]
        BY <1>10 DEF UserTrashPhoto, UserRestorePhoto
    <2>3. World /\ NoNewTag
        BY <2>1, AlbumsStay
    <2> QED
        BY <2>1, <2>2, <2>3
<1> QED
    BY <1>5, <1>6, <1>7, <1>8, <1>9, <1>10 DEF User

-----------------------------------------------------------------------------
(* What the bridge holds in memory, in general.                            *)

\* There is one next member.
LEMMA FirstMemberUnique ==
    ASSUME NEW S, NEW m \in Members, NEW n \in Members, FirstMember(S, m), FirstMember(S, n)
    PROVE  m = n
BY LifecycleAssumption DEF FirstMember

LEMMA IdleInOrder ==
    ASSUME job' = Idle
    PROVE  JobInv'
<1>1. Idle \in Jobs
    BY LifecycleAssumption DEF Idle, Jobs
<1>2. job'.phase = "idle" /\ job'.op = "none"
    BY DEF Idle
<1> QED
    BY <1>1, <1>2 DEF JobInv, PhaseInOrder, QueueInOrder, OperationInOrder

\* At its start an operation has promised nothing for the next member.
LEMMA StartInOrder ==
    ASSUME job'.step = "start"
    PROVE  \A m \in Members : RestoreInOrder(m)' /\ EnsureInOrder(m)'
BY DEF RestoreInOrder, EnsureInOrder

\* An operation changes its own album's tables only, and the phase goes on.
OthersKept ==
    /\ asked \subseteq asked' /\ registered \subseteq registered'
    /\ \A l \in Albums \ {job.album} : archive'[l] = archive[l] /\ replica'[l] = replica[l]
    /\ job.op = "ensure" => archive' = archive

PhaseGoesOn ==
    /\ job' \in Jobs /\ job'.phase = job.phase /\ job'.queue = job.queue /\ job'.album = job.album
    /\ \/ job'.op \in {job.op, "none"}
       \/ job.op = "archive" /\ job'.op = "delete"

\* An operation disturbs the to-do list of no phase.
LEMMA OperationQueue ==
    ASSUME JobInv, job.op # "none", OthersKept, PhaseGoesOn
    PROVE  PhaseInOrder' /\ QueueInOrder'
<1> USE DEF OthersKept, PhaseGoesOn
<1>1. PhaseInOrder'
    BY DEF JobInv, PhaseInOrder
<1>2. job.queue \subseteq Albums
    BY DEF JobInv, Jobs
<1>3. QueueInOrder'
    BY <1>2 DEF JobInv, PhaseInOrder, QueueInOrder, IsActive, AskedFor
<1> QED
    BY <1>1, <1>3

\* Nothing that only changes albums, as World says, disturbs the bridge.
LEMMA WorldKeepsJob ==
    ASSUME StateInv, JobInv, World, NoNewTag, UNCHANGED <<sqlite, job>>
    PROVE  JobInv'
<1> USE DEF sqlite
<1> DEFINE l == job.album
<1>1. StateTypeOK /\ MirrorsExist /\ job \in Jobs /\ l \in Albums
    BY DEF StateInv, TablesInv, JobInv, Jobs
<1>2. PhaseInOrder' /\ QueueInOrder'
    BY <1>1 DEF JobInv, PhaseInOrder, QueueInOrder, IsActive, AskedFor, World, Jobs
<1>3. ASSUME NEW m \in Members, archive[l].state = "restoring", RestoreInOrder(m)
      PROVE  RestoreInOrder(m)'
    <2> DEFINE r == archive[l].new[m]
    <2>1. r # 0 => /\ r \in Remotes /\ remote[r].st # "none"
                   /\ Complete(l, m) => Complete(l, m)'
                   /\ Untagged(l, m) => Untagged(l, m)'
                   /\ SharedOrAsked(r) => SharedOrAsked(r)'
        BY <1>1, TableTypes, RestoredFacts, WorldFacts DEF MirrorsExist, Existing
    <2>2. job.step = "record" =>
              /\ r = 0 /\ job.made # 0 /\ Existing(job.made, m)'
              /\ \A q \in Remotes : Live(q)' /\ remote'[q].owner = m
                                    /\ remote'[q].tag = archive[l].token => q = job.made
        <3>1. archive[l].token # 0 /\ job.made \in Remotes \cup {0}
            BY <1>1, <1>3, TableTypes DEF Jobs
        <3> QED
            BY <1>1, <1>3, <3>1, WorldFacts DEF RestoreInOrder, NoNewTag
    <2>3. lost[m] \subseteq lost'[m]
        BY DEF World
    <2> QED
        BY <1>1, <1>3, <2>1, <2>2, <2>3 DEF RestoreInOrder
<1>4. ASSUME NEW m \in Members, EnsureInOrder(m)
      PROVE  EnsureInOrder(m)'
    <2>1. job.made \in Remotes \cup {0} /\ replica[l][m] \in Remotes \cup {0}
        BY <1>1, TableTypes DEF Jobs
    <2>2. replica[l][m] # 0 => (SharedOrAsked(replica[l][m]) => SharedOrAsked(replica[l][m])')
        BY <1>1, <2>1, WorldFacts DEF MirrorsExist, Existing
    <2> QED
        BY <1>1, <1>4, <2>1, <2>2, WorldFacts DEF EnsureInOrder
<1>5. \A m \in Members : ~Live(archive[l].old[m]) => ~Live(archive[l].old[m])'
    BY <1>1, TableTypes, WorldFacts DEF MirrorsExist, Existing, Live, Remotes
<1>6. OperationInOrder'
    BY <1>1, <1>3, <1>4, <1>5 DEF JobInv, OperationInOrder, IsActive, AskedFor, World
<1> QED
    BY <1>1, <1>2, <1>6 DEF JobInv

-----------------------------------------------------------------------------
(* Steps that change only what the bridge has in memory.                   *)

\* What a step that leaves albums and tables alone may do to the history.
LEMMA QuietStep ==
    ASSUME StateInv, UNCHANGED <<immich, sqlite, taken>>, asked \subseteq asked', asked' \subseteq Remotes,
           spent' \in Budget
    PROVE  StateInv'
<1>1. StateTypeOK /\ StateTypeOK'
    BY DEF StateInv, TablesInv, StateTypeOK, immich, sqlite
<1>2. World /\ NoNewTag
    BY <1>1, AlbumsStay DEF immich
<1>3. UNCHANGED sqlite /\ UNCHANGED archive
    BY DEF sqlite
<1> QED
    BY <1>1, <1>2, <1>3, WorldKeeps, TagsKeep DEF StateInv

LEMMA ArchiveReadKeeps ==
    ASSUME Inv, NEW m \in Members, ArchiveRead(m)
    PROVE  JobInv'
<1> DEFINE r == replica[job.album][m]
<1>1. job \in Jobs /\ job.op = "archive" /\ StateTypeOK
    BY DEF Inv, StateInv, TablesInv, JobInv, ArchiveRead, Turn
<1>2. CASE job' = Idle
    BY <1>2, IdleInOrder
<1>3. CASE job' = [job EXCEPT !.left = @ \ {m}, !.draft[m] = IF r = 0 THEN {} ELSE Shown(r)]
           /\ (r = 0 \/ Live(r))
    <2>1. (IF r = 0 THEN {} ELSE Shown(r)) \subseteq Photos
        BY <1>1, <1>3, TableTypes DEF Live, RemoteAlbums, Shown
    <2> DEFINE ids == IF r = 0 THEN {} ELSE Shown(r)
    <2> HIDE DEF ids
    <2>2. job' \in Jobs /\ job'.phase = job.phase /\ job'.op = job.op /\ job'.queue = job.queue
          /\ job'.album = job.album
        BY <1>1, <1>3, <2>1 DEF Jobs, ids
    <2>3. UNCHANGED <<sqlite, asked>>
        BY DEF ArchiveRead, history
    <2>4. PhaseInOrder' /\ QueueInOrder'
        BY <1>1, <2>2, <2>3, OperationQueue DEF Inv, sqlite, OthersKept, PhaseGoesOn
    <2>5. OperationInOrder'
        BY <1>1, <2>2, <2>3 DEF Inv, JobInv, OperationInOrder, IsActive, AskedFor, sqlite
    <2> QED
        BY <2>2, <2>4, <2>5 DEF JobInv
<1> QED
    BY <1>2, <1>3 DEF ArchiveRead, Abort

LEMMA VerifyRestoredKeeps ==
    ASSUME Inv, NEW m \in Members, VerifyRestored(m)
    PROVE  JobInv'
<1> DEFINE l == job.album
           r == archive[l].new[m]
<1>1. job \in Jobs /\ job.op = "restore" /\ job.step = "verify" /\ FirstMember(job.left, m)
      /\ UNCHANGED <<immich, sqlite, asked, taken>>
    BY DEF Inv, JobInv, VerifyRestored, Turn, history
<1>2. CASE job' = Idle
    BY <1>2, IdleInOrder
<1>3. CASE job' = [job EXCEPT !.step = "describe"] /\ Live(r)
           /\ job.draft[m] \ Shown(r) \subseteq lost[m]
    <2>1. job' \in Jobs /\ job'.phase = job.phase /\ job'.op = job.op /\ job'.queue = job.queue
          /\ job'.album = l /\ job'.left = job.left /\ job'.saw = job.saw
          /\ job'.step = "describe"
        BY <1>1, <1>3 DEF Jobs
    <2>2. PhaseInOrder' /\ QueueInOrder'
        BY <1>1, <2>1, OperationQueue DEF Inv, sqlite, OthersKept, PhaseGoesOn
    <2>3. RestoreInOrder(m)
        BY <1>1 DEF Inv, JobInv, OperationInOrder
    <2>4. Complete(l, m)
        BY <1>1, <1>3, <2>3 DEF RestoreInOrder, Complete, Shown
    <2>5. RestoreInOrder(m)'
        BY <1>1, <2>1, <2>3, <2>4
           DEF RestoreInOrder, Complete, SharedOrAsked, Live, immich, sqlite
    <2>6. \A n \in Members : FirstMember(job.left, n) => n = m
        BY <1>1, FirstMemberUnique
    <2>7. OperationInOrder'
        BY <1>1, <2>1, <2>5, <2>6 DEF Inv, JobInv, OperationInOrder, sqlite
    <2> QED
        BY <2>1, <2>2, <2>7 DEF JobInv
<1> QED
    BY <1>2, <1>3 DEF VerifyRestored, Abort, To

LEMMA LookAtReplicaKeeps ==
    ASSUME Inv, NEW m \in Members, LookAtReplica(m)
    PROVE  JobInv'
<1> DEFINE l == job.album
           r == replica[l][m]
<1>1. job \in Jobs /\ job.op = "ensure" /\ FirstMember(job.left, m) /\ r # 0
      /\ UNCHANGED <<immich, sqlite, asked>>
    BY DEF Inv, JobInv, LookAtReplica, Turn, history
<1>2. CASE job' = Idle
    BY <1>2, IdleInOrder
<1>3. CASE job' = [job EXCEPT !.left = @ \ {m}, !.step = "start"]
    <2>1. job' \in Jobs /\ job'.phase = job.phase /\ job'.op = job.op /\ job'.queue = job.queue
          /\ job'.album = l /\ job'.step = "start"
        BY <1>1, <1>3 DEF Jobs
    <2>2. PhaseInOrder' /\ QueueInOrder'
        BY <1>1, <2>1, OperationQueue DEF Inv, sqlite, OthersKept, PhaseGoesOn
    <2>3. OperationInOrder'
        BY <1>1, <2>1, StartInOrder DEF Inv, JobInv, OperationInOrder, IsActive, sqlite
    <2> QED
        BY <2>1, <2>2, <2>3 DEF JobInv
<1>4. CASE job' = [job EXCEPT !.saw = remote[r].shared, !.step = "share"] /\ Live(r)
    <2>1. remote[r].shared \in BOOLEAN
        BY <1>4 DEF Inv, StateInv, TablesInv, StateTypeOK, RemoteAlbums, Live
    <2>2. job' \in Jobs /\ job'.phase = job.phase /\ job'.op = job.op /\ job'.queue = job.queue
          /\ job'.album = l /\ job'.left = job.left /\ job'.step = "share"
        BY <1>1, <1>4, <2>1 DEF Jobs
    <2>3. job'.saw = remote[r].shared
        BY <1>1, <1>4, <2>1 DEF Jobs
    <2>4. PhaseInOrder' /\ QueueInOrder'
        BY <1>1, <2>2, OperationQueue DEF Inv, sqlite, OthersKept, PhaseGoesOn
    <2>5. EnsureInOrder(m)'
        BY <1>1, <2>2, <2>3 DEF EnsureInOrder, SharedOrAsked, Live, immich, sqlite
    <2>6. \A n \in Members : FirstMember(job.left, n) => n = m
        BY <1>1, FirstMemberUnique
    <2>7. OperationInOrder'
        BY <1>1, <2>2, <2>5, <2>6 DEF Inv, JobInv, OperationInOrder, IsActive, sqlite
    <2> QED
        BY <2>2, <2>4, <2>7 DEF JobInv
<1> QED
    BY <1>2, <1>3, <1>4 DEF LookAtReplica, Abort, MemberDone

\* An operation is done.
LEMMA OpDoneKeeps ==
    ASSUME JobInv, OpDone, job.op # "none", OthersKept
    PROVE  JobInv'
<1>1. CASE job' = Idle
    BY <1>1, IdleInOrder
<1>2. CASE job' = [job EXCEPT !.op = "none"]
    <2>1. job' \in Jobs /\ job'.phase = job.phase /\ job'.op = "none" /\ job'.queue = job.queue
          /\ job'.album = job.album
        BY <1>2 DEF JobInv, Jobs
    <2>2. PhaseInOrder' /\ QueueInOrder'
        BY <2>1, OperationQueue DEF PhaseGoesOn
    <2> QED
        BY <2>1, <2>2 DEF JobInv, OperationInOrder
<1> QED
    BY <1>1, <1>2 DEF OpDone

-----------------------------------------------------------------------------
(* Where a cycle is.                                                       *)

Ops == {"none", "archive", "delete", "restore", "ensure"}

\* The next album of the phase's to-do list.
TakesNext(op, l, left) == job' = [Operate(op, l, left) EXCEPT !.queue = @ \ {l}]

LEMMA OperateNext ==
    ASSUME job \in Jobs, NEW op \in Ops, NEW l \in Albums, NEW left \in SUBSET Members,
           TakesNext(op, l, left)
    PROVE  /\ job' \in Jobs /\ job'.phase = job.phase /\ job'.queue = job.queue \ {l}
           /\ job'.op = op /\ job'.album = l /\ job'.left = left /\ job'.step = "start"
<1> DEFINE j == Operate(op, l, left)
<1>1. j \in Jobs /\ j.phase = job.phase /\ j.queue = job.queue
      /\ j.op = op /\ j.album = l /\ j.left = left /\ j.step = "start"
    BY DEF Operate, Jobs, Ops
<1> HIDE DEF j
<1>2. job' = [j EXCEPT !.queue = @ \ {l}]
    BY DEF j, TakesNext
<1>3. job' = [j EXCEPT !.queue = job.queue \ {l}] /\ job.queue \ {l} \in SUBSET Albums
    BY <1>1, <1>2 DEF Jobs
<1>4. job' \in Jobs
    BY <1>1, <1>3 DEF Jobs
<1> QED
    BY <1>1, <1>3, <1>4 DEF Jobs

\* An API call.
LEMMA OperateRequest ==
    ASSUME job \in Jobs, NEW op \in Ops, NEW l \in Albums, NEW left \in SUBSET Members,
           Request(op, l, left)
    PROVE  /\ job' \in Jobs /\ job'.phase = "api"
           /\ job'.op = op /\ job'.album = l /\ job'.left = left /\ job'.step = "start"
<1> DEFINE j == Operate(op, l, left)
<1>1. j \in Jobs /\ j.op = op /\ j.album = l /\ j.left = left /\ j.step = "start"
    BY DEF Operate, Jobs, Ops
<1> HIDE DEF j
<1>2. job' = [j EXCEPT !.phase = "api"]
    BY DEF j, Request
<1> QED
    BY <1>1, <1>2 DEF Jobs

\* No queue of an API call matters.
LEMMA RequestInOrder ==
    ASSUME job'.phase = "api"
    PROVE  PhaseInOrder' /\ QueueInOrder'
BY DEF PhaseInOrder, QueueInOrder

LEMMA StartCycleKeeps ==
    ASSUME Inv, NEW full \in BOOLEAN, StartCycle(full)
    PROVE  JobInv'
<1> DEFINE open == {l \in Albums : archive[l].state \in {"deleting", "restoring"}}
<1>1. job \in Jobs /\ job = Idle /\ UNCHANGED archive
    BY DEF Inv, JobInv, StartCycle, sqlite
<1>2. job' = [Idle EXCEPT !.phase = "resume", !.full = full, !.queue = open]
    BY DEF StartCycle
<1>3. \A l \in open : archive[l].state \in {"deleting", "restoring"}
    OBVIOUS
<1>4. open \in SUBSET Albums
    OBVIOUS
<1> HIDE DEF open
<1>5. Idle \in Jobs /\ Idle.op = "none"
    BY <1>1 DEF Idle
<1> DEFINE a == [Idle EXCEPT !.phase = "resume"]
           b == [a EXCEPT !.full = full]
<1>7. a \in Jobs /\ a.phase = "resume" /\ a.op = "none"
    BY <1>5 DEF Jobs
<1>8. job' = [b EXCEPT !.queue = open]
    BY <1>2
<1> HIDE DEF a
<1>9. b \in Jobs /\ b.phase = "resume" /\ b.op = "none"
    BY <1>7 DEF Jobs
<1> HIDE DEF b
<1>6. job' \in Jobs /\ job'.phase = "resume" /\ job'.op = "none" /\ job'.queue = open
    BY <1>4, <1>8, <1>9 DEF Jobs
<1> QED
    BY <1>1, <1>3, <1>6 DEF JobInv, PhaseInOrder, QueueInOrder, OperationInOrder

LEMMA ResumeNextKeeps ==
    ASSUME Inv, NEW l \in Albums, ResumeNext(l)
    PROVE  JobInv'
<1>1. /\ job \in Jobs /\ job.phase = "resume" /\ l \in job.queue /\ UNCHANGED archive
      /\ archive[l] \in Records
      /\ \A k \in job.queue : archive[k].state \in {"deleting", "restoring"}
    BY TableTypes DEF Inv, StateInv, TablesInv, JobInv, QueueInOrder, ResumeNext, Phase, FirstOf, sqlite
<1>2. archive[l].gone \subseteq Members /\ archive[l].back \subseteq Members
    BY <1>1 DEF Records
<1>3. CASE archive[l].state = "deleting"
    <2> DEFINE left == Members \ archive[l].gone
    <2>1. TakesNext("delete", l, left)
        BY <1>3 DEF ResumeNext, TakesNext
    <2>2. left \in SUBSET Members /\ Members \ left \subseteq archive[l].gone
          /\ left = Members \ archive[l].gone
        OBVIOUS
    <2> HIDE DEF left
    <2>3. /\ job' \in Jobs /\ job'.phase = "resume" /\ job'.queue = job.queue \ {l}
          /\ job'.op = "delete" /\ job'.album = l /\ job'.left = left /\ job'.step = "start"
        BY <1>1, <2>1, <2>2, OperateNext DEF Ops
    <2> QED
        BY <1>1, <1>2, <1>3, <2>2, <2>3 DEF JobInv, PhaseInOrder, QueueInOrder, OperationInOrder
<1>4. CASE archive[l].state = "restoring"
    <2> DEFINE left == Members \ archive[l].back
    <2>1. TakesNext("restore", l, left)
        BY <1>4 DEF ResumeNext, TakesNext
    <2>2. left \in SUBSET Members /\ Members \ left \subseteq archive[l].back
          /\ left = Members \ archive[l].back
        OBVIOUS
    <2> HIDE DEF left
    <2>3. /\ job' \in Jobs /\ job'.phase = "resume" /\ job'.queue = job.queue \ {l}
          /\ job'.op = "restore" /\ job'.album = l /\ job'.left = left /\ job'.step = "start"
        BY <1>1, <2>1, <2>2, OperateNext DEF Ops
    <2> QED
        BY <1>1, <1>2, <1>4, <2>2, <2>3, StartInOrder
           DEF JobInv, PhaseInOrder, QueueInOrder, OperationInOrder
<1> QED
    BY <1>1, <1>3, <1>4

LEMMA ResumeDoneKeeps ==
    ASSUME Inv, ResumeDone
    PROVE  JobInv'
<1> DEFINE checks == {w \in Pairs : /\ w[1] \in Active \ {Together} /\ ChecksShare(w[1], w[2])}
<1>1. job \in Jobs /\ job.op = "none" /\ job.queue = {} /\ UNCHANGED sqlite
    BY DEF Inv, JobInv, ResumeDone, Phase
<1>2. CASE job' = Idle
    BY <1>2, IdleInOrder
<1>3. CASE job' = [job EXCEPT !.phase = "markers", !.checks = checks]
    <2>1. \A w \in checks : w \in marker /\ IsActive(w[1])
        BY DEF ChecksShare, IsActive, Active, Pairs
    <2>2. checks \in SUBSET Pairs
        OBVIOUS
    <2> HIDE DEF checks
    <2>3. job' \in Jobs /\ job'.phase = "markers" /\ job'.op = "none" /\ job'.queue = {}
          /\ job'.checks = checks
        BY <1>1, <1>3, <2>2 DEF Jobs
    <2> QED
        BY <1>1, <2>1, <2>3
           DEF JobInv, PhaseInOrder, QueueInOrder, OperationInOrder, IsActive, sqlite
<1> QED
    BY <1>2, <1>3 DEF ResumeDone

\* A mirror without its confirmed share is one that somebody wants gone.
LEMMA CheckMarkerKeeps ==
    ASSUME Inv, NEW l \in Albums, NEW m \in Members, CheckMarker(l, m)
    PROVE  JobInv'
<1> DEFINE rest == [job EXCEPT !.checks = @ \ {<<l, m>>}]
<1>1. /\ job \in Jobs /\ job.phase = "markers" /\ job.op = "none" /\ <<l, m>> \in job.checks
      /\ UNCHANGED <<sqlite, asked>>
    BY DEF Inv, JobInv, CheckMarker, Phase, FirstMember, history
<1>2. /\ \A w \in job.checks : w \in marker /\ IsActive(w[1])
      /\ \A k \in job.queue : IsActive(k) /\ AskedFor(k)
    BY <1>1 DEF Inv, JobInv, QueueInOrder
<1>3. rest \in Jobs /\ rest.phase = "markers" /\ rest.op = "none" /\ rest.queue = job.queue
      /\ rest.checks = job.checks \ {<<l, m>>}
    BY <1>1 DEF Jobs
<1> HIDE DEF rest
<1>4. CASE job' = Idle
    BY <1>4, IdleInOrder
<1>5. CASE job' = rest
    BY <1>1, <1>2, <1>3, <1>5
       DEF JobInv, PhaseInOrder, QueueInOrder, OperationInOrder, IsActive, AskedFor, sqlite
<1>6. CASE Live(replica[l][m]) /\ ~remote[replica[l][m]].shared
           /\ job' = [rest EXCEPT !.queue = @ \cup {l}]
    <2>1. IsActive(l) /\ AskedFor(l)
        BY <1>1, <1>2, <1>6
           DEF Inv, StateInv, TablesInv, MarkersConfirmed, SharedOrAsked, AskedFor
    <2>2. job' \in Jobs /\ job'.phase = "markers" /\ job'.op = "none"
          /\ job'.queue = job.queue \cup {l} /\ job'.checks = job.checks \ {<<l, m>>}
        BY <1>3, <1>6 DEF Jobs
    <2> QED
        BY <1>1, <1>2, <2>1, <2>2
           DEF JobInv, PhaseInOrder, QueueInOrder, OperationInOrder, IsActive, AskedFor, sqlite
<1> QED
    BY <1>4, <1>5, <1>6 DEF CheckMarker, Abort, rest

LEMMA UnmirrorNextKeeps ==
    ASSUME Inv, NEW l \in Albums, UnmirrorNext(l)
    PROVE  JobInv'
<1>1. /\ job \in Jobs /\ job.phase = "unmirror" /\ l \in job.queue /\ UNCHANGED <<sqlite, asked>>
      /\ \A k \in job.queue : IsActive(k) /\ AskedFor(k)
      /\ TakesNext("archive", l, Members)
    BY DEF Inv, JobInv, QueueInOrder, UnmirrorNext, Phase, history, TakesNext
<1>2. /\ job' \in Jobs /\ job'.phase = "unmirror" /\ job'.queue = job.queue \ {l}
      /\ job'.op = "archive" /\ job'.album = l /\ job'.left = Members /\ job'.step = "start"
    BY <1>1, OperateNext DEF Ops
<1> QED
    BY <1>1, <1>2
       DEF JobInv, PhaseInOrder, QueueInOrder, OperationInOrder, IsActive, AskedFor, sqlite

LEMMA MirrorNextKeeps ==
    ASSUME Inv, NEW l \in Albums, MirrorNext(l)
    PROVE  JobInv'
<1>1. /\ job \in Jobs /\ job.phase = "mirror" /\ l \in job.queue /\ UNCHANGED sqlite
      /\ \A k \in job.queue : IsActive(k)
      /\ TakesNext("ensure", l, Members)
    BY DEF Inv, JobInv, QueueInOrder, MirrorNext, Phase, FirstOf, TakesNext
<1>2. /\ job' \in Jobs /\ job'.phase = "mirror" /\ job'.queue = job.queue \ {l}
      /\ job'.op = "ensure" /\ job'.album = l /\ job'.left = Members /\ job'.step = "start"
    BY <1>1, OperateNext DEF Ops
<1> QED
    BY <1>1, <1>2, StartInOrder
       DEF JobInv, PhaseInOrder, QueueInOrder, OperationInOrder, IsActive, sqlite

\* The other steps from one phase to the next.
LEMMA PhasesKeep ==
    ASSUME Inv, \/ MarkersDone \/ UnmirrorDone \/ DiscoverDone \/ MirrorDone
                \/ \E m \in Members : ListShared(m)
    PROVE  JobInv'
<1>1. job \in Jobs /\ job.op = "none" /\ UNCHANGED <<sqlite, asked>>
    BY DEF Inv, JobInv, MarkersDone, UnmirrorDone, DiscoverDone, MirrorDone, ListShared, Phase, history
<1> USE DEF JobInv, PhaseInOrder, QueueInOrder, OperationInOrder
<1>2. CASE MarkersDone
    <2>1. job.phase = "markers" /\ job' = [job EXCEPT !.phase = "unmirror"]
        BY <1>2 DEF MarkersDone, Phase
    <2>2. job' \in Jobs /\ job'.phase = "unmirror" /\ job'.op = "none" /\ job'.queue = job.queue
        BY <1>1, <2>1 DEF Jobs
    <2> QED
        BY <1>1, <2>1, <2>2 DEF Inv, IsActive, AskedFor, sqlite
<1>3. CASE UnmirrorDone
    <2>1. job' = [job EXCEPT !.phase = "discover", !.hosts = Members]
        BY <1>3 DEF UnmirrorDone
    <2>2. job' \in Jobs /\ job'.phase = "discover" /\ job'.op = "none"
        BY <1>1, <2>1 DEF Jobs
    <2> QED
        BY <2>2
<1>4. CASE DiscoverDone
    <2>1. job' = [job EXCEPT !.phase = "mirror", !.queue = Active]
        BY <1>4 DEF DiscoverDone
    <2>2. Active \in SUBSET Albums /\ \A l \in Active : IsActive(l)
        BY DEF Inv, StateInv, TablesInv, StateTypeOK, Active, IsActive
    <2>3. job' \in Jobs /\ job'.phase = "mirror" /\ job'.op = "none" /\ job'.queue = Active
        BY <1>1, <2>1, <2>2 DEF Jobs
    <2> QED
        BY <1>1, <2>2, <2>3 DEF IsActive, sqlite
<1>5. CASE MirrorDone
    BY <1>5, IdleInOrder DEF MirrorDone
<1>6. CASE \E m \in Members : ListShared(m)
    <2>1. PICK m \in Members : ListShared(m)
        BY <1>6
    <2> DEFINE found == {r \in Remotes : /\ Live(r) /\ remote[r].owner = m /\ remote[r].shared}
    <2>2. job.phase = "discover" /\ job' = [job EXCEPT !.hosts = @ \ {m}, !.found = found]
        BY <2>1 DEF ListShared, Phase
    <2>3. found \in SUBSET Remotes
        OBVIOUS
    <2> HIDE DEF found
    <2>4. job' \in Jobs /\ job'.phase = "discover" /\ job'.op = "none"
        BY <1>1, <2>2, <2>3 DEF Jobs
    <2> QED
        BY <2>4
<1> QED
    BY <1>2, <1>3, <1>4, <1>5, <1>6

LEMMA CallUnmirrorKeeps ==
    ASSUME Inv, NEW l \in Albums, CallUnmirror(l)
    PROVE  Inv'
<1> DEFINE mine == {replica[l][m] : m \in Members} \ {0}
<1>1. /\ job \in Jobs /\ StateTypeOK /\ l \in registered /\ UNCHANGED <<immich, sqlite, taken>>
      /\ asked' = asked \cup mine /\ archive[l] \in Records
      /\ spent' = [spent EXCEPT !.calls = @ + 1]
    BY TableTypes DEF Inv, StateInv, TablesInv, JobInv, CallUnmirror, Call
<1>2. mine \subseteq Remotes
    BY <1>1, TableTypes
<1>3. \E m \in Members : replica[l][m] \in mine
    BY <1>1 DEF Inv, StateInv, TablesInv, RegisteredAreMirrored
<1> HIDE DEF mine
<1>4. spent' \in Budget
    <2>1. spent \in Budget /\ 2 * spent.edits + spent.calls + 1 <= MaxInputs
        BY DEF Inv, StateInv, TablesInv, StateTypeOK, CallUnmirror, Call, Spendable
    <2> QED
        BY <1>1, <2>1, CallCounted
<1>5. asked' \subseteq Remotes /\ asked \subseteq asked'
    BY <1>1, <1>2 DEF StateTypeOK
<1>6. StateInv'
    BY <1>1, <1>4, <1>5, QuietStep DEF Inv
<1>7. CASE archive[l].state = "none" /\ Request("archive", l, Members)
    <2>1. job' \in Jobs /\ job'.phase = "api" /\ job'.op = "archive" /\ job'.album = l
        BY <1>1, <1>7, OperateRequest DEF Ops
    <2>2. IsActive(l)' /\ AskedFor(l)'
        BY <1>1, <1>3, <1>7 DEF IsActive, AskedFor, sqlite
    <2>3. OperationInOrder'
        BY <2>1, <2>2 DEF OperationInOrder, IsActive, AskedFor
    <2> QED
        BY <1>6, <2>1, <2>3, RequestInOrder DEF Inv, JobInv
<1>8. CASE archive[l].state = "deleting" /\ Request("delete", l, Members \ archive[l].gone)
    <2>1. job' \in Jobs /\ job'.phase = "api" /\ job'.op = "delete" /\ job'.album = l
          /\ job'.left = Members \ archive[l].gone /\ job'.step = "start"
        BY <1>1, <1>8, OperateRequest DEF Ops
    <2>2. OperationInOrder'
        BY <1>1, <1>8, <2>1 DEF OperationInOrder, sqlite
    <2> QED
        BY <1>6, <2>1, <2>2, RequestInOrder DEF Inv, JobInv
<1> QED
    BY <1>7, <1>8 DEF CallUnmirror

LEMMA CallRegisterAgainKeeps ==
    ASSUME Inv, NEW l \in Albums, CallRegisterAgain(l)
    PROVE  Inv'
<1>1. /\ job \in Jobs /\ StateTypeOK /\ IsActive(l) /\ UNCHANGED <<immich, sqlite, asked, taken>>
      /\ spent' = [spent EXCEPT !.calls = @ + 1]
    BY DEF Inv, StateInv, TablesInv, JobInv, CallRegisterAgain, Call, IsActive, Active, history
<1>2. spent' \in Budget
    <2>1. spent \in Budget /\ 2 * spent.edits + spent.calls + 1 <= MaxInputs
        BY DEF Inv, StateInv, TablesInv, StateTypeOK, CallRegisterAgain, Call, Spendable
    <2> QED
        BY <1>1, <2>1, CallCounted
<1>3. StateInv'
    BY <1>1, <1>2, QuietStep DEF Inv, StateTypeOK
<1>4. job' \in Jobs /\ job'.phase = "api" /\ job'.op = "ensure" /\ job'.album = l
      /\ job'.left = Members /\ job'.step = "start"
    BY <1>1, OperateRequest DEF Ops, CallRegisterAgain
<1>5. OperationInOrder'
    BY <1>1, <1>4, StartInOrder DEF OperationInOrder, IsActive, sqlite
<1> QED
    BY <1>3, <1>4, <1>5, RequestInOrder DEF Inv, JobInv

LEMMA FaultKeeps ==
    ASSUME Inv, Fault
    PROVE  Inv'
<1>1. StateTypeOK /\ UNCHANGED <<immich, sqlite, asked, taken>> /\ job' = Idle /\ SpendFault
    BY DEF Inv, StateInv, TablesInv, Fault, Abort, history
<1>2. spent' \in Budget
    BY <1>1, FaultCounted DEF StateTypeOK
<1>3. StateInv'
    BY <1>1, <1>2, QuietStep DEF Inv, StateTypeOK
<1> QED
    BY <1>1, <1>3, IdleInOrder DEF Inv

-----------------------------------------------------------------------------
(* Steps of the bridge that change an album.                               *)

LEMMA AlbumStep ==
    ASSUME StateInv, World, NoNewTag, UNCHANGED <<lost, trashed, sqlite, history>>, spent' \in Budget,
           remote' \in [Remotes -> RemoteAlbums]
    PROVE  StateInv'
<1>1. StateTypeOK /\ StateTypeOK'
    BY DEF StateInv, TablesInv, StateTypeOK, sqlite, history
<1>2. UNCHANGED sqlite /\ UNCHANGED archive
    BY DEF sqlite
<1> QED
    BY <1>1, <1>2, WorldKeeps, TagsKeep DEF StateInv

\* What is true of the restored album of the next member in these steps.
LEMMA RestoreStep ==
    ASSUME Inv, NEW m \in Members, job.op = "restore", FirstMember(job.left, m)
    PROVE  /\ job.album \in Albums /\ archive[job.album].state = "restoring"
           /\ archive[job.album].token # 0 /\ archive[job.album] \in Records
           /\ archive[job.album].new[m] \in Remotes \cup {0}
           /\ archive[job.album].items[m] \subseteq Photos
           /\ job.left = Members \ archive[job.album].back /\ m \notin archive[job.album].back
           /\ RestoreInOrder(m)
<1>1. job.album \in Albums /\ StateTypeOK
    BY DEF Inv, StateInv, TablesInv, JobInv, Jobs
<1>2. archive[job.album].state = "restoring" /\ RestoreInOrder(m)
      /\ job.left = Members \ archive[job.album].back
    BY DEF Inv, JobInv, OperationInOrder
<1>3. m \notin archive[job.album].back
    BY <1>2 DEF FirstMember
<1> QED
    BY <1>1, <1>2, <1>3, TableTypes

\* A restoration goes on with another step for the same member.
LEMMA RestoreGoesOn ==
    ASSUME Inv, NEW m \in Members, job.op = "restore", FirstMember(job.left, m),
           UNCHANGED <<sqlite, asked>>, job' \in Jobs,
           job'.phase = job.phase, job'.queue = job.queue, job'.album = job.album, job'.op = job.op,
           job'.left = job.left, RestoreInOrder(m)'
    PROVE  JobInv'
<1>1. PhaseInOrder' /\ QueueInOrder'
    BY OperationQueue DEF Inv, sqlite, OthersKept, PhaseGoesOn
<1>2. \A n \in Members : FirstMember(job.left, n) => n = m
    BY FirstMemberUnique
<1>3. OperationInOrder'
    BY <1>2 DEF Inv, JobInv, OperationInOrder, sqlite
<1> QED
    BY <1>1, <1>3 DEF JobInv

LEMMA EnsureGoesOn ==
    ASSUME Inv, NEW m \in Members, job.op = "ensure", FirstMember(job.left, m),
           UNCHANGED <<sqlite, asked>>, job' \in Jobs,
           job'.phase = job.phase, job'.queue = job.queue, job'.album = job.album, job'.op = job.op,
           job'.left = job.left, EnsureInOrder(m)'
    PROVE  JobInv'
<1>1. PhaseInOrder' /\ QueueInOrder'
    BY OperationQueue DEF Inv, sqlite, OthersKept, PhaseGoesOn
<1>2. \A n \in Members : FirstMember(job.left, n) => n = m
    BY FirstMemberUnique
<1>3. OperationInOrder'
    BY <1>2 DEF Inv, JobInv, OperationInOrder, IsActive, sqlite
<1> QED
    BY <1>1, <1>3 DEF JobInv

LEMMA DeleteRemoteKeeps ==
    ASSUME Inv, NEW m \in Members, DeleteRemote(m)
    PROVE  Inv'
<1> DEFINE l == job.album
           r == archive[l].old[m]
<1>1. /\ job \in Jobs /\ job.op = "delete" /\ FirstMember(job.left, m) /\ StateTypeOK
      /\ UNCHANGED <<lost, trashed, sqlite, asked, taken, spent>>
    BY DEF Inv, StateInv, TablesInv, JobInv, DeleteRemote, Turn, history
<1>2. CASE job' = Idle /\ UNCHANGED remote
    BY <1>1, <1>2, QuietStep, IdleInOrder DEF Inv, immich, StateTypeOK
<1>3. CASE /\ remote' = [q \in Remotes |-> IF q = r /\ Live(q) THEN Deleted(remote[q]) ELSE remote[q]]
           /\ job' = [job EXCEPT !.step = "record"]
    <2>1. \A q \in Remotes : /\ Deleted(remote[q]) \in RemoteAlbums
                             /\ Deleted(remote[q]).st = "deleted"
                             /\ Deleted(remote[q]).owner = remote[q].owner
                             /\ remote[q] \in RemoteAlbums
        BY <1>1, TableTypes, DeletedAlbum
    <2>2. remote' \in [Remotes -> RemoteAlbums]
        BY <1>3, <2>1
    <2>3. World /\ NoNewTag
        BY <1>1, <1>3, <2>1 DEF World, Evolves, NoNewTag, Live, RemoteAlbums
    <2>4. StateInv'
        BY <1>1, <2>2, <2>3, AlbumStep DEF Inv, StateTypeOK, history
    <2>5. /\ job' \in Jobs /\ job'.phase = job.phase /\ job'.op = job.op /\ job'.queue = job.queue
          /\ job'.album = l /\ job'.left = job.left
        BY <1>1, <1>3 DEF Jobs
    <2>6. ~Live(r)'
        <3>1. r \in Remotes /\ Live(r) => remote'[r] = Deleted(remote[r])
            BY <1>3
        <3>2. r \in Remotes /\ ~Live(r) => remote'[r] = remote[r]
            BY <1>3
        <3>3. UNCHANGED r
            BY <1>1, <2>5 DEF sqlite
        <3> QED
            BY <2>1, <3>1, <3>2, <3>3 DEF Live
    <2>7. PhaseInOrder' /\ QueueInOrder'
        BY <1>1, <2>5, OperationQueue DEF Inv, sqlite, OthersKept, PhaseGoesOn
    <2>8. \A n \in Members : FirstMember(job.left, n) => n = m
        BY <1>1, FirstMemberUnique
    <2>9. OperationInOrder'
        BY <1>1, <2>5, <2>6, <2>8 DEF Inv, JobInv, OperationInOrder, sqlite
    <2> QED
        BY <2>4, <2>5, <2>7, <2>9 DEF Inv, JobInv
<1> QED
    BY <1>2, <1>3 DEF DeleteRemote, Abort, To

LEMMA EnsureShareKeeps ==
    ASSUME Inv, NEW m \in Members, EnsureShare(m)
    PROVE  Inv'
<1> DEFINE l == job.album
           r == replica[l][m]
<1>1. /\ job \in Jobs /\ job.op \in {"restore", "ensure"} /\ FirstMember(job.left, m)
      /\ job.step = "share" /\ StateTypeOK /\ MirrorsExist /\ l \in Albums
      /\ UNCHANGED <<lost, trashed, sqlite, asked, taken, spent>>
    BY DEF Inv, StateInv, TablesInv, JobInv, Jobs, EnsureShare, history
<1>2. CASE job' = Idle /\ UNCHANGED remote
    BY <1>1, <1>2, QuietStep, IdleInOrder DEF Inv, immich, StateTypeOK
<1>3. CASE /\ job' = [job EXCEPT !.step = "mark"]
           /\ \/ job.saw /\ UNCHANGED remote
              \/ Live(r) /\ remote' = [remote EXCEPT ![r].shared = TRUE]
    <2> DEFINE y == [remote[r] EXCEPT !.shared = TRUE]
    <2>1. ASSUME UNCHANGED remote
          PROVE  remote' \in [Remotes -> RemoteAlbums] /\ World /\ NoNewTag
        BY <1>1, <2>1, AlbumsStay
    <2>2. ASSUME Live(r), remote' = [remote EXCEPT ![r].shared = TRUE]
          PROVE  remote' \in [Remotes -> RemoteAlbums] /\ World /\ NoNewTag /\ remote'[r].shared
        <3>1. r \in Remotes /\ remote[r] \in RemoteAlbums
            BY <1>1, <2>2, TableTypes DEF Live
        <3>2. remote' = [remote EXCEPT ![r] = y]
            BY <2>2
        <3>3. Grown(remote[r], y) /\ y.shared
            BY <3>1, GrownAlbums
        <3> HIDE DEF y
        <3> QED
            BY <1>1, <2>2, <3>1, <3>2, <3>3, AlbumGrows
    <2>3. remote' \in [Remotes -> RemoteAlbums] /\ World /\ NoNewTag
        BY <1>3, <2>1, <2>2
    <2>4. StateInv'
        BY <1>1, <2>3, AlbumStep DEF Inv, StateTypeOK, history
    <2>5. /\ job' \in Jobs /\ job'.phase = job.phase /\ job'.op = job.op /\ job'.queue = job.queue
          /\ job'.album = l /\ job'.left = job.left /\ job'.step = "mark"
        BY <1>1, <1>3 DEF Jobs
    <2>6. r # 0 /\ (job.saw => SharedOrAsked(r))
        BY <1>1, RestoreStep DEF Inv, JobInv, OperationInOrder, RestoreInOrder, EnsureInOrder
    <2>7. SharedOrAsked(r)'
        <3>1. r' = r /\ asked' = asked
            BY <1>1, <2>5 DEF sqlite
        <3>2. CASE job.saw /\ UNCHANGED remote
            BY <2>6, <3>1, <3>2 DEF SharedOrAsked, Live
        <3>3. CASE Live(r) /\ remote' = [remote EXCEPT ![r].shared = TRUE]
            BY <2>2, <3>1, <3>3 DEF SharedOrAsked
        <3> QED
            BY <1>3, <3>2, <3>3
    <2>8. CASE job.op = "restore"
        <3>1. /\ Complete(l, m) /\ Untagged(l, m) /\ r = archive[l].new[m]
            BY <1>1, <2>8, RestoreStep DEF RestoreInOrder
        <3>2. Complete(l, m)' /\ Untagged(l, m)'
            BY <1>1, <2>3, <2>5, <2>6, <3>1, RestoredFacts DEF sqlite
        <3>3. RestoreInOrder(m)'
            BY <1>1, <2>5, <2>6, <2>7, <3>1, <3>2 DEF RestoreInOrder, sqlite
        <3> QED
            BY <1>1, <2>4, <2>5, <2>8, <3>3, RestoreGoesOn DEF Inv
    <2>9. CASE job.op = "ensure"
        <3>1. EnsureInOrder(m)'
            BY <1>1, <2>5, <2>6, <2>7 DEF EnsureInOrder, sqlite
        <3> QED
            BY <1>1, <2>4, <2>5, <2>9, <3>1, EnsureGoesOn DEF Inv
    <2> QED
        BY <1>1, <2>8, <2>9
<1> QED
    BY <1>2, <1>3 DEF EnsureShare, Abort, To

LEMMA FillRestoredKeeps ==
    ASSUME Inv, NEW m \in Members, FillRestored(m)
    PROVE  Inv'
<1> DEFINE l   == job.album
           r   == archive[l].new[m]
           ids == archive[l].items[m] \ lost[m]
<1>1. /\ job \in Jobs /\ job.op = "restore" /\ FirstMember(job.left, m) /\ StateTypeOK
      /\ MirrorsExist /\ r # 0 /\ UNCHANGED <<lost, trashed, sqlite, asked, taken>>
    BY DEF Inv, StateInv, TablesInv, JobInv, FillRestored, Turn, history
<1>2. CASE job' = Idle /\ UNCHANGED <<remote, spent>>
    BY <1>1, <1>2, QuietStep, IdleInOrder DEF Inv, immich, StateTypeOK
<1>3. ASSUME Live(r), NEW added \in SUBSET ids, UNCHANGED spent \/ SpendFault,
             remote' = [remote EXCEPT ![r].items = @ \cup added],
             job' = [job EXCEPT !.saw = remote[r].shared, !.draft[m] = ids, !.step = "verify"]
      PROVE  Inv'
    <2>1. /\ l \in Albums /\ archive[l].state = "restoring" /\ ids \subseteq Photos
          /\ r \in Remotes /\ RestoreInOrder(m)
        BY <1>1, RestoreStep
    <2> DEFINE y == [remote[r] EXCEPT !.items = @ \cup added]
    <2>2. remote' = [remote EXCEPT ![r] = y] /\ y.shared = remote[r].shared
          /\ Grown(remote[r], y)
        <3>1. remote[r] \in RemoteAlbums /\ added \in SUBSET Photos
            BY <1>1, <2>1, TableTypes
        <3>2. y.shared = remote[r].shared
            BY <3>1 DEF RemoteAlbums
        <3> QED
            BY <1>3, <3>1, <3>2, GrownAlbums
    <2> HIDE DEF y
    <2>3. spent' \in Budget
        BY <1>1, <1>3, FaultCounted DEF StateTypeOK
    <2>4. remote' \in [Remotes -> RemoteAlbums] /\ World /\ NoNewTag /\ remote'[r] = y
        BY <1>1, <1>3, <2>1, <2>2, AlbumGrows
    <2>5. StateInv'
        BY <1>1, <2>3, <2>4, AlbumStep DEF Inv, history
    <2>6. remote[r].shared \in BOOLEAN
        BY <1>1, <2>1, TableTypes DEF RemoteAlbums
    <2> HIDE DEF ids
    <2>7. /\ job' \in Jobs /\ job'.phase = job.phase /\ job'.op = job.op /\ job'.queue = job.queue
          /\ job'.album = l /\ job'.left = job.left /\ job'.step = "verify"
        BY <1>1, <1>3, <2>1, <2>6 DEF Jobs
    <2>8. job'.saw = remote[r].shared /\ job'.draft[m] = ids
        BY <1>1, <1>3 DEF Jobs
    <2>9. archive[l].items[m] \ ids \subseteq lost[m]
        BY DEF ids
    <2>10. \A k \in Albums : archive[k].state # "none" /\ archive[k].old[m] = r
                                => m \notin archive[k].gone
        BY <1>3 DEF Inv, StateInv, TablesInv, ArchiveAgrees
    <2>11. job'.saw => SharedOrAsked(r)'
        <3>1. r' = r
            BY <1>1, <2>7 DEF sqlite
        <3> QED
            BY <2>2, <2>4, <2>8, <3>1 DEF SharedOrAsked
    <2>12. RestoreInOrder(m)'
        BY <1>1, <2>1, <2>7, <2>8, <2>9, <2>10, <2>11 DEF RestoreInOrder, sqlite
    <2> QED
        BY <1>1, <2>5, <2>7, <2>12, RestoreGoesOn DEF Inv
<1> QED
    BY <1>2, <1>3 DEF FillRestored, Abort

LEMMA DescribeRestoredKeeps ==
    ASSUME Inv, NEW m \in Members, DescribeRestored(m)
    PROVE  Inv'
<1> DEFINE l == job.album
           r == archive[l].new[m]
<1>1. /\ job \in Jobs /\ job.op = "restore" /\ FirstMember(job.left, m) /\ StateTypeOK
      /\ MirrorsExist /\ job.step = "describe" /\ UNCHANGED <<lost, trashed, sqlite, asked, taken, spent>>
    BY DEF Inv, StateInv, TablesInv, JobInv, DescribeRestored, Turn, history
<1>2. CASE job' = Idle /\ UNCHANGED remote
    BY <1>1, <1>2, QuietStep, IdleInOrder DEF Inv, immich, StateTypeOK
<1>3. CASE Live(r) /\ remote' = [remote EXCEPT ![r].tag = 0] /\ job' = [job EXCEPT !.step = "map"]
    <2>1. l \in Albums /\ r \in Remotes /\ RestoreInOrder(m) /\ 0 \in Tags /\ r # 0
        BY <1>1, RestoreStep, LifecycleAssumption DEF RestoreInOrder, Tags
    <2> DEFINE y == [remote[r] EXCEPT !.tag = 0]
    <2>2. remote' = [remote EXCEPT ![r] = y] /\ y.tag = 0 /\ Grown(remote[r], y)
        <3>1. remote[r] \in RemoteAlbums
            BY <1>1, <2>1, TableTypes
        <3> QED
            BY <1>3, <3>1, GrownAlbums
    <2> HIDE DEF y
    <2>3. remote' \in [Remotes -> RemoteAlbums] /\ World /\ NoNewTag /\ remote'[r] = y
        BY <1>1, <1>3, <2>1, <2>2, AlbumGrows
    <2>4. StateInv'
        BY <1>1, <2>3, AlbumStep DEF Inv, StateTypeOK, history
    <2>5. /\ job' \in Jobs /\ job'.phase = job.phase /\ job'.op = job.op /\ job'.queue = job.queue
          /\ job'.album = l /\ job'.left = job.left /\ job'.step = "map" /\ job'.saw = job.saw
        BY <1>1, <1>3 DEF Jobs
    <2>6. Complete(l, m) /\ (job.saw => SharedOrAsked(r))
        BY <1>1, <2>1 DEF RestoreInOrder
    <2>7. Complete(l, m)'
        BY <1>1, <2>1, <2>3, <2>5, <2>6, RestoredFacts DEF sqlite
    <2>8. Untagged(l, m)'
        <3>1. r' = r
            BY <1>1, <2>5 DEF sqlite
        <3> QED
            BY <2>2, <2>3, <3>1 DEF Untagged
    <2>9. job.saw => SharedOrAsked(r)'
        <3>1. r' = r
            BY <1>1, <2>5 DEF sqlite
        <3>2. SharedOrAsked(r) => SharedOrAsked(r)'
            BY <1>1, <1>3, <2>1, <2>3, <3>1, WorldFacts DEF Live
        <3> QED
            BY <2>6, <3>2
    <2>10. RestoreInOrder(m)'
        BY <1>1, <2>1, <2>5, <2>7, <2>8, <2>9 DEF RestoreInOrder, sqlite
    <2> QED
        BY <1>1, <2>4, <2>5, <2>10, RestoreGoesOn DEF Inv
<1> QED
    BY <1>2, <1>3 DEF DescribeRestored, Abort, To

\* A new album disturbs no other one.
LEMMA CreateEvolves ==
    ASSUME StateTypeOK, NEW r \in Remotes, Fresh(r), NEW m \in Members, NEW tag \in Tags,
           Create(r, m, tag), UNCHANGED <<lost, trashed, sqlite, history>>
    PROVE  /\ remote' \in [Remotes -> RemoteAlbums] /\ World
           /\ \A q \in Remotes : q # r => remote'[q] = remote[q]
           /\ remote'[r].st = "live" /\ remote'[r].owner = m /\ remote'[r].tag = tag
           /\ ~Live(r)
<1> DEFINE new == [st |-> "live", owner |-> m, shared |-> FALSE, tag |-> tag, items |-> {}]
<1>1. new \in RemoteAlbums /\ new.st = "live" /\ new.owner = m /\ new.tag = tag
    BY DEF RemoteAlbums
<1>2. remote \in [Remotes -> RemoteAlbums] /\ remote' = [remote EXCEPT ![r] = new]
    BY DEF StateTypeOK, Create
<1> HIDE DEF new
<1>3. /\ remote' \in [Remotes -> RemoteAlbums] /\ remote'[r] = new
      /\ \A q \in Remotes : q # r => remote'[q] = remote[q]
    BY <1>1, <1>2
<1>4. World
    BY <1>2, <1>3 DEF World, Evolves, RemoteAlbums, history, Fresh
<1> QED
    BY <1>1, <1>3, <1>4 DEF Fresh, Live

\* A restoration creates an album for m when none carries its tag, and adopts it otherwise.
LEMMA FindOrCreateRestoredKeeps ==
    ASSUME Inv, NEW m \in Members, FindOrCreateRestored(m)
    PROVE  Inv'
<1> DEFINE l == job.album
           token == archive[l].token
<1>1. /\ job \in Jobs /\ job.op = "restore" /\ FirstMember(job.left, m) /\ StateTypeOK
      /\ archive[l].new[m] = 0 /\ UNCHANGED <<lost, trashed, sqlite, asked, taken, spent>>
    BY DEF Inv, StateInv, TablesInv, JobInv, FindOrCreateRestored, Turn, history
<1>2. /\ l \in Albums /\ archive[l].state = "restoring" /\ token # 0 /\ token \in Tags
      /\ m \notin archive[l].back
    BY <1>1, RestoreStep DEF Records
<1>3. \A q \in Remotes : Live(q) /\ remote[q].owner = m /\ remote[q].tag = token => q \in Tagged(m)
    BY <1>2 DEF Tagged
<1>4. CASE job' = Idle /\ UNCHANGED remote
    BY <1>1, <1>4, QuietStep, IdleInOrder DEF Inv, immich, StateTypeOK
<1>5. ASSUME NEW r \in Remotes, job' = [job EXCEPT !.made = r, !.step = "record"]
      PROVE  /\ job' \in Jobs /\ job'.phase = job.phase /\ job'.op = job.op
             /\ job'.queue = job.queue /\ job'.album = l /\ job'.left = job.left
             /\ job'.step = "record" /\ job'.made = r /\ r # 0
    <2>1. r # 0
        BY LifecycleAssumption DEF Remotes
    <2> QED
        BY <1>1, <1>5, <2>1 DEF Jobs
<1>6. ASSUME NEW r \in Remotes, Tagged(m) = {r}, UNCHANGED remote,
             job' = [job EXCEPT !.made = r, !.step = "record"]
      PROVE  Inv'
    <2>1. StateInv'
        BY <1>1, <1>6, QuietStep DEF Inv, immich, StateTypeOK
    <2>2. Existing(r, m)
        BY <1>6 DEF Tagged, Live, Existing
    <2>3. \A q \in Remotes : Live(q)' /\ remote'[q].owner = m /\ remote'[q].tag = token => q = r
        BY <1>3, <1>6 DEF Live
    <2>4. UNCHANGED <<archive, replica, marker, asked>>
        BY <1>1 DEF sqlite
    <2>5. RestoreInOrder(m)'
        BY <1>1, <1>5, <1>6, <2>2, <2>3, <2>4 DEF RestoreInOrder, Existing
    <2> QED
        BY <1>1, <1>5, <1>6, <2>1, <2>5, RestoreGoesOn DEF Inv
<1>7. ASSUME NEW r \in Remotes, Tagged(m) = {}, Fresh(r), Create(r, m, token),
             job' = [job EXCEPT !.made = r, !.step = "record"]
      PROVE  Inv'
    <2>1. /\ remote' \in [Remotes -> RemoteAlbums] /\ World
          /\ \A q \in Remotes : q # r => remote'[q] = remote[q]
          /\ remote'[r].st = "live" /\ remote'[r].owner = m /\ remote'[r].tag = token /\ ~Live(r)
        BY <1>1, <1>2, <1>7, CreateEvolves DEF history
    <2>2. StateTypeOK' /\ UNCHANGED sqlite /\ UNCHANGED <<archive, replica, marker, asked>>
        BY <1>1, <2>1 DEF StateTypeOK, sqlite
    <2>3. TablesInv'
        BY <2>1, <2>2, WorldKeeps DEF Inv, StateInv
    <2>4. \A q \in Remotes : Live(q)' /\ q # r => Live(q) /\ remote'[q] = remote[q]
        BY <2>1 DEF Live
    <2>5. \A q \in Remotes : Live(q)' /\ remote'[q].owner = m /\ remote'[q].tag = token => q = r
        BY <1>3, <1>7, <2>4
    <2>6. OneRestoredAlbum'
        BY <1>1, <1>2, <2>1, <2>2, <2>4, <2>5 DEF Inv, StateInv, OneRestoredAlbum
    <2>7. Existing(r, m)'
        BY <2>1 DEF Existing
    <2>8. RestoreInOrder(m)'
        BY <1>1, <1>5, <1>7, <2>2, <2>5, <2>7 DEF RestoreInOrder, Existing
    <2> QED
        BY <1>1, <1>5, <1>7, <2>3, <2>6, <2>8, RestoreGoesOn DEF Inv, StateInv
<1> QED
    BY <1>4, <1>6, <1>7 DEF FindOrCreateRestored, Abort, Tagged

\* An album that was just created is nobody's mirror yet.
LEMMA CreateReplicaKeeps ==
    ASSUME Inv, NEW m \in Members, CreateReplica(m)
    PROVE  Inv'
<1> DEFINE l == job.album
<1>1. /\ job \in Jobs /\ job.op = "ensure" /\ FirstMember(job.left, m) /\ StateTypeOK /\ MirrorsExist
      /\ replica[l][m] = 0 /\ UNCHANGED <<lost, trashed, sqlite, asked, taken, spent>>
    BY DEF Inv, StateInv, TablesInv, JobInv, CreateReplica, Turn, history
<1>2. 0 \in Tags
    BY LifecycleAssumption DEF Tags
<1>3. PICK r \in Remotes : /\ Fresh(r) /\ Create(r, m, 0)
                           /\ job' = [job EXCEPT !.made = r, !.step = "map"]
    BY DEF CreateReplica
<1>4. /\ remote' \in [Remotes -> RemoteAlbums] /\ World
      /\ \A q \in Remotes : q # r => remote'[q] = remote[q]
      /\ remote'[r].st = "live" /\ remote'[r].owner = m /\ remote'[r].tag = 0
    BY <1>1, <1>2, <1>3, CreateEvolves DEF history
<1>5. NoNewTag
    BY <1>4 DEF NoNewTag, Live
<1>6. StateInv'
    BY <1>1, <1>4, <1>5, AlbumStep DEF Inv, StateTypeOK, history
<1>7. /\ job' \in Jobs /\ job'.phase = job.phase /\ job'.op = job.op
      /\ job'.queue = job.queue /\ job'.album = l /\ job'.left = job.left
      /\ job'.step = "map" /\ job'.made = r /\ r # 0
    <2>1. r # 0
        BY LifecycleAssumption DEF Remotes
    <2> QED
        BY <1>1, <1>3, <2>1 DEF Jobs
<1>8. \A k \in Albums : r \notin {replica[k][m], archive[k].old[m]}
    BY <1>1, <1>3, <1>7 DEF MirrorsExist, Existing, Fresh
<1>9. EnsureInOrder(m)'
    BY <1>1, <1>4, <1>7, <1>8 DEF EnsureInOrder, Existing, sqlite
<1> QED
    BY <1>1, <1>6, <1>7, <1>9, EnsureGoesOn DEF Inv

-----------------------------------------------------------------------------
(* Steps that change the archive of an album.                              *)

LEMMA InvParts ==
    ASSUME Inv
    PROVE  /\ StateTypeOK /\ MirrorsExist /\ MirrorsUnique /\ RegisteredAreMirrored
           /\ MarkersConfirmed /\ ArchiveInOrder /\ ArchiveAgrees /\ ArchivedNotRediscovered
           /\ OneRestoredAlbum /\ JobInv /\ job \in Jobs /\ job.album \in Albums
BY DEF Inv, StateInv, TablesInv, JobInv, Jobs

LEMMA EmptyArchive ==
    /\ NoArchive \in Records /\ NoArchive.state = "none" /\ NoArchive.gone = {} /\ NoArchive.back = {}
    /\ \A m \in Members : NoArchive.new[m] = 0 /\ NoArchive.old[m] = 0
<1>1. 0 \in Tags
    BY LifecycleAssumption DEF Tags
<1>2. [m \in Members |-> 0] \in Owners /\ [m \in Members |-> {}] \in [Members -> SUBSET Photos]
    BY DEF Owners
<1> QED
    BY <1>1, <1>2 DEF NoArchive, Records

\* One archive record takes another value.
LEMMA ArchiveChanges ==
    ASSUME StateTypeOK, NEW l \in Albums, NEW b \in Records, b.state = "restoring" => b.token # 0,
           archive' = [archive EXCEPT ![l] = b],
           UNCHANGED <<immich, registered, replica, asked, taken>>,
           spent' \in Budget, marker' \subseteq Pairs
    PROVE  /\ StateTypeOK' /\ archive'[l] = b
           /\ \A k \in Albums : k # l => archive'[k] = archive[k]
           /\ \A r : (Live(r) <=> Live(r)') /\ (SharedOrAsked(r) <=> SharedOrAsked(r)')
<1>1. b \in Archives
    BY DEF Archives
<1>2. archive' \in [Albums -> Archives]
    BY <1>1 DEF StateTypeOK
<1>3. StateTypeOK'
    BY <1>2 DEF StateTypeOK, immich
<1>4. /\ archive'[l] = b
      /\ \A k \in Albums : k # l => archive'[k] = archive[k]
    BY DEF StateTypeOK
<1> QED
    BY <1>3, <1>4 DEF Live, SharedOrAsked, immich

\* A record's state goes on, and what it archives and what was restored of it stays.
RecordGoesOn(l) ==
    /\ archive[l].state # "none" /\ archive'[l].state # "none"
    /\ archive'[l].state = "deleting" => archive[l].state = "deleting"
    /\ archive[l].state = "restoring" => archive'[l].state = "restoring"
    /\ archive'[l].old = archive[l].old /\ archive'[l].items = archive[l].items
    /\ archive'[l].new = archive[l].new /\ archive'[l].back = archive[l].back
    /\ \A k \in Albums : k # l => archive'[k] = archive[k]

LEMMA RecordKeeps ==
    ASSUME Inv, NEW l \in Albums, RecordGoesOn(l),
           UNCHANGED <<immich, registered, replica, marker, asked, taken>>
    PROVE  /\ MirrorsExist' /\ MirrorsUnique' /\ RegisteredAreMirrored' /\ MarkersConfirmed'
           /\ ArchiveInOrder' /\ ArchivedNotRediscovered'
<1>1. \A k \in Albums : /\ archive'[k].old = archive[k].old /\ archive'[k].items = archive[k].items
                        /\ archive'[k].new = archive[k].new /\ archive'[k].back = archive[k].back
                        /\ archive'[k].state # "none" <=> archive[k].state # "none"
                        /\ archive'[k].state = "deleting" => archive[k].state = "deleting"
                        /\ archive[k].state = "restoring" => archive'[k].state = "restoring"
    BY DEF RecordGoesOn
<1>2. UNCHANGED <<remote, lost>>
    BY DEF immich
<1>3. MirrorsExist'
    BY <1>1, <1>2, InvParts DEF MirrorsExist, Existing
<1>4. MirrorsUnique' /\ RegisteredAreMirrored'
    BY <1>1, InvParts DEF MirrorsUnique, RegisteredAreMirrored
<1>5. MarkersConfirmed'
    BY <1>1, <1>2, InvParts DEF MarkersConfirmed, SharedOrAsked, Live
<1>6. \A k \in Albums, m \in Members : /\ Complete(k, m) => Complete(k, m)'
                                       /\ Untagged(k, m) => Untagged(k, m)'
    BY <1>1, <1>2 DEF Complete, Untagged, Live
<1>7. ArchiveInOrder'
    BY <1>1, <1>6, InvParts DEF ArchiveInOrder
<1>8. ArchivedNotRediscovered'
    BY <1>1, InvParts DEF ArchivedNotRediscovered
<1> QED
    BY <1>3, <1>4, <1>5, <1>7, <1>8

LEMMA BeginAlbumDeletionKeeps ==
    ASSUME Inv, BeginAlbumDeletion
    PROVE  Inv'
<1> DEFINE l == job.album
           b == [NoArchive EXCEPT !.state = "deleting", !.old = replica[l], !.items = job.draft]
<1>1. /\ job.op = "archive" /\ archive' = [archive EXCEPT ![l] = b]
      /\ marker' = {w \in marker : w[1] # l} /\ job' = Operate("delete", l, Members)
      /\ UNCHANGED <<immich, registered, replica, asked, taken, spent>>
    BY DEF BeginAlbumDeletion, MarkersLeft, history
<1>2. l \in Albums /\ IsActive(l) /\ AskedFor(l)
    BY <1>1, InvParts DEF JobInv, OperationInOrder
<1>3. /\ b \in Records /\ b.state = "deleting" /\ b.old = replica[l] /\ b.gone = {} /\ b.back = {}
      /\ \A m \in Members : b.new[m] = 0
    <2>1. replica[l] \in Owners /\ job.draft \in [Members -> SUBSET Photos] /\ 0 \in Tags
        BY <1>2, InvParts, LifecycleAssumption DEF StateTypeOK, Jobs, Tags
    <2> DEFINE c == [NoArchive EXCEPT !.state = "deleting"]
               d == [c EXCEPT !.old = replica[l]]
               e == [d EXCEPT !.items = job.draft]
    <2>2. c \in Records /\ c.state = "deleting" /\ c.gone = {} /\ c.back = {}
          /\ \A m \in Members : c.new[m] = 0
        BY EmptyArchive DEF Records
    <2> HIDE DEF c
    <2>3. d \in Records /\ d.state = "deleting" /\ d.gone = {} /\ d.back = {} /\ d.new = c.new
          /\ d.old = replica[l]
        BY <2>1, <2>2 DEF Records
    <2> HIDE DEF d
    <2>4. e \in Records /\ e.state = "deleting" /\ e.gone = {} /\ e.back = {} /\ e.new = c.new
          /\ e.old = replica[l]
        BY <2>1, <2>3 DEF Records
    <2> HIDE DEF e
    <2>5. b = e
        BY DEF c, d, e
    <2> QED
        BY <2>2, <2>4, <2>5
<1> HIDE DEF b
<1>4. spent' \in Budget /\ marker' \subseteq Pairs
    BY <1>1, InvParts DEF StateTypeOK
<1>5. /\ StateTypeOK' /\ archive'[l] = b
      /\ \A k \in Albums : k # l => archive'[k] = archive[k]
      /\ \A r : (Live(r) <=> Live(r)') /\ (SharedOrAsked(r) <=> SharedOrAsked(r)')
    BY <1>1, <1>2, <1>3, <1>4, InvParts, ArchiveChanges
<1>6. MirrorsExist'
    BY <1>1, <1>3, <1>5, InvParts DEF MirrorsExist, Existing, immich
<1>7. MirrorsUnique' /\ RegisteredAreMirrored'
    BY <1>1, <1>2, <1>5, InvParts DEF MirrorsUnique, RegisteredAreMirrored, IsActive
<1>8. MarkersConfirmed'
    BY <1>1, <1>5, InvParts DEF MarkersConfirmed
<1>9. ArchiveInOrder'
    BY <1>1, <1>2, <1>3, <1>5, InvParts DEF ArchiveInOrder, AskedFor, Complete, Untagged, immich
<1>10. ArchiveAgrees'
    BY <1>1, <1>2, <1>3, <1>5, InvParts DEF ArchiveAgrees
<1>11. ArchivedNotRediscovered'
    BY <1>1, <1>3, <1>5, InvParts DEF ArchivedNotRediscovered, MirrorsUnique
<1>12. OneRestoredAlbum'
    BY <1>1, <1>2, <1>5, InvParts DEF OneRestoredAlbum, IsActive, immich
<1>13. /\ job' \in Jobs /\ job'.phase = job.phase /\ job'.queue = job.queue /\ job'.album = l
       /\ job'.op = "delete" /\ job'.left = Members /\ job'.step = "start"
    BY <1>1, <1>2, InvParts DEF Operate, Jobs
<1>14. PhaseInOrder' /\ QueueInOrder'
    BY <1>1, <1>5, <1>13, InvParts, OperationQueue DEF OthersKept, PhaseGoesOn
<1>15. OperationInOrder'
    BY <1>3, <1>5, <1>13 DEF OperationInOrder
<1> QED
    BY <1>5, <1>6, <1>7, <1>8, <1>9, <1>10, <1>11, <1>12, <1>13, <1>14, <1>15
       DEF Inv, StateInv, TablesInv, JobInv

LEMMA SaveDeletedKeeps ==
    ASSUME Inv, NEW m \in Members, SaveDeleted(m)
    PROVE  Inv'
<1> DEFINE l == job.album
           a == archive[l]
           b == [a EXCEPT !.gone = @ \cup {m}]
<1>1. /\ job.op = "delete" /\ job.step = "record" /\ FirstMember(job.left, m)
      /\ archive' = [archive EXCEPT ![l] = b] /\ job' = [job EXCEPT !.left = @ \ {m}, !.step = "start"]
      /\ UNCHANGED <<immich, registered, replica, marker, asked, taken, spent>>
    BY InvParts DEF SaveDeleted, Turn, MemberDone, history, StateTypeOK, Archives, Records
<1>2. /\ l \in Albums /\ a \in Records /\ a.state = "deleting" /\ Members \ job.left \subseteq a.gone
      /\ ~Live(a.old[m])
    BY <1>1, InvParts, TableTypes DEF JobInv, OperationInOrder
<1>3. /\ b \in Records /\ b.state = "deleting" /\ b.token = a.token /\ b.old = a.old
      /\ b.items = a.items /\ b.gone = a.gone \cup {m} /\ b.new = a.new /\ b.back = a.back
    BY <1>2 DEF Records
<1> HIDE DEF b
<1>4. spent' \in Budget /\ marker' \subseteq Pairs
    BY <1>1, InvParts DEF StateTypeOK
<1>5. /\ StateTypeOK' /\ archive'[l] = b
      /\ \A k \in Albums : k # l => archive'[k] = archive[k]
      /\ \A r : (Live(r) <=> Live(r)') /\ (SharedOrAsked(r) <=> SharedOrAsked(r)')
    BY <1>1, <1>2, <1>3, <1>4, InvParts, ArchiveChanges
<1>6. RecordGoesOn(l)
    BY <1>2, <1>3, <1>5 DEF RecordGoesOn
<1>7. /\ MirrorsExist' /\ MirrorsUnique' /\ RegisteredAreMirrored' /\ MarkersConfirmed'
      /\ ArchiveInOrder' /\ ArchivedNotRediscovered'
    BY <1>1, <1>2, <1>6, RecordKeeps
<1>10. ArchiveAgrees'
    BY <1>1, <1>2, <1>3, <1>5, InvParts DEF ArchiveAgrees
<1>12. OneRestoredAlbum'
    BY <1>1, <1>2, <1>3, <1>5, InvParts DEF OneRestoredAlbum, immich
<1>13. /\ job' \in Jobs /\ job'.phase = job.phase /\ job'.queue = job.queue /\ job'.album = l
       /\ job'.op = "delete" /\ job'.left = job.left \ {m} /\ job'.step = "start"
    BY <1>1, InvParts DEF Jobs
<1>14. PhaseInOrder' /\ QueueInOrder'
    BY <1>1, <1>5, <1>13, InvParts, OperationQueue DEF OthersKept, PhaseGoesOn
<1>15. OperationInOrder'
    BY <1>2, <1>3, <1>5, <1>13 DEF OperationInOrder
<1> QED
    BY <1>5, <1>7, <1>10, <1>12, <1>13, <1>14, <1>15
       DEF Inv, StateInv, TablesInv, JobInv

LEMMA FinishDeletionKeeps ==
    ASSUME Inv, FinishDeletion
    PROVE  Inv'
<1> DEFINE l == job.album
           a == archive[l]
           b == [a EXCEPT !.state = "deleted"]
<1>1. /\ job.op = "delete" /\ job.left = {} /\ archive' = [archive EXCEPT ![l] = b] /\ OpDone
      /\ UNCHANGED <<immich, registered, replica, marker, asked, taken, spent>>
    BY InvParts DEF FinishDeletion, history, StateTypeOK, Archives, Records
<1>2. l \in Albums /\ a \in Records /\ a.state = "deleting" /\ Members \subseteq a.gone
    BY <1>1, InvParts, TableTypes DEF JobInv, OperationInOrder
<1>3. /\ b \in Records /\ b.state = "deleted" /\ b.token = a.token /\ b.old = a.old
      /\ b.items = a.items /\ b.gone = a.gone /\ b.new = a.new /\ b.back = a.back
    BY <1>2 DEF Records
<1> HIDE DEF b
<1>4. spent' \in Budget /\ marker' \subseteq Pairs
    BY <1>1, InvParts DEF StateTypeOK
<1>5. /\ StateTypeOK' /\ archive'[l] = b
      /\ \A k \in Albums : k # l => archive'[k] = archive[k]
      /\ \A r : (Live(r) <=> Live(r)') /\ (SharedOrAsked(r) <=> SharedOrAsked(r)')
    BY <1>1, <1>2, <1>3, <1>4, InvParts, ArchiveChanges
<1>6. RecordGoesOn(l)
    BY <1>2, <1>3, <1>5 DEF RecordGoesOn
<1>7. /\ MirrorsExist' /\ MirrorsUnique' /\ RegisteredAreMirrored' /\ MarkersConfirmed'
      /\ ArchiveInOrder' /\ ArchivedNotRediscovered'
    BY <1>1, <1>2, <1>6, RecordKeeps
<1>10. ArchiveAgrees'
    BY <1>1, <1>2, <1>3, <1>5, InvParts DEF ArchiveAgrees
<1>12. OneRestoredAlbum'
    BY <1>1, <1>2, <1>5, InvParts DEF OneRestoredAlbum, immich
<1>13. JobInv'
    BY <1>1, <1>5, InvParts, OpDoneKeeps DEF OthersKept
<1> QED
    BY <1>5, <1>7, <1>10, <1>12, <1>13 DEF Inv, StateInv, TablesInv

LEMMA CallRestoreKeeps ==
    ASSUME Inv, NEW l \in Albums, CallRestore(l)
    PROVE  Inv'
<1> DEFINE a == archive[l]
           b == [a EXCEPT !.state = "restoring", !.token = spent.calls + 1]
           c == [a EXCEPT !.state = "restoring"]
           left == Members \ a.back
<1>1. /\ a.state \in {"deleted", "restoring"} /\ Request("restore", l, left)
      /\ spent' = [spent EXCEPT !.calls = @ + 1] /\ 2 * spent.edits + spent.calls + 1 <= MaxInputs
      /\ UNCHANGED <<immich, registered, replica, marker, asked, taken>>
    BY DEF CallRestore, Call, Spendable, history
<1>2. a \in Records /\ a.back \subseteq Members
    BY InvParts, TableTypes DEF Records
<1>3. spent' \in Budget /\ marker' \subseteq Pairs /\ spent.calls + 1 \in Tags /\ spent.calls + 1 # 0
    <2>1. spent \in Budget
        BY InvParts DEF StateTypeOK
    <2>2. spent' \in Budget /\ spent.calls + 1 \in Tags /\ spent.calls + 1 # 0
        BY <1>1, <2>1, CallCounted
    <2> QED
        BY <1>1, <2>2, InvParts DEF StateTypeOK
<1>4. left \in SUBSET Members /\ left = Members \ a.back
    BY <1>2
<1> HIDE DEF left
<1>5. job' \in Jobs /\ job'.phase = "api" /\ job'.op = "restore" /\ job'.album = l
      /\ job'.left = left /\ job'.step = "start"
    BY <1>1, <1>4, InvParts, OperateRequest DEF Ops
<1>6. CASE a.state = "restoring" /\ UNCHANGED archive
    <2>1. StateInv'
        BY <1>1, <1>3, <1>6, InvParts, QuietStep DEF Inv, StateTypeOK, sqlite
    <2>2. OperationInOrder'
        BY <1>4, <1>5, <1>6, StartInOrder DEF OperationInOrder
    <2> QED
        BY <1>5, <2>1, <2>2, RequestInOrder DEF Inv, JobInv
<1>7. CASE a.state = "deleted" /\ archive' = [archive EXCEPT ![l] = b]
    <2>1. c \in Records /\ c.state = "restoring" /\ c.old = a.old
          /\ c.items = a.items /\ c.gone = a.gone /\ c.new = a.new /\ c.back = a.back
        BY <1>2 DEF Records
    <2>2. b = [c EXCEPT !.token = spent.calls + 1]
        OBVIOUS
    <2> HIDE DEF b, c
    <2>3. /\ b \in Records /\ b.state = "restoring" /\ b.token # 0 /\ b.old = a.old
          /\ b.items = a.items /\ b.gone = a.gone /\ b.new = a.new /\ b.back = a.back
        BY <1>3, <2>1, <2>2 DEF Records
    <2>4. /\ StateTypeOK' /\ archive'[l] = b
          /\ \A k \in Albums : k # l => archive'[k] = archive[k]
          /\ \A r : (Live(r) <=> Live(r)') /\ (SharedOrAsked(r) <=> SharedOrAsked(r)')
        BY <1>1, <1>3, <1>7, <2>3, InvParts, ArchiveChanges
    <2>5. RecordGoesOn(l)
        BY <1>7, <2>3, <2>4 DEF RecordGoesOn
    <2>6. /\ MirrorsExist' /\ MirrorsUnique' /\ RegisteredAreMirrored' /\ MarkersConfirmed'
          /\ ArchiveInOrder' /\ ArchivedNotRediscovered'
        BY <1>1, <2>5, RecordKeeps
    <2>9. ArchiveAgrees'
        BY <1>1, <1>7, <2>3, <2>4, InvParts DEF ArchiveAgrees
    <2>11. OneRestoredAlbum'
        BY <1>1, <1>7, <2>4, InvParts DEF OneRestoredAlbum, immich
    <2>12. OperationInOrder'
        BY <1>4, <1>5, <2>3, <2>4, StartInOrder DEF OperationInOrder
    <2> QED
        BY <1>5, <2>4, <2>6, <2>9, <2>11, <2>12, RequestInOrder DEF Inv, StateInv, TablesInv, JobInv
<1> QED
    BY <1>1, <1>6, <1>7, InvParts DEF CallRestore, Restoring, StateTypeOK

LEMMA SaveRestoredAlbumKeeps ==
    ASSUME Inv, NEW m \in Members, SaveRestoredAlbum(m)
    PROVE  Inv'
<1> DEFINE l == job.album
           a == archive[l]
           b == [a EXCEPT !.new[m] = job.made]
<1>1. /\ job.op = "restore" /\ job.step = "record" /\ FirstMember(job.left, m)
      /\ archive' = [archive EXCEPT ![l] = b]
      /\ job' = [job EXCEPT !.step = "start", !.made = 0, !.left = @ \ b.back]
      /\ UNCHANGED <<immich, registered, replica, marker, asked, taken, spent>>
    BY DEF SaveRestoredAlbum, Saved, Turn, history
<1>2. /\ l \in Albums /\ a \in Records /\ a.state = "restoring" /\ a.token # 0
      /\ job.left = Members \ a.back /\ m \notin a.back /\ a.new[m] = 0
      /\ job.made \in Remotes /\ Existing(job.made, m)
      /\ \A q \in Remotes : Live(q) /\ remote[q].owner = m /\ remote[q].tag = a.token => q = job.made
    BY <1>1, RestoreStep, InvParts DEF RestoreInOrder, Jobs
<1>3. /\ b \in Records /\ b.state = "restoring" /\ b.token = a.token /\ b.old = a.old
      /\ b.items = a.items /\ b.gone = a.gone /\ b.back = a.back
    BY <1>2 DEF Records, Owners
<1>4. b.new[m] = job.made /\ \A n \in Members : n # m => b.new[n] = a.new[n]
    BY <1>2 DEF Records, Owners
<1> HIDE DEF b
<1>5. spent' \in Budget /\ marker' \subseteq Pairs /\ job.made # 0
    BY <1>1, <1>2, InvParts, LifecycleAssumption DEF StateTypeOK, Remotes
<1>6. /\ StateTypeOK' /\ archive'[l] = b
      /\ \A k \in Albums : k # l => archive'[k] = archive[k]
      /\ \A r : (Live(r) <=> Live(r)') /\ (SharedOrAsked(r) <=> SharedOrAsked(r)')
    BY <1>1, <1>2, <1>3, <1>5, InvParts, ArchiveChanges
<1> DEFINE others(k, n) == k = l => n # m
<1>17. \A k \in Albums, n \in Members :
          /\ archive'[k].old[n] = archive[k].old[n] /\ archive'[k].items[n] = archive[k].items[n]
          /\ archive'[k].back = archive[k].back /\ archive'[k].state = archive[k].state
          /\ others(k, n) => archive'[k].new[n] = archive[k].new[n]
    BY <1>2, <1>3, <1>4, <1>6
<1>18. archive'[l].new[m] = job.made
    BY <1>4, <1>6
<1>7. MirrorsExist'
    <2>1. \A r \in Remotes \cup {0}, n \in Members : Existing(r, n)' <=> Existing(r, n)
        BY <1>1 DEF Existing, immich
    <2>2. \A k \in Albums, n \in Members :
             /\ replica[k][n] \in Remotes \cup {0}
             /\ archive[k].old[n] \in Remotes \cup {0} /\ archive[k].new[n] \in Remotes \cup {0}
        BY InvParts, TableTypes
    <2>3. MirrorsExist
        BY InvParts
    <2> QED
        BY <1>1, <1>2, <1>17, <1>18, <2>1, <2>2, <2>3 DEF MirrorsExist
<1>8. MirrorsUnique' /\ RegisteredAreMirrored'
    BY <1>1, <1>2, <1>6, InvParts DEF MirrorsUnique, RegisteredAreMirrored
<1>9. MarkersConfirmed'
    BY <1>1, <1>2, <1>3, <1>4, <1>6, InvParts DEF MarkersConfirmed
<1>10. ArchiveInOrder'
    <2>1. \A k \in Albums, n \in Members : others(k, n) =>
             (Complete(k, n) => Complete(k, n)') /\ (Untagged(k, n) => Untagged(k, n)')
        BY <1>1, <1>17 DEF Complete, Untagged, Live, immich
    <2>2. ASSUME NEW k \in Albums, archive[k].state # "none"
          PROVE  /\ archive[k].state = "deleting" => \E n \in Members : archive'[k].old[n] \in asked
                 /\ \A n \in Members :
                       /\ archive'[k].new[n] = 0 => replica[k][n] = archive'[k].old[n]
                       /\ archive[k].state # "restoring" => archive'[k].new[n] = 0
                       /\ n \in archive[k].back => Complete(k, n)' /\ Untagged(k, n)'
        <3>1. archive[k].state = "deleting" => \E n \in Members : archive'[k].old[n] \in asked
            BY <1>17, <2>2, InvParts DEF ArchiveInOrder
        <3>2. ASSUME NEW n \in Members
              PROVE  /\ archive'[k].new[n] = 0 => replica[k][n] = archive'[k].old[n]
                     /\ archive[k].state # "restoring" => archive'[k].new[n] = 0
                     /\ n \in archive[k].back => Complete(k, n)' /\ Untagged(k, n)'
            <4>1. CASE others(k, n)
                BY <1>17, <2>1, <2>2, <4>1, InvParts DEF ArchiveInOrder
            <4>2. CASE k = l /\ n = m
                BY <1>2, <1>5, <1>18, <4>2
            <4> QED
                BY <4>1, <4>2
        <3> QED
            BY <3>1, <3>2
    <2> QED
        BY <1>1, <1>17, <2>2 DEF ArchiveInOrder
<1>11. ArchiveAgrees'
    BY <1>1, <1>2, <1>3, <1>4, <1>6, InvParts DEF ArchiveAgrees, ArchiveInOrder
<1>12. ArchivedNotRediscovered'
    BY <1>1, <1>2, <1>3, <1>6, InvParts DEF ArchivedNotRediscovered
<1>13. OneRestoredAlbum'
    <2>1. ASSUME NEW r \in Remotes, Live(r), remote[r].tag # 0
          PROVE  \E k \in Albums : /\ archive'[k].state = "restoring"
                                   /\ archive'[k].token = remote[r].tag
                                   /\ archive'[k].new[remote[r].owner] \in {0, r}
                                   /\ remote[r].owner \notin archive'[k].back
        <3>1. PICK k \in Albums : /\ archive[k].state = "restoring"
                                  /\ archive[k].token = remote[r].tag
                                  /\ archive[k].new[remote[r].owner] \in {0, r}
                                  /\ remote[r].owner \notin archive[k].back
            BY <2>1, InvParts DEF OneRestoredAlbum
        <3>2. remote[r].owner \in Members
            BY <2>1, InvParts, TableTypes DEF RemoteAlbums
        <3>3. CASE k = l
            BY <1>2, <1>3, <1>4, <1>6, <2>1, <3>1, <3>2, <3>3
        <3> QED
            BY <1>6, <3>1, <3>3
    <2> QED
        BY <1>1, <1>6, <2>1, InvParts DEF OneRestoredAlbum, immich
<1>14. /\ job' \in Jobs /\ job'.phase = job.phase /\ job'.queue = job.queue /\ job'.album = l
       /\ job'.op = "restore" /\ job'.left = job.left \ b.back /\ job'.step = "start"
    <2>1. 0 \in Remotes \cup {0} /\ job.left \ b.back \in SUBSET Members
        BY <1>2
    <2> QED
        BY <1>1, <2>1, InvParts DEF Jobs
<1>15. PhaseInOrder' /\ QueueInOrder'
    BY <1>1, <1>6, <1>14, InvParts, OperationQueue DEF OthersKept, PhaseGoesOn
<1>16. OperationInOrder'
    BY <1>2, <1>3, <1>6, <1>14, StartInOrder DEF OperationInOrder
<1> QED
    BY <1>6, <1>7, <1>8, <1>9, <1>10, <1>11, <1>12, <1>13, <1>14, <1>15, <1>16
       DEF Inv, StateInv, TablesInv, JobInv

\* The member counts as restored once its new album is complete, mapped and shared.
LEMMA SaveRestoredKeeps ==
    ASSUME Inv, NEW m \in Members, SaveRestored(m)
    PROVE  Inv'
<1> DEFINE l == job.album
           a == archive[l]
           b == [a EXCEPT !.back = @ \cup {m}]
<1>1. /\ job.op = "restore" /\ job.step = "save" /\ FirstMember(job.left, m)
      /\ archive' = [archive EXCEPT ![l] = b] /\ job' = [job EXCEPT !.left = @ \ {m}, !.step = "start"]
      /\ UNCHANGED <<immich, registered, replica, marker, asked, taken, spent>>
    BY InvParts DEF SaveRestored, Turn, MemberDone, history, StateTypeOK, Archives, Records
<1>2. /\ l \in Albums /\ a \in Records /\ a.state = "restoring" /\ a.token # 0
      /\ job.left = Members \ a.back
      /\ a.new[m] # 0 /\ Complete(l, m) /\ Untagged(l, m) /\ replica[l][m] = a.new[m]
      /\ <<l, m>> \in marker
    BY <1>1, RestoreStep DEF RestoreInOrder
<1>3. /\ b \in Records /\ b.state = "restoring" /\ b.token = a.token /\ b.old = a.old
      /\ b.items = a.items /\ b.gone = a.gone /\ b.new = a.new /\ b.back = a.back \cup {m}
    BY <1>2 DEF Records
<1> HIDE DEF b
<1>4. spent' \in Budget /\ marker' \subseteq Pairs
    BY <1>1, InvParts DEF StateTypeOK
<1>5. /\ StateTypeOK' /\ archive'[l] = b
      /\ \A k \in Albums : k # l => archive'[k] = archive[k]
      /\ \A r : (Live(r) <=> Live(r)') /\ (SharedOrAsked(r) <=> SharedOrAsked(r)')
    BY <1>1, <1>2, <1>3, <1>4, InvParts, ArchiveChanges
<1>6. MirrorsExist'
    BY <1>1, <1>3, <1>5, InvParts DEF MirrorsExist, Existing, immich
<1>7. MirrorsUnique' /\ RegisteredAreMirrored'
    BY <1>1, <1>2, <1>5, InvParts DEF MirrorsUnique, RegisteredAreMirrored
<1>8. MarkersConfirmed'
    BY <1>1, <1>2, <1>3, <1>5, InvParts DEF MarkersConfirmed
<1>9. ArchiveInOrder'
    <2>1. \A k \in Albums, n \in Members : archive'[k].items = archive[k].items
                                           /\ archive'[k].new = archive[k].new
                                           /\ archive'[k].old = archive[k].old
                                           /\ archive'[k].state = archive[k].state
        BY <1>3, <1>2, <1>5
    <2>2. \A k \in Albums, n \in Members : /\ Complete(k, n) => Complete(k, n)'
                                           /\ Untagged(k, n) => Untagged(k, n)'
        BY <1>1, <1>5, <2>1 DEF Complete, Untagged, immich
    <2>3. ASSUME NEW k \in Albums, archive[k].state # "none", NEW n \in Members, n \in archive'[k].back
          PROVE  Complete(k, n) /\ Untagged(k, n)
        BY <1>2, <1>3, <1>5, <2>3, InvParts DEF ArchiveInOrder
    <2> QED
        BY <1>1, <2>1, <2>2, <2>3, InvParts DEF ArchiveInOrder
<1>10. ArchiveAgrees'
    BY <1>1, <1>2, <1>3, <1>5, InvParts DEF ArchiveAgrees
<1>11. ArchivedNotRediscovered'
    BY <1>1, <1>2, <1>3, <1>5, InvParts DEF ArchivedNotRediscovered
<1>12. OneRestoredAlbum'
    <2>1. ASSUME NEW r \in Remotes, Live(r), remote[r].tag # 0
          PROVE  \E k \in Albums : /\ archive'[k].state = "restoring"
                                   /\ archive'[k].token = remote[r].tag
                                   /\ archive'[k].new[remote[r].owner] \in {0, r}
                                   /\ remote[r].owner \notin archive'[k].back
        <3>1. PICK k \in Albums : /\ archive[k].state = "restoring"
                                  /\ archive[k].token = remote[r].tag
                                  /\ archive[k].new[remote[r].owner] \in {0, r}
                                  /\ remote[r].owner \notin archive[k].back
            BY <2>1, InvParts DEF OneRestoredAlbum
        <3>2. CASE k = l
            <4>1. remote[r].owner # m
                BY <1>2, <2>1, <3>1, <3>2 DEF Untagged
            <4> QED
                BY <1>2, <1>3, <1>5, <3>1, <3>2, <4>1
        <3> QED
            BY <1>5, <3>1, <3>2
    <2> QED
        BY <1>1, <1>5, <2>1, InvParts DEF OneRestoredAlbum, immich
<1>13. /\ job' \in Jobs /\ job'.phase = job.phase /\ job'.queue = job.queue /\ job'.album = l
       /\ job'.op = "restore" /\ job'.left = job.left \ {m} /\ job'.step = "start"
    BY <1>1, InvParts DEF Jobs
<1>14. PhaseInOrder' /\ QueueInOrder'
    BY <1>1, <1>5, <1>13, InvParts, OperationQueue DEF OthersKept, PhaseGoesOn
<1>15. OperationInOrder'
    BY <1>2, <1>3, <1>5, <1>13, StartInOrder DEF OperationInOrder
<1> QED
    BY <1>5, <1>6, <1>7, <1>8, <1>9, <1>10, <1>11, <1>12, <1>13, <1>14, <1>15
       DEF Inv, StateInv, TablesInv, JobInv

LEMMA FinishAlbumRestoreKeeps ==
    ASSUME Inv, FinishAlbumRestore
    PROVE  Inv'
<1> DEFINE l == job.album
<1>1. /\ job.op = "restore" /\ job.left = {} /\ archive' = [archive EXCEPT ![l] = NoArchive] /\ OpDone
      /\ UNCHANGED <<immich, registered, replica, marker, asked, taken, spent>>
    BY DEF FinishAlbumRestore, history
<1>2. l \in Albums /\ archive[l].state = "restoring" /\ Members \subseteq archive[l].back
    BY <1>1, InvParts DEF JobInv, OperationInOrder
<1>3. spent' \in Budget /\ marker' \subseteq Pairs
    BY <1>1, InvParts DEF StateTypeOK
<1>4. /\ StateTypeOK' /\ archive'[l] = NoArchive
      /\ \A k \in Albums : k # l => archive'[k] = archive[k]
      /\ \A r : (Live(r) <=> Live(r)') /\ (SharedOrAsked(r) <=> SharedOrAsked(r)')
    BY <1>1, <1>2, <1>3, InvParts, ArchiveChanges, EmptyArchive
<1>5. MirrorsExist'
    BY <1>1, <1>4, InvParts, EmptyArchive DEF MirrorsExist, Existing, immich
<1>6. MirrorsUnique' /\ RegisteredAreMirrored'
    BY <1>1, <1>2, <1>4, InvParts DEF MirrorsUnique, RegisteredAreMirrored
<1>7. MarkersConfirmed'
    BY <1>1, <1>4, InvParts, EmptyArchive DEF MarkersConfirmed
<1>8. ArchiveInOrder'
    BY <1>1, <1>2, <1>4, InvParts, EmptyArchive DEF ArchiveInOrder, Complete, Untagged, immich
<1>9. ArchiveAgrees'
    BY <1>1, <1>4, InvParts, EmptyArchive DEF ArchiveAgrees
<1>10. ArchivedNotRediscovered'
    BY <1>1, <1>4, InvParts, EmptyArchive DEF ArchivedNotRediscovered
<1>11. OneRestoredAlbum'
    <2>1. \A r \in Remotes : remote[r].owner \in Members
        BY InvParts, TableTypes DEF RemoteAlbums
    <2>2. ASSUME NEW r \in Remotes, Live(r), remote[r].tag # 0
          PROVE  \E k \in Albums : /\ archive'[k].state = "restoring"
                                   /\ archive'[k].token = remote[r].tag
                                   /\ archive'[k].new[remote[r].owner] \in {0, r}
                                   /\ remote[r].owner \notin archive'[k].back
        BY <1>2, <1>4, <2>1, <2>2, InvParts DEF OneRestoredAlbum
    <2> QED
        BY <1>1, <1>4, <2>2, InvParts DEF OneRestoredAlbum, immich
<1>12. JobInv'
    BY <1>1, <1>4, InvParts, OpDoneKeeps DEF OthersKept
<1> QED
    BY <1>4, <1>5, <1>6, <1>7, <1>8, <1>9, <1>10, <1>11, <1>12 DEF Inv, StateInv, TablesInv

-----------------------------------------------------------------------------
(* Steps that change the mirrors or their confirmed shares.                *)

LEMMA MappingChanges ==
    ASSUME Inv, UNCHANGED <<immich, archive, asked, taken>>, spent' \in Budget,
           registered' \subseteq Albums, marker' \subseteq Pairs, replica' \in [Albums -> Owners]
    PROVE  /\ StateTypeOK' /\ OneRestoredAlbum'
           /\ \A r : (Live(r) <=> Live(r)') /\ (SharedOrAsked(r) <=> SharedOrAsked(r)')
           /\ \A l \in Albums, m \in Members :
                 (Complete(l, m) <=> Complete(l, m)') /\ (Untagged(l, m) <=> Untagged(l, m)')
<1>1. StateTypeOK'
    BY InvParts DEF StateTypeOK, immich
<1>2. OneRestoredAlbum'
    BY InvParts DEF OneRestoredAlbum, Live, immich
<1> QED
    BY <1>1, <1>2 DEF Live, SharedOrAsked, Complete, Untagged, immich

LEMMA RecordAlbumMarkerKeeps ==
    ASSUME Inv, NEW m \in Members, RecordAlbumMarker(m)
    PROVE  Inv'
<1> DEFINE l == job.album
           r == replica[l][m]
<1>1. /\ job.op \in {"restore", "ensure"} /\ job.step = "mark" /\ FirstMember(job.left, m)
      /\ marker' = marker \cup {<<l, m>>}
      /\ UNCHANGED <<immich, registered, replica, archive, asked, taken, spent>>
      /\ l \in Albums /\ job \in Jobs
    BY InvParts DEF RecordAlbumMarker, history
<1>2. r # 0 /\ SharedOrAsked(r)
    BY <1>1, RestoreStep, InvParts
       DEF JobInv, OperationInOrder, RestoreInOrder, EnsureInOrder
<1>3. archive[l].state # "none" => job.op = "restore" /\ r = archive[l].new[m]
    BY <1>1, RestoreStep, InvParts DEF JobInv, OperationInOrder, RestoreInOrder, IsActive
<1>4. spent' \in Budget /\ marker' \subseteq Pairs /\ registered' \subseteq Albums
      /\ replica' \in [Albums -> Owners]
    BY <1>1, InvParts DEF StateTypeOK, Pairs
<1>5. /\ StateTypeOK' /\ OneRestoredAlbum'
      /\ \A q : (Live(q) <=> Live(q)') /\ (SharedOrAsked(q) <=> SharedOrAsked(q)')
      /\ \A k \in Albums, n \in Members :
            (Complete(k, n) <=> Complete(k, n)') /\ (Untagged(k, n) <=> Untagged(k, n)')
    BY <1>1, <1>4, MappingChanges
<1>6. /\ MirrorsExist' /\ MirrorsUnique' /\ RegisteredAreMirrored' /\ ArchivedNotRediscovered'
    BY <1>1, InvParts DEF MirrorsExist, MirrorsUnique, RegisteredAreMirrored,
                          ArchivedNotRediscovered, Existing, immich
<1>7. MarkersConfirmed'
    BY <1>1, <1>2, <1>3, <1>5, InvParts DEF MarkersConfirmed
<1>8. ArchiveInOrder'
    BY <1>1, <1>5, InvParts DEF ArchiveInOrder
<1>9. ArchiveAgrees'
    BY <1>1, <1>5, InvParts DEF ArchiveAgrees
<1>10. CASE job.op = "restore" /\ job' = [job EXCEPT !.step = "save"]
    <2>1. /\ job' \in Jobs /\ job'.phase = job.phase /\ job'.queue = job.queue /\ job'.album = l
          /\ job'.op = "restore" /\ job'.left = job.left /\ job'.step = "save"
        BY <1>1, <1>10 DEF Jobs
    <2>2. PhaseInOrder' /\ QueueInOrder'
        BY <1>1, <1>10, <2>1, InvParts, OperationQueue DEF OthersKept, PhaseGoesOn
    <2>3. RestoreInOrder(m) /\ archive[l].new[m] # 0 /\ Complete(l, m) /\ Untagged(l, m)
          /\ r = archive[l].new[m]
        BY <1>1, <1>10, RestoreStep DEF RestoreInOrder
    <2>4. Complete(l, m)' /\ Untagged(l, m)'
        BY <1>1, <1>5, <2>1, <2>3
    <2>5. RestoreInOrder(m)'
        BY <1>1, <2>1, <2>3, <2>4 DEF RestoreInOrder
    <2>6. \A n \in Members : FirstMember(job.left, n) => n = m
        BY <1>1, FirstMemberUnique
    <2>7. OperationInOrder'
        BY <1>1, <1>10, <2>1, <2>5, <2>6, InvParts DEF JobInv, OperationInOrder
    <2> QED
        BY <1>5, <1>6, <1>7, <1>8, <1>9, <2>1, <2>2, <2>7 DEF Inv, StateInv, TablesInv, JobInv
<1>11. CASE job.op = "ensure" /\ job' = [job EXCEPT !.left = @ \ {m}, !.step = "start"]
    <2>1. /\ job' \in Jobs /\ job'.phase = job.phase /\ job'.queue = job.queue /\ job'.album = l
          /\ job'.op = "ensure" /\ job'.step = "start"
        BY <1>1, <1>11 DEF Jobs
    <2>2. PhaseInOrder' /\ QueueInOrder'
        BY <1>1, <1>11, <2>1, InvParts, OperationQueue DEF OthersKept, PhaseGoesOn
    <2>3. OperationInOrder'
        BY <1>1, <1>11, <2>1, StartInOrder, InvParts DEF JobInv, OperationInOrder, IsActive
    <2> QED
        BY <1>5, <1>6, <1>7, <1>8, <1>9, <2>1, <2>2, <2>3 DEF Inv, StateInv, TablesInv, JobInv
<1> QED
    BY <1>1, <1>10, <1>11 DEF RecordAlbumMarker, To, MemberDone

\* A restored album replaces the deleted mirror, and nobody else's: an archive that still
\* counts it as a mirror to be deleted keeps it mapped, and the step fails.
LEMMA MapRestoredKeeps ==
    ASSUME Inv, NEW m \in Members, MapRestored(m)
    PROVE  Inv'
<1> DEFINE l == job.album
           r == archive[l].new[m]
           elsewhere == \E w \in Pairs : w # <<l, m>> /\ replica[w[1]][w[2]] = r
<1>1. /\ job.op = "restore" /\ job.step = "map" /\ FirstMember(job.left, m)
      /\ UNCHANGED <<immich, registered, marker, archive, asked, taken, spent>>
      /\ l \in Albums /\ job \in Jobs
    BY InvParts DEF MapRestored, Turn, history
<1>2. CASE job' = Idle /\ UNCHANGED replica
    BY <1>1, <1>2, InvParts, QuietStep, IdleInOrder DEF Inv, sqlite, StateTypeOK
<1>3. CASE ~elsewhere /\ replica' = [replica EXCEPT ![l][m] = r] /\ job' = [job EXCEPT !.step = "share"]
    <2>1. /\ archive[l].state = "restoring" /\ r \in Remotes /\ r # 0 /\ RestoreInOrder(m)
          /\ m \notin archive[l].back
        BY <1>1, RestoreStep DEF RestoreInOrder
    <2>2. \A k \in Albums, n \in Members : (k # l \/ n # m) => replica[k][n] # r
        <3>1. SUFFICES ASSUME NEW k \in Albums, NEW n \in Members, k # l \/ n # m
                       PROVE  replica[k][n] # r
            OBVIOUS
        <3> DEFINE w == <<k, n>>
        <3>2. w \in Pairs /\ w # <<l, m>> /\ w[1] = k /\ w[2] = n
            BY <3>1 DEF Pairs
        <3> HIDE DEF w
        <3>3. replica[w[1]][w[2]] # r
            BY <1>3, <3>2
        <3> QED
            BY <3>2, <3>3
    <2>3. /\ replica' \in [Albums -> Owners] /\ replica'[l][m] = r
          /\ \A k \in Albums, n \in Members : (k # l \/ n # m) => replica'[k][n] = replica[k][n]
        BY <1>1, <1>3, <2>1, InvParts DEF StateTypeOK, Owners
    <2>4. \A k \in Albums \ {l} : archive[k].state # "none" => archive[k].old[m] # r
        <3>1. SUFFICES ASSUME NEW k \in Albums \ {l}, archive[k].state # "none", archive[k].old[m] = r
                       PROVE  FALSE
            OBVIOUS
        <3>2. m \notin archive[k].gone
            BY <1>1, <2>1, <3>1 DEF RestoreInOrder
        <3>3. archive[k].state = "deleting"
            BY <3>1, <3>2, InvParts DEF ArchiveAgrees
        <3>4. replica[k][m] = r
            BY <3>1, <3>3, InvParts DEF ArchiveInOrder
        <3> QED
            BY <2>2, <3>4
    <2>5. spent' \in Budget /\ marker' \subseteq Pairs /\ registered' \subseteq Albums
        BY <1>1, InvParts DEF StateTypeOK
    <2>6. /\ StateTypeOK' /\ OneRestoredAlbum'
          /\ \A q : (Live(q) <=> Live(q)') /\ (SharedOrAsked(q) <=> SharedOrAsked(q)')
          /\ \A k \in Albums, n \in Members :
                (Complete(k, n) <=> Complete(k, n)') /\ (Untagged(k, n) <=> Untagged(k, n)')
        BY <1>1, <2>3, <2>5, MappingChanges
    <2>7. MirrorsExist'
        BY <1>1, <2>1, <2>3, InvParts DEF MirrorsExist, Existing, immich
    <2>8. MirrorsUnique'
        BY <2>2, <2>3, InvParts DEF MirrorsUnique
    <2>9. RegisteredAreMirrored'
        BY <1>1, <2>1, <2>3, InvParts DEF RegisteredAreMirrored
    <2>10. MarkersConfirmed'
        BY <1>1, <2>1, <2>3, <2>6, InvParts DEF MarkersConfirmed
    <2>11. ArchiveInOrder'
        BY <1>1, <2>1, <2>3, <2>6, InvParts DEF ArchiveInOrder
    <2>12. ArchiveAgrees'
        BY <1>1, <2>1, <2>3, <2>6, InvParts DEF ArchiveAgrees
    <2>13. ArchivedNotRediscovered'
        BY <1>1, <2>3, <2>4, InvParts DEF ArchivedNotRediscovered
    <2>14. /\ job' \in Jobs /\ job'.phase = job.phase /\ job'.queue = job.queue /\ job'.album = l
           /\ job'.op = "restore" /\ job'.left = job.left /\ job'.step = "share"
           /\ job'.saw = job.saw
        BY <1>1, <1>3 DEF Jobs
    <2>15. PhaseInOrder' /\ QueueInOrder'
        <3>1. \A k \in Albums : k # l => replica'[k] = replica[k]
            BY <1>3, InvParts DEF StateTypeOK
        <3> QED
            BY <1>1, <2>14, <3>1, InvParts, OperationQueue DEF OthersKept, PhaseGoesOn
    <2>16. Complete(l, m)' /\ Untagged(l, m)' /\ (job.saw => SharedOrAsked(r)')
        BY <1>1, <2>1, <2>6, <2>14 DEF RestoreInOrder
    <2>17. RestoreInOrder(m)'
        BY <1>1, <2>1, <2>3, <2>14, <2>16 DEF RestoreInOrder
    <2>18. \A n \in Members : FirstMember(job.left, n) => n = m
        BY <1>1, FirstMemberUnique
    <2>19. OperationInOrder'
        BY <1>1, <2>14, <2>17, <2>18, InvParts DEF JobInv, OperationInOrder
    <2> QED
        BY <2>6, <2>7, <2>8, <2>9, <2>10, <2>11, <2>12, <2>13, <2>14, <2>15, <2>19
           DEF Inv, StateInv, TablesInv, JobInv
<1> QED
    BY <1>2, <1>3 DEF MapRestored, Abort, To

LEMMA SetAlbumReplicaKeeps ==
    ASSUME Inv, NEW m \in Members, SetAlbumReplica(m)
    PROVE  Inv'
<1> DEFINE l == job.album
           r == job.made
<1>1. /\ job.op = "ensure" /\ job.step = "map" /\ FirstMember(job.left, m)
      /\ replica' = [replica EXCEPT ![l][m] = r]
      /\ job' = [job EXCEPT !.saw = FALSE, !.made = 0, !.step = "share"]
      /\ UNCHANGED <<immich, registered, marker, archive, asked, taken, spent>>
      /\ l \in Albums /\ job \in Jobs
    BY InvParts DEF SetAlbumReplica, Turn, history
<1>2. /\ IsActive(l) /\ r # 0 /\ Existing(r, m) /\ replica[l][m] = 0
      /\ \A k \in Albums : r # replica[k][m] /\ r # archive[k].old[m]
      /\ r \in Remotes
    BY <1>1, InvParts DEF JobInv, OperationInOrder, EnsureInOrder, Jobs
<1>3. /\ replica' \in [Albums -> Owners] /\ replica'[l][m] = r
      /\ \A k \in Albums, n \in Members : (k # l \/ n # m) => replica'[k][n] = replica[k][n]
    BY <1>1, <1>2, InvParts DEF StateTypeOK, Owners
<1>4. spent' \in Budget /\ marker' \subseteq Pairs /\ registered' \subseteq Albums
    BY <1>1, InvParts DEF StateTypeOK
<1>5. /\ StateTypeOK' /\ OneRestoredAlbum'
      /\ \A q : (Live(q) <=> Live(q)') /\ (SharedOrAsked(q) <=> SharedOrAsked(q)')
      /\ \A k \in Albums, n \in Members :
            (Complete(k, n) <=> Complete(k, n)') /\ (Untagged(k, n) <=> Untagged(k, n)')
    BY <1>1, <1>3, <1>4, MappingChanges
<1>6. MirrorsExist'
    BY <1>1, <1>2, <1>3, InvParts DEF MirrorsExist, Existing, immich
<1>7. MirrorsUnique'
    BY <1>2, <1>3, InvParts DEF MirrorsUnique
<1>8. RegisteredAreMirrored'
    BY <1>1, <1>2, <1>3, InvParts DEF RegisteredAreMirrored, IsActive
<1>9. MarkersConfirmed'
    BY <1>1, <1>2, <1>3, <1>5, InvParts DEF MarkersConfirmed
<1>10. ArchiveInOrder'
    BY <1>1, <1>2, <1>3, <1>5, InvParts DEF ArchiveInOrder, IsActive
<1>11. ArchiveAgrees'
    BY <1>1, <1>2, <1>3, <1>5, InvParts DEF ArchiveAgrees, IsActive
<1>12. ArchivedNotRediscovered'
    BY <1>1, <1>2, <1>3, InvParts DEF ArchivedNotRediscovered
<1>13. /\ job' \in Jobs /\ job'.phase = job.phase /\ job'.queue = job.queue /\ job'.album = l
       /\ job'.op = "ensure" /\ job'.left = job.left /\ job'.step = "share"
    BY <1>1 DEF Jobs
<1>14. ~job'.saw
    BY <1>1 DEF Jobs
<1>15. PhaseInOrder' /\ QueueInOrder'
    <2>1. \A k \in Albums : k # l => replica'[k] = replica[k]
        BY <1>1, InvParts DEF StateTypeOK
    <2> QED
        BY <1>1, <1>13, <2>1, InvParts, OperationQueue DEF OthersKept, PhaseGoesOn
<1>16. EnsureInOrder(m)'
    BY <1>2, <1>3, <1>13, <1>14 DEF EnsureInOrder
<1>17. \A n \in Members : FirstMember(job.left, n) => n = m
    BY <1>1, FirstMemberUnique
<1>18. OperationInOrder'
    BY <1>1, <1>2, <1>13, <1>16, <1>17 DEF OperationInOrder, IsActive
<1> QED
    BY <1>5, <1>6, <1>7, <1>8, <1>9, <1>10, <1>11, <1>12, <1>13, <1>15, <1>18
       DEF Inv, StateInv, TablesInv, JobInv

-----------------------------------------------------------------------------
(* Registration.                                                           *)

\* Albums that no logical album mirrors are not those of an archived one either: what is
\* not mapped of an archive has been replaced, and so was deleted before.
LEMMA RegisterKeeps ==
    ASSUME Inv, NEW l \in Albums, NEW given \in SUBSET Remotes, given # {},
           \A r \in given : Live(r) /\ ~Mapped(r),
           \A q, r \in given : remote[q].owner = remote[r].owner => q = r,
           Register(l, given), UNCHANGED <<immich, asked, taken>>, spent' \in Budget
    PROVE  /\ StateInv' /\ IsActive(l)' /\ registered \subseteq registered'
           /\ \A k \in Albums : k # l => archive'[k] = archive[k] /\ replica'[k] = replica[k]
<1> DEFINE mirror(m) == IF \E r \in given : remote[r].owner = m
                        THEN CHOOSE r \in given : remote[r].owner = m ELSE 0
<1>1. /\ l \notin registered /\ registered' = registered \cup {l}
      /\ replica' = [replica EXCEPT ![l] = [m \in Members |-> mirror(m)]]
      /\ UNCHANGED <<marker, archive>>
    BY DEF Register
<1>2. \A m \in Members : \/ mirror(m) = 0
                         \/ mirror(m) \in given /\ remote[mirror(m)].owner = m
    OBVIOUS
<1>3. \E m \in Members : mirror(m) \in given
    <2>1. PICK r \in given : TRUE
        OBVIOUS
    <2>2. remote[r].owner \in Members
        BY <2>1, InvParts, TableTypes DEF RemoteAlbums
    <2> QED
        BY <2>1, <2>2
<1> HIDE DEF mirror
<1>4. archive[l].state = "none" /\ \A m \in Members : replica[l][m] = 0
    BY <1>1, InvParts DEF RegisteredAreMirrored
<1>5. [m \in Members |-> mirror(m)] \in Owners
    BY <1>2 DEF Owners
<1>6. /\ replica' \in [Albums -> Owners] /\ \A m \in Members : replica'[l][m] = mirror(m)
      /\ \A k \in Albums : k # l => replica'[k] = replica[k]
    BY <1>1, <1>5, InvParts DEF StateTypeOK
<1>7. \A r \in given : /\ r \in Remotes /\ r # 0 /\ Live(r)
                       /\ \A k \in Albums, m \in Members : replica[k][m] # r
    BY LifecycleAssumption DEF Mapped, Remotes
<1>8. ASSUME NEW k \in Albums, archive[k].state # "none", NEW m \in Members, archive[k].old[m] \in given
      PROVE  FALSE
    <2>1. ~(m \in archive[k].gone)
        BY <1>7, <1>8, InvParts DEF ArchiveAgrees
    <2>2. archive[k].state = "deleting"
        BY <1>8, <2>1, InvParts DEF ArchiveAgrees
    <2>3. replica[k][m] = archive[k].old[m]
        BY <1>8, <2>2, InvParts DEF ArchiveInOrder
    <2> QED
        BY <1>7, <1>8, <2>3
<1>9. marker' \subseteq Pairs /\ registered' \subseteq Albums
    BY <1>1, InvParts DEF StateTypeOK
<1>10. /\ StateTypeOK' /\ OneRestoredAlbum'
       /\ \A q : (Live(q) <=> Live(q)') /\ (SharedOrAsked(q) <=> SharedOrAsked(q)')
       /\ \A k \in Albums, n \in Members :
             (Complete(k, n) <=> Complete(k, n)') /\ (Untagged(k, n) <=> Untagged(k, n)')
    BY <1>1, <1>6, <1>9, MappingChanges
<1>11. MirrorsExist'
    BY <1>1, <1>2, <1>6, <1>7, InvParts DEF MirrorsExist, Existing, Live, immich
<1>12. MirrorsUnique'
    <2>1. ASSUME NEW k \in Albums, k # l, NEW m \in Members, replica'[k][m] = replica'[l][m]
          PROVE  replica'[k][m] = 0
        BY <1>2, <1>6, <1>7, <2>1
    <2>2. ASSUME NEW k \in Albums, k # l, NEW j \in Albums, j # l, j # k, NEW m \in Members,
                 replica'[k][m] = replica'[j][m]
          PROVE  replica'[k][m] = 0
        BY <1>6, <2>2, InvParts DEF MirrorsUnique
    <2> QED
        BY <2>1, <2>2 DEF MirrorsUnique
<1>13. RegisteredAreMirrored'
    BY <1>1, <1>3, <1>6, <1>7, InvParts DEF RegisteredAreMirrored
<1>14. MarkersConfirmed'
    BY <1>1, <1>4, <1>6, <1>10, InvParts DEF MarkersConfirmed
<1>15. ArchiveInOrder'
    BY <1>1, <1>4, <1>6, <1>10, InvParts DEF ArchiveInOrder
<1>16. ArchiveAgrees'
    BY <1>1, <1>4, <1>6, <1>10, InvParts DEF ArchiveAgrees
<1>17. ArchivedNotRediscovered'
    BY <1>1, <1>2, <1>6, <1>8, InvParts DEF ArchivedNotRediscovered
<1>18. IsActive(l)' /\ registered \subseteq registered'
    BY <1>1, <1>4 DEF IsActive
<1> QED
    BY <1>1, <1>6, <1>10, <1>11, <1>12, <1>13, <1>14, <1>15, <1>16, <1>17, <1>18
       DEF StateInv, TablesInv

LEMMA CallRegisterKeeps ==
    ASSUME Inv, NEW given \in SUBSET {r \in Remotes : Live(r) /\ ~Mapped(r)}, CallRegister(given)
    PROVE  Inv'
<1>1. PICK l \in Albums : Register(l, given) /\ Request("ensure", l, Members)
    BY DEF CallRegister
<1>2. /\ given # {} /\ \A q, r \in given : remote[q].owner = remote[r].owner => q = r
      /\ UNCHANGED <<immich, asked, taken>> /\ spent' = [spent EXCEPT !.calls = @ + 1]
      /\ 2 * spent.edits + spent.calls + 1 <= MaxInputs
    BY DEF CallRegister, Call, Spendable, history
<1>3. spent' \in Budget
    <2>1. spent \in Budget /\ 2 * spent.edits + spent.calls + 1 <= MaxInputs
          /\ spent' = [spent EXCEPT !.calls = @ + 1]
        BY <1>2, InvParts DEF StateTypeOK
    <2> QED
        BY <2>1, CallCounted
<1>4. StateInv' /\ IsActive(l)'
    BY <1>1, <1>2, <1>3, RegisterKeeps
<1>5. job' \in Jobs /\ job'.phase = "api" /\ job'.op = "ensure" /\ job'.album = l /\ job'.step = "start"
    BY <1>1, InvParts, OperateRequest DEF Ops
<1>6. OperationInOrder'
    BY <1>4, <1>5, StartInOrder DEF OperationInOrder, IsActive
<1> QED
    BY <1>4, <1>5, <1>6, RequestInOrder DEF Inv, JobInv

LEMMA RegisterFoundKeeps ==
    ASSUME Inv, NEW r \in Remotes, RegisterFound(r)
    PROVE  Inv'
<1>1. job.phase = "discover" /\ job.op = "none" /\ UNCHANGED <<immich, asked, taken, spent>>
      /\ job \in Jobs /\ spent' \in Budget
    BY InvParts DEF RegisterFound, Phase, history, StateTypeOK
<1>2. CASE job' = Idle /\ UNCHANGED sqlite
    BY <1>1, <1>2, InvParts, QuietStep, IdleInOrder DEF Inv, StateTypeOK
<1>3. CASE job' = [job EXCEPT !.found = @ \ {r}] /\ UNCHANGED sqlite
    <2>1. job' \in Jobs /\ job'.phase = "discover" /\ job'.op = "none"
        BY <1>1, <1>3 DEF Jobs
    <2>2. JobInv'
        BY <2>1 DEF JobInv, PhaseInOrder, QueueInOrder, OperationInOrder
    <2> QED
        BY <1>1, <1>3, <2>2, InvParts, QuietStep DEF Inv, StateTypeOK
<1>4. ASSUME ~Mapped(r), Live(r), NEW l \in Albums, Register(l, {r}),
             job' = [Operate("ensure", l, Members) EXCEPT !.found = @ \ {r}]
      PROVE  Inv'
    <2>1. StateInv' /\ IsActive(l)'
        BY <1>1, <1>4, RegisterKeeps
    <2> DEFINE j == Operate("ensure", l, Members)
    <2>2. j \in Jobs /\ j.phase = "discover" /\ j.op = "ensure" /\ j.album = l /\ j.step = "start"
        BY <1>1 DEF Operate, Jobs
    <2>3. job' = [j EXCEPT !.found = @ \ {r}]
        BY <1>4
    <2> HIDE DEF j
    <2>4. job' \in Jobs /\ job'.phase = "discover" /\ job'.op = "ensure" /\ job'.album = l
          /\ job'.step = "start"
        BY <2>2, <2>3 DEF Jobs
    <2>5. JobInv'
        BY <2>1, <2>4, StartInOrder
           DEF JobInv, PhaseInOrder, QueueInOrder, OperationInOrder, IsActive
    <2> QED
        BY <2>1, <2>5 DEF Inv
<1> QED
    BY <1>2, <1>3, <1>4 DEF RegisterFound, Abort

-----------------------------------------------------------------------------
(* The specification.                                                      *)

LEMMA InitKeeps ==
    ASSUME Init
    PROVE  Inv
<1> USE LifecycleAssumption DEF Init
<1>1. /\ \A l \in Albums, m \in Members :
            /\ InitReplica[l][m] \in InitRemotes \cup {0}
            /\ InitReplica[l][m] # 0 => InitReplica[l][m] \in InitRemotes
                                        /\ InitOwner[InitReplica[l][m]] = m
      /\ \A r \in InitRemotes : InitOwner[r] \in Members /\ r \in Remotes
      /\ 0 \in Tags
    BY DEF Tags
<1> DEFINE shared(r) == \E l \in Albums : InitReplica[l][InitOwner[r]] = r
           before(r) == [st |-> "live", owner |-> InitOwner[r], tag |-> 0, items |-> Photos,
                         shared |-> shared(r)]
           nobody == CHOOSE m \in Members : TRUE
           blank == [st |-> "none", owner |-> nobody, tag |-> 0, items |-> {}, shared |-> FALSE]
<1>2. nobody \in Members
    OBVIOUS
<1>3. \A r : shared(r) \in BOOLEAN
    OBVIOUS
<1> HIDE DEF nobody, shared
<1>4. blank \in RemoteAlbums /\ blank.tag = 0
    BY <1>1, <1>2 DEF RemoteAlbums
<1>5. ASSUME NEW r \in InitRemotes
      PROVE  /\ before(r) \in RemoteAlbums /\ before(r).st = "live" /\ before(r).owner = InitOwner[r]
             /\ before(r).tag = 0
    BY <1>1, <1>3 DEF RemoteAlbums
<1>6. \A r \in InitRemotes : before(r).shared = shared(r)
    OBVIOUS
<1>7. remote = [r \in Remotes |-> IF r \in InitRemotes THEN before(r) ELSE blank]
    BY DEF shared, nobody
<1> HIDE DEF before, blank
<1>8. remote \in [Remotes -> RemoteAlbums] /\ \A r \in Remotes : remote[r].tag = 0
    <2> DEFINE at(r) == IF r \in InitRemotes THEN before(r) ELSE blank
    <2>1. \A r \in Remotes : at(r) \in RemoteAlbums /\ at(r).tag = 0
        BY <1>4, <1>5
    <2>2. remote = [r \in Remotes |-> at(r)]
        BY <1>7
    <2> HIDE DEF at, Init
    <2>3. remote \in [Remotes -> RemoteAlbums]
        BY <2>1, <2>2
    <2>4. \A r \in Remotes : remote[r] = at(r)
        BY <2>2
    <2> QED
        BY <2>1, <2>3, <2>4
<1>9. \A r \in InitRemotes : remote[r] = before(r)
    BY <1>1, <1>7
<1>10. replica \in [Albums -> Owners] /\ replica = InitReplica
    BY <1>1 DEF Owners
<1>11. /\ archive \in [Albums -> Archives]
       /\ \A l \in Albums : archive[l] = NoArchive /\ archive[l].state = "none"
    BY EmptyArchive DEF Archives
<1>12. StateTypeOK
    <2>1. /\ lost \in [Members -> SUBSET Photos] /\ registered \subseteq Albums
          /\ marker \subseteq Pairs /\ asked \subseteq Remotes /\ taken \subseteq Remotes \X Photos
        OBVIOUS
    <2>2. spent \in Budget
        BY DEF Budget
    <2> QED
        BY <1>8, <1>10, <1>11, <2>1, <2>2 DEF StateTypeOK
<1>13. MirrorsExist
    BY <1>1, <1>5, <1>9, <1>11, EmptyArchive DEF MirrorsExist, Existing
<1>14. MirrorsUnique /\ RegisteredAreMirrored
    BY <1>11 DEF MirrorsUnique, RegisteredAreMirrored
<1>15. MarkersConfirmed
    <2>1. ASSUME NEW l \in Albums, NEW m \in Members, <<l, m>> \in marker
          PROVE  replica[l][m] # 0 /\ SharedOrAsked(replica[l][m])
        <3>1. replica[l][m] # 0 /\ replica[l][m] \in InitRemotes
            BY <1>1, <2>1
        <3>2. shared(replica[l][m])
            BY <1>1, <3>1 DEF shared
        <3>3. remote[replica[l][m]].shared
            BY <1>6, <1>9, <3>1, <3>2
        <3> QED
            BY <3>1, <3>3 DEF SharedOrAsked
    <2> QED
        BY <1>11, <2>1 DEF MarkersConfirmed
<1>16. ArchiveInOrder /\ ArchiveAgrees /\ ArchivedNotRediscovered
    BY <1>11 DEF ArchiveInOrder, ArchiveAgrees, ArchivedNotRediscovered
<1>17. OneRestoredAlbum
    BY <1>8 DEF OneRestoredAlbum
<1>18. JobInv
    <2>1. Idle \in Jobs
        BY DEF Idle, Jobs
    <2>2. job.phase = "idle" /\ job.op = "none"
        BY DEF Idle
    <2> QED
        BY <2>1, <2>2 DEF JobInv, PhaseInOrder, QueueInOrder, OperationInOrder
<1> QED
    BY <1>12, <1>13, <1>14, <1>15, <1>16, <1>17, <1>18 DEF Inv, StateInv, TablesInv

\* A user's edit.
LEMMA UserKeeps ==
    ASSUME Inv, User
    PROVE  Inv'
<1>1. StateTypeOK' /\ World /\ NoNewTag /\ UNCHANGED <<sqlite, job>>
    BY InvParts, UserEvolves
<1>2. UNCHANGED sqlite /\ UNCHANGED archive
    BY <1>1 DEF sqlite
<1>3. StateInv'
    BY <1>1, <1>2, InvParts, WorldKeeps, TagsKeep DEF Inv, StateInv
<1>4. JobInv'
    BY <1>1, WorldKeepsJob DEF Inv
<1> QED
    BY <1>3, <1>4 DEF Inv

\* Steps that change only what the bridge has in memory.
Plan ==
    \/ \E m \in Members : ArchiveRead(m) \/ VerifyRestored(m) \/ LookAtReplica(m) \/ ListShared(m)
    \/ \E l \in Albums : ResumeNext(l) \/ UnmirrorNext(l) \/ MirrorNext(l)
    \/ \E l \in Albums, m \in Members : CheckMarker(l, m)
    \/ \E full \in BOOLEAN : StartCycle(full)
    \/ FinishEnsure \/ ResumeDone \/ MarkersDone \/ UnmirrorDone \/ DiscoverDone \/ MirrorDone

LEMMA PlanKeeps ==
    ASSUME Inv, Plan
    PROVE  Inv'
<1>1. UNCHANGED <<immich, sqlite, asked, taken, spent>>
    BY DEF Plan, ArchiveRead, VerifyRestored, LookAtReplica, ListShared, ResumeNext, UnmirrorNext,
           MirrorNext, CheckMarker, StartCycle, FinishEnsure, ResumeDone, MarkersDone,
           UnmirrorDone, DiscoverDone, MirrorDone, history
<1>2. StateInv'
    BY <1>1, InvParts, QuietStep DEF Inv, StateTypeOK
<1>3. ASSUME FinishEnsure PROVE JobInv'
    <2>1. job.op = "ensure" /\ OpDone
        BY <1>3 DEF FinishEnsure
    <2> QED
        BY <1>1, <2>1, InvParts, OpDoneKeeps DEF OthersKept, sqlite
<1>4. JobInv'
    BY <1>3, ArchiveReadKeeps, VerifyRestoredKeeps, LookAtReplicaKeeps, ResumeNextKeeps,
       UnmirrorNextKeeps, MirrorNextKeeps, CheckMarkerKeeps, StartCycleKeeps, ResumeDoneKeeps,
       PhasesKeep
       DEF Plan
<1> QED
    BY <1>2, <1>4 DEF Inv

LEMMA NextKeeps ==
    ASSUME Inv, [Next]_vars
    PROVE  Inv'
<1>1. CASE User
    BY <1>1, UserKeeps
<1>2. CASE Plan
    BY <1>2, PlanKeeps
<1>3. CASE Api
    BY <1>3, CallUnmirrorKeeps, CallRestoreKeeps, CallRegisterAgainKeeps, CallRegisterKeeps DEF Api
<1>4. CASE Operation
    BY <1>2, <1>4, DeleteRemoteKeeps, SaveDeletedKeeps, FindOrCreateRestoredKeeps,
       SaveRestoredAlbumKeeps, FillRestoredKeeps, DescribeRestoredKeeps, MapRestoredKeeps,
       SaveRestoredKeeps, EnsureShareKeeps, RecordAlbumMarkerKeeps, CreateReplicaKeeps,
       SetAlbumReplicaKeeps, BeginAlbumDeletionKeeps, FinishDeletionKeeps, FinishAlbumRestoreKeeps
       DEF Operation, Plan
<1>5. CASE Cycle
    BY <1>2, <1>5, RegisterFoundKeeps DEF Cycle, Plan
<1>6. CASE Fault
    BY <1>6, FaultKeeps
<1>7. CASE \E full \in BOOLEAN : StartCycle(full)
    BY <1>2, <1>7 DEF Plan
<1>8. CASE UNCHANGED vars
    <2>1. UNCHANGED <<immich, sqlite, taken>> /\ asked' = asked /\ spent' = spent /\ job' = job
        BY <1>8 DEF vars, history
    <2>2. StateInv'
        BY <2>1, InvParts, QuietStep DEF Inv, StateTypeOK
    <2>3. World /\ NoNewTag
        BY <2>1, InvParts DEF World, Evolves, NoNewTag, Live, immich, StateTypeOK, RemoteAlbums
    <2>4. UNCHANGED <<sqlite, job>>
        BY <2>1
    <2>5. JobInv'
        BY <2>3, <2>4, WorldKeepsJob DEF Inv
    <2> QED
        BY <2>2, <2>5 DEF Inv
<1> QED
    BY <1>1, <1>2, <1>3, <1>4, <1>5, <1>6, <1>7, <1>8 DEF Next

\* Every state has the types the model gives it; a restoration under way has its token.
THEOREM TypeCorrect == Spec => []TypeOK
<1>1. Inv => TypeOK
    BY InvParts DEF StateTypeOK, TypeOK
<1> QED
    BY InitKeeps, NextKeeps, <1>1, PTL DEF Spec

\* Whatever crash interrupts a deletion or a restoration, archive, mappings and Immich agree.
THEOREM ArchivesAgree == Spec => []ArchiveAgrees
<1>1. Inv => ArchiveAgrees
    BY InvParts
<1> QED
    BY InitKeeps, NextKeeps, <1>1, PTL DEF Spec

\* Neither discovery nor the API registers a mirror of an archived album as another album.
THEOREM NotRediscovered == Spec => []ArchivedNotRediscovered
<1>1. Inv => ArchivedNotRediscovered
    BY InvParts
<1> QED
    BY InitKeeps, NextKeeps, <1>1, PTL DEF Spec

\* However often a restoration is retried, it creates one album per member.
THEOREM RestoredOnce == Spec => []OneRestoredAlbum
<1>1. Inv => OneRestoredAlbum
    BY InvParts
<1> QED
    BY InitKeeps, NextKeeps, <1>1, PTL DEF Spec

\* Only DeleteRemote and users delete albums.
LEMMA OnlyDeleteRemote ==
    ASSUME Inv, [Next]_vars, ~User, \A m \in Members : ~DeleteRemote(m), NEW r \in Remotes, Live(r)
    PROVE  remote'[r].st = "live"
<1>1. remote \in [Remotes -> RemoteAlbums] /\ remote[r].st = "live"
    BY InvParts DEF StateTypeOK, Live
<1>2. CASE \E m \in Members : \/ EnsureShare(m) \/ FillRestored(m) \/ DescribeRestored(m)
                              \/ FindOrCreateRestored(m) \/ CreateReplica(m)
    <2>1. PICK m \in Members : \/ EnsureShare(m) \/ FillRestored(m) \/ DescribeRestored(m)
                               \/ FindOrCreateRestored(m) \/ CreateReplica(m)
        BY <1>2
    <2>2. CASE CreateReplica(m)
        BY <1>1, <2>2 DEF CreateReplica, Fresh, Create
    <2>3. CASE FindOrCreateRestored(m)
        BY <1>1, <2>3 DEF FindOrCreateRestored, Fresh, Create
    <2>4. CASE EnsureShare(m)
        BY <1>1, <2>4 DEF EnsureShare, RemoteAlbums
    <2>5. CASE FillRestored(m)
        <3> DEFINE q == archive[job.album].new[m]
        <3>1. CASE UNCHANGED remote
            BY <1>1, <3>1
        <3>2. CASE \E added : remote' = [remote EXCEPT ![q].items = @ \cup added]
            BY <1>1, <3>2 DEF RemoteAlbums
        <3> QED
            BY <2>5, <3>1, <3>2 DEF FillRestored
    <2>6. CASE DescribeRestored(m)
        BY <1>1, <2>6 DEF DescribeRestored, RemoteAlbums
    <2> QED
        BY <2>1, <2>2, <2>3, <2>4, <2>5, <2>6
<1>3. CASE UNCHANGED remote
    BY <1>1, <1>3
<1>4. \/ UNCHANGED remote
      \/ \E m \in Members : \/ EnsureShare(m) \/ FillRestored(m) \/ DescribeRestored(m)
                            \/ FindOrCreateRestored(m) \/ CreateReplica(m)
    <2>1. CASE Operation
        BY <2>1 DEF Operation, ArchiveRead, SaveDeleted, SaveRestoredAlbum, VerifyRestored,
                    MapRestored, SaveRestored, RecordAlbumMarker, LookAtReplica, SetAlbumReplica,
                    BeginAlbumDeletion, FinishDeletion, FinishAlbumRestore, FinishEnsure, immich
    <2>2. CASE Cycle
        BY <2>2 DEF Cycle, ResumeNext, UnmirrorNext, MirrorNext, CheckMarker, ListShared,
                    RegisterFound, ResumeDone, MarkersDone, UnmirrorDone, DiscoverDone, MirrorDone,
                    immich
    <2>3. CASE Api
        BY <2>3 DEF Api, CallUnmirror, CallRestore, CallRegisterAgain, CallRegister, immich
    <2>4. CASE Fault \/ \E full \in BOOLEAN : StartCycle(full)
        BY <2>4 DEF Fault, StartCycle, immich
    <2>5. CASE UNCHANGED vars
        BY <2>5 DEF vars, immich
    <2> QED
        BY <2>1, <2>2, <2>3, <2>4, <2>5 DEF Next
<1> QED
    BY <1>2, <1>3, <1>4

\* The bridge deletes only archived albums that somebody asked to be gone, Together's never.
THEOREM DeletedOnRequest == Spec => DeletesOnlyRequested
<1> DEFINE Requested ==
        \A r \in Remotes :
          Live(r) /\ remote'[r].st = "deleted" /\ spent'.edits = spent.edits =>
              /\ ~Protected(r)
              /\ \E l \in Albums : /\ archive[l].state = "deleting"
                                   /\ \E m \in Members : archive[l].old[m] = r
                                   /\ \E m \in Members : archive[l].old[m] \in asked
<1>1. Inv /\ [Next]_vars => Requested
    <2>1. SUFFICES ASSUME Inv, [Next]_vars, NEW r \in Remotes, Live(r), remote'[r].st = "deleted",
                          spent'.edits = spent.edits
                   PROVE  /\ ~Protected(r)
                          /\ \E l \in Albums : /\ archive[l].state = "deleting"
                                               /\ \E m \in Members : archive[l].old[m] = r
                                               /\ \E m \in Members : archive[l].old[m] \in asked
        OBVIOUS
    <2>2. ~User
        <3>1. SUFFICES ASSUME User PROVE FALSE
            OBVIOUS
        <3>2. spent' = [spent EXCEPT !.edits = @ + 1] \/ UNCHANGED remote
            BY <3>1 DEF User, UserShare, UserUnshare, UserDeleteAlbum, UserRemovePhoto,
                        UserDeletePhoto, UserTrashPhoto, UserRestorePhoto, Edit
        <3>3. spent \in Budget
            BY <2>1, InvParts DEF StateTypeOK
        <3> QED
            BY <2>1, <3>2, <3>3, LifecycleAssumption DEF Budget, Live
    <2>3. PICK m \in Members : DeleteRemote(m)
        BY <2>1, <2>2, OnlyDeleteRemote
    <2>4. job.op = "delete" /\ ~Protected(archive[job.album].old[m]) /\ r = archive[job.album].old[m]
        BY <2>1, <2>3, InvParts DEF DeleteRemote, Turn, Live, StateTypeOK
    <2>5. job.album \in Albums /\ archive[job.album].state = "deleting"
        BY <2>1, <2>4, InvParts DEF JobInv, OperationInOrder
    <2> QED
        BY <2>1, <2>3, <2>4, <2>5, InvParts DEF ArchiveInOrder
<1> QED
    BY InitKeeps, NextKeeps, <1>1, PTL DEF Spec, DeletesOnlyRequested

\* A restoration under way is dropped by finishAlbumRestore alone.
LEMMA OnlyFinishAlbumRestore ==
    ASSUME Inv, [Next]_vars, ~FinishAlbumRestore, NEW l \in Albums, archive[l].state = "restoring"
    PROVE  archive'[l].state # "none"
<1>1. archive \in [Albums -> Archives] /\ \A k \in Albums : archive[k] \in Records
    BY InvParts, TableTypes DEF StateTypeOK
<1>2. CASE UNCHANGED archive
    BY <1>2
<1>3. CASE BeginAlbumDeletion
    <2>1. job.album # l
        BY <1>3, InvParts DEF BeginAlbumDeletion, JobInv, OperationInOrder, IsActive
    <2> QED
        BY <1>1, <1>3, <2>1 DEF BeginAlbumDeletion
<1>4. CASE FinishDeletion
    BY <1>1, <1>4, InvParts DEF FinishDeletion, Records
<1>5. ASSUME NEW m \in Members, SaveDeleted(m) \/ SaveRestored(m)
      PROVE  archive'[l].state # "none"
    BY <1>1, <1>5, InvParts DEF SaveDeleted, SaveRestored, Records
<1>6. ASSUME NEW m \in Members, SaveRestoredAlbum(m)
      PROVE  archive'[l].state # "none"
    BY <1>1, <1>6, InvParts DEF SaveRestoredAlbum, Saved, Records
<1>7. ASSUME NEW k \in Albums, CallRestore(k)
      PROVE  archive'[l].state # "none"
    BY <1>1, <1>7 DEF CallRestore, Restoring, Records
<1>8. \/ UNCHANGED archive \/ BeginAlbumDeletion \/ FinishDeletion
      \/ \E m \in Members : SaveDeleted(m) \/ SaveRestored(m) \/ SaveRestoredAlbum(m)
      \/ \E k \in Albums : CallRestore(k)
    <2>1. CASE User
        BY <2>1, InvParts, UserEvolves DEF sqlite
    <2>2. CASE Operation
        BY <2>2 DEF Operation, ArchiveRead, DeleteRemote, FindOrCreateRestored, FillRestored,
                    VerifyRestored, DescribeRestored, MapRestored, EnsureShare, RecordAlbumMarker,
                    LookAtReplica, CreateReplica, SetAlbumReplica, FinishEnsure, sqlite
    <2>3. CASE Cycle
        BY <2>3 DEF Cycle, ResumeNext, UnmirrorNext, MirrorNext, CheckMarker, ListShared,
                    RegisterFound, Register, ResumeDone, MarkersDone, UnmirrorDone, DiscoverDone,
                    MirrorDone, sqlite
    <2>4. CASE Api
        BY <2>4 DEF Api, CallUnmirror, CallRegisterAgain, CallRegister, Register, sqlite
    <2>5. CASE Fault \/ \E full \in BOOLEAN : StartCycle(full)
        BY <2>5 DEF Fault, StartCycle, sqlite
    <2>6. CASE UNCHANGED vars
        BY <2>6 DEF vars, sqlite
    <2> QED
        BY <2>1, <2>2, <2>3, <2>4, <2>5, <2>6 DEF Next
<1> QED
    BY <1>2, <1>3, <1>4, <1>5, <1>6, <1>7, <1>8

\* When the archive of a restored album is dropped, every member has a mapped new album
\* with all the photos of the archive, but those that users took out or deleted.
THEOREM RestoredComplete == Spec => ContentsRestored
<1> DEFINE Restored ==
        \A l \in Albums : archive[l].state = "restoring" /\ archive'[l].state = "none" =>
          \A m \in Members :
              LET r == replica[l][m]
              IN  /\ r = archive[l].new[m] /\ r # 0
                  /\ Live(r) => /\ remote[r].tag = 0
                                /\ \A p \in archive[l].items[m] :
                                      p \in remote[r].items \cup lost[m] \/ <<r, p>> \in taken
<1>1. Inv /\ [Next]_vars => Restored
    <2>1. SUFFICES ASSUME Inv, [Next]_vars, NEW l \in Albums, archive[l].state = "restoring",
                          archive'[l].state = "none", NEW m \in Members
                   PROVE  LET r == replica[l][m]
                          IN  /\ r = archive[l].new[m] /\ r # 0
                              /\ Live(r) => /\ remote[r].tag = 0
                                            /\ \A p \in archive[l].items[m] :
                                                  \/ p \in remote[r].items \cup lost[m]
                                                  \/ <<r, p>> \in taken
        OBVIOUS
    <2>2. FinishAlbumRestore
        BY <2>1, OnlyFinishAlbumRestore
    <2>3. job.album = l
        BY <2>1, <2>2, InvParts DEF FinishAlbumRestore, StateTypeOK
    <2>4. m \in archive[l].back
        <3>1. job.op = "restore" /\ job.left = {}
            BY <2>2 DEF FinishAlbumRestore
        <3>2. job.left = Members \ archive[job.album].back
            BY <2>1, <3>1, InvParts DEF JobInv, OperationInOrder
        <3> QED
            BY <2>3, <3>1, <3>2
    <2>5. archive[l].new[m] # 0 /\ replica[l][m] = archive[l].new[m]
        BY <2>1, <2>4, InvParts DEF ArchiveAgrees
    <2>6. Complete(l, m) /\ Untagged(l, m)
        BY <2>1, <2>4, InvParts DEF ArchiveInOrder
    <2> QED
        BY <2>5, <2>6 DEF Complete, Untagged
<1> QED
    BY InitKeeps, NextKeeps, <1>1, PTL DEF Spec, ContentsRestored

=============================================================================
