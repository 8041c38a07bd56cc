------------------------------- MODULE Replica -------------------------------
(***************************************************************************)
(* One recipient copy of one shared asset, request by request: the bridge  *)
(* links the media file and its XMP sidecar into the recipient's library,  *)
(* records each, waits for Immich to import them, audits and repairs the   *)
(* copy, and takes it back when the asset is no longer shared. The process *)
(* may stop, and a request may fail, at every step; meanwhile the owner    *)
(* and the recipient change, trash, stack and delete what is theirs, and   *)
(* Immich imports and deletes files.                                       *)
(*                                                                         *)
(* Covered: internal/reconcile/reconcile.go (ensureReplica for recipients, *)
(* ensureRecipientComponents, component, resolvePendingImport,             *)
(* cleanupReplica, removeReplicaFiles, the order of a cycle around them),  *)
(* internal/filesystem (Ensure, RemoveRecorded) and the replica tables of  *)
(* the store. What makes an asset shared is in Membership; library scans   *)
(* are in ScanLease, limits on the work of a cycle in WorkBatches.         *)
(*                                                                         *)
(* A definition marked Mutant is a faulty variant of the one below it. The *)
(* specification does not use it; it shows that a property can fail.       *)
(***************************************************************************)
EXTENDS Naturals

CONSTANTS
    CopyIds,        \* Immich ids of the recipient's copy, one after the other
    RemoveUnshared, \* remove_unshared_replicas
    ReadOnlyMount,  \* Immich mounts the recipient tree read-only
    MaxEdits,       \* bound: edits by the owner, the recipient and the family
    MaxFaults,      \* bound: crashes and failed requests
    None

ASSUME ReplicaAssumption ==
    /\ CopyIds \subseteq Nat \ {0}
    /\ \A i, j, k \in CopyIds \cup {0} : \E new \in CopyIds : new \notin {i, j, k}
    /\ RemoveUnshared \in BOOLEAN /\ ReadOnlyMount \in BOOLEAN
    /\ MaxEdits \in Nat /\ MaxFaults \in Nat

Kinds == {"original", "sidecar"}

VARIABLES
    \* the owner's account
    origin,         \* the asset: live, trashed or gone
    source,         \* the inode of each of its files, 0 for none
    content,        \* what is written in each XMP inode
    \* the recipient's account
    copy,           \* the asset Immich has: its id (0 for none), trashed, stacked under
                    \* another, and what it has read of its XMP (0 if it knows none)
    link,           \* the inode of each file in the recipient's library, 0 for none
    doomed,         \* files that Immich deletes along with a deleted copy
    \* SQLite
    shared,         \* the asset has a row in sharing_sources
    ownerDeleted,   \* the origin's state is owner_deleted
    row,            \* asset_replicas
    files,          \* asset_replica_files
    \* the reconciler
    pc,             \* where the cycle is
    work,           \* local variables of the function it is in
    discovery,      \* sidecarDiscoveryNeeded, then Immich's sidecar job
    edits, faults   \* bounded by MaxEdits and MaxFaults

accounts == <<origin, source, content, copy, link, doomed>>
tables == <<shared, ownerDeleted, row, files>>
vars == <<accounts, tables, pc, work, discovery, edits, faults>>

Inodes == 0 .. MaxEdits + 1     \* of XMP files, each made by an edit of its own
NoCopy == [id |-> 0, trashed |-> FALSE, stacked |-> FALSE, xmp |-> 0]
NoRow == [state |-> "none", id |-> 0, path |-> FALSE]
Idle == [remote |-> None, sidecar |-> FALSE, component |-> None, id |-> 0]

\* What the bridge records of a file: domain.MediaComponent.
Components ==
    [inode : Inodes \ {0}, content : Inodes,
     state : {"pending_import", "pending_discovery", "ready"}]

\* What GetAsset returned of the recipient's copy: its id and whether Immich knows its XMP.
Remotes == [id : CopyIds, xmp : BOOLEAN]

ASSUME NoneAssumption == None \notin Components /\ None \notin Remotes

Copies == [id : CopyIds \cup {0}, trashed : BOOLEAN, stacked : BOOLEAN, xmp : Inodes]

Rows ==
    [state : {"none", "pending_link", "pending_import", "error", "ready", "repair_pending",
              "pending_removal", "deleting"},
     id : CopyIds \cup {0}, path : BOOLEAN]

Locals ==
    [remote : Remotes \cup {None}, sidecar : BOOLEAN, component : Components \cup {None},
     id : CopyIds \cup {0}]

Places ==
    {"idle", "apply", "origin", "recipient", "claim", "link", "record", "linkSidecar",
     "component", "refresh", "recordSidecar", "settle", "lookup", "cleanup", "delete",
     "deleted", "unlinkSidecar", "unlink", "forget", "mark", "finish"}

AccountsTypeOK ==
    /\ origin \in {"live", "trashed", "gone"}
    /\ source \in [Kinds -> Inodes] /\ link \in [Kinds -> Inodes]
    /\ content \in [Inodes \ {0} -> Inodes]
    /\ copy \in Copies
    /\ doomed \subseteq Kinds

TablesTypeOK ==
    /\ shared \in BOOLEAN /\ ownerDeleted \in BOOLEAN
    /\ row \in Rows
    /\ files \in [Kinds -> Components \cup {None}]
    /\ row.state = "none" => row = NoRow /\ \A k \in Kinds : files[k] = None
    /\ row.state \in {"ready", "repair_pending"} => row.id # 0 /\ row.path
    /\ row.state \in {"pending_link", "pending_import"} => row.id = 0 /\ row.path

ProcessTypeOK ==
    /\ pc \in Places /\ work \in Locals
    /\ discovery \in {"no", "needed", "queued"}
    /\ edits \in 0 .. MaxEdits /\ faults \in 0 .. MaxFaults

\* Accounts, tables and process keep their types, and a row the fields that its state
\* stands for.
TypeOK == AccountsTypeOK /\ TablesTypeOK /\ ProcessTypeOK

Init ==
    /\ origin = "live"
    /\ source = [original |-> 1, sidecar |-> 0]
    /\ content = [i \in Inodes \ {0} |-> 0]
    /\ copy = NoCopy
    /\ link = [k \in Kinds |-> 0]
    /\ doomed = {}
    /\ shared = TRUE /\ ownerDeleted = FALSE
    /\ row = NoRow
    /\ files = [k \in Kinds |-> None]
    /\ pc = "idle" /\ work = Idle /\ discovery = "no"
    /\ edits = 0 /\ faults = 0

-----------------------------------------------------------------------------
(* Users, and what the cycle decides from their edits before it comes here *)

Edit == edits < MaxEdits /\ edits' = edits + 1

\* The owner trashes, restores or deletes the original.
OwnerEdit ==
    /\ Edit
    /\ \/ origin = "live" /\ origin' = "trashed"
       \/ origin = "trashed" /\ origin' \in {"live", "gone"}
    /\ UNCHANGED <<source, content, copy, link, doomed, tables, pc, work, discovery, faults>>

\* Immich deletes the files of a deleted original.
OriginUnlinked ==
    /\ origin = "gone" /\ source.original # 0
    /\ source' = [k \in Kinds |-> 0]
    /\ UNCHANGED <<origin, content, copy, link, doomed, tables, pc, work, discovery, edits,
                   faults>>

\* The XMP of the original is written: into a file of its own, or in place.
WriteSidecar(inode) ==
    /\ origin = "live" /\ Edit
    /\ source' = [source EXCEPT !.sidecar = inode]
    /\ content' = [content EXCEPT ![inode] = edits + 1]
    /\ UNCHANGED <<origin, copy, link, doomed, tables, pc, work, discovery, faults>>

NewSidecar == WriteSidecar(edits + 1)
EditSidecar == source.sidecar # 0 /\ WriteSidecar(source.sidecar)

\* The recipient trashes or restores the copy, puts it in a stack or takes it out, or
\* deletes it.
RecipientEdit ==
    /\ copy.id # 0 /\ Edit
    /\ \/ copy' = [copy EXCEPT !.trashed = ~@] /\ UNCHANGED doomed
       \/ copy' = [copy EXCEPT !.stacked = ~@] /\ UNCHANGED doomed
       \/ copy' = NoCopy /\ doomed' = {k \in Kinds : link[k] # 0}
    /\ UNCHANGED <<origin, source, content, link, tables, pc, work, discovery, faults>>

\* The family adds the asset to an album, or removes it from all.
Decide ==
    /\ pc = "idle" /\ Edit
    /\ shared' = ~shared
    /\ shared' => origin = "live" /\ source.original # 0
    /\ ownerDeleted' = (ownerDeleted /\ ~shared')
    /\ UNCHANGED <<accounts, row, files, pc, work, discovery, faults>>

\* A discovery finds the original trashed or deleted, which ends the sharing.
DecideOwnerDeleted ==
    /\ pc = "idle" /\ origin # "live" /\ ~ownerDeleted
    /\ shared' = FALSE /\ ownerDeleted' = TRUE
    /\ UNCHANGED <<accounts, row, files, pc, work, discovery, edits, faults>>

\* A discovery misses the copy of a shared asset.
DecideRepair ==
    /\ pc = "idle" /\ shared /\ row.state = "ready"
    /\ copy.id # row.id \/ copy.trashed
    /\ row' = [row EXCEPT !.state = "repair_pending"]
    /\ UNCHANGED <<accounts, shared, ownerDeleted, files, pc, work, discovery, edits, faults>>

-----------------------------------------------------------------------------
(* Immich *)

\* An id that nothing refers to.
FreshId ==
    CHOOSE i \in CopyIds :
        /\ i \notin {row.id, work.id}
        /\ work.remote # None => i # work.remote.id

\* What Immich reads of the recipient's XMP.
Written == IF link.sidecar = 0 THEN 0 ELSE content[link.sidecar]

\* A library scan imports the media file, with its XMP if there is one.
Import ==
    /\ link.original # 0 /\ copy.id = 0
    /\ copy' = [id |-> FreshId, trashed |-> FALSE, stacked |-> FALSE, xmp |-> Written]
    /\ UNCHANGED <<origin, source, content, link, doomed, tables, pc, work, discovery, edits,
                   faults>>

\* The sidecar job associates XMP files that appeared after the import.
DiscoverSidecars ==
    /\ discovery = "queued"
    /\ discovery' = "no"
    /\ copy' = IF copy.id # 0 /\ copy.xmp = 0 THEN [copy EXCEPT !.xmp = Written] ELSE copy
    /\ UNCHANGED <<origin, source, content, link, doomed, tables, pc, work, edits, faults>>

\* Immich deletes a file of a deleted copy, unless its mount is read-only.
DeleteFile(k) ==
    /\ k \in doomed /\ ~ReadOnlyMount
    /\ link' = [link EXCEPT ![k] = 0]
    /\ doomed' = doomed \ {k}
    /\ UNCHANGED <<origin, source, content, copy, tables, pc, work, discovery, edits, faults>>

-----------------------------------------------------------------------------
(* The cycle *)

Fails == faults < MaxFaults /\ faults' = faults + 1
Keeps == UNCHANGED <<origin, source, content, shared, ownerDeleted, edits>>

\* The cycle goes on at p, out of the function it was in.
Leave(p) == pc' = p /\ work' = Idle
GoOn(p) == pc' = p /\ UNCHANGED work

\* Ready copies of shared assets are audited first.
StartCycle ==
    /\ pc = "idle"
    /\ GoOn(IF shared /\ row.state = "ready" THEN "origin" ELSE "apply")
    /\ Keeps /\ UNCHANGED <<copy, link, doomed, row, files, discovery, faults>>

\* reconcileMemberAssets sorts the replica by its state.
Apply ==
    /\ pc = "apply"
    /\ GoOn(IF ~shared \/ row.state = "ready" THEN "cleanup"
            ELSE IF row.state = "pending_import" THEN "lookup"
            ELSE "origin")
    /\ Keeps /\ UNCHANGED <<copy, link, doomed, row, files, discovery, faults>>

WasReady == row.state \in {"ready", "repair_pending"}

\* The row of a replica whose original cannot be read.
SourceError == [row EXCEPT !.state = "error"]

\* ensureReplica reads the original, and learns whether it has an XMP.
InspectOrigin ==
    /\ pc = "origin"
    /\ IF origin = "live"
       THEN /\ pc' = IF WasReady THEN "recipient" ELSE "claim"
            /\ work' = [work EXCEPT !.sidecar = source.sidecar # 0]
       ELSE Leave("cleanup")
    /\ row' = IF origin = "gone" THEN SourceError ELSE row
    /\ Keeps /\ UNCHANGED <<copy, link, doomed, files, discovery, faults>>

\* The request fails: that tells nothing about a copy that was ready.
InspectOriginFails ==
    /\ pc = "origin" /\ Fails
    /\ row' = IF WasReady THEN row ELSE SourceError
    /\ Leave("cleanup")
    /\ Keeps /\ UNCHANGED <<copy, link, doomed, files, discovery>>

\* It looks at the copy, and restores it from the trash.
InspectRecipient ==
    /\ pc = "recipient"
    /\ IF copy.id = row.id
       THEN /\ copy' = [copy EXCEPT !.trashed = FALSE]
            /\ work' = [work EXCEPT !.remote = [id |-> copy.id, xmp |-> copy.xmp # 0]]
            /\ pc' = "link"
       ELSE UNCHANGED copy /\ GoOn("claim")
    /\ Keeps /\ UNCHANGED <<link, doomed, row, files, discovery, faults>>

\* It records the copy as one to be linked, before it links.
Claim ==
    /\ pc = "claim"
    /\ row' = [state |-> "pending_link", id |-> 0, path |-> TRUE]
    /\ GoOn("link")
    /\ Keeps /\ UNCHANGED <<copy, link, doomed, files, discovery, faults>>

\* Mutant: the link of an earlier attempt is a conflict.
LinkableOnce(k) == source[k] # 0 /\ link[k] = 0

\* Linker.Ensure accepts the link of an earlier attempt.
Linkable(k) == source[k] # 0 /\ link[k] \in {0, source[k]}
Ensure(k) == link' = [link EXCEPT ![k] = source[k]]

\* ensureRecipientComponents links the media file.
Link ==
    /\ pc = "link" /\ Linkable("original")
    /\ Ensure("original")
    /\ GoOn("record")
    /\ Keeps /\ UNCHANGED <<copy, doomed, row, files, discovery, faults>>

\* It records the inode of the media file.
Record ==
    /\ pc = "record" /\ source.original # 0
    /\ files' = [files EXCEPT !.original =
                    [inode |-> source.original, content |-> 0, state |-> "ready"]]
    /\ GoOn(IF work.sidecar THEN "linkSidecar" ELSE "settle")
    /\ Keeps /\ UNCHANGED <<copy, link, doomed, row, discovery, faults>>

LinkSidecar ==
    /\ pc = "linkSidecar" /\ Linkable("sidecar")
    /\ Ensure("sidecar")
    /\ GoOn("component")
    /\ Keeps /\ UNCHANGED <<copy, doomed, row, files, discovery, faults>>

\* The state in which the XMP is recorded.
SidecarState ==
    IF work.remote = None THEN "pending_import"
    ELSE IF work.remote.xmp THEN "ready"
    ELSE "pending_discovery"

\* A ready XMP was changed since it was recorded.
SidecarChanged ==
    /\ SidecarState = "ready"
    /\ files.sidecar # None
    /\ files.sidecar.state = "ready" /\ files.sidecar.content # content[source.sidecar]

\* It reads inode, size and time of the source's XMP.
ReadComponent ==
    /\ pc = "component" /\ source.sidecar # 0
    /\ work' = [work EXCEPT !.component =
                   [inode |-> source.sidecar, content |-> content[source.sidecar],
                    state |-> SidecarState]]
    /\ pc' = IF SidecarChanged THEN "refresh" ELSE "recordSidecar"
    /\ discovery' = IF SidecarState = "pending_discovery" /\ discovery = "no"
                    THEN "needed" ELSE discovery
    /\ Keeps /\ UNCHANGED <<copy, link, doomed, row, files, faults>>

\* Immich is asked to read a changed XMP again.
RefreshMetadata ==
    /\ pc = "refresh" /\ copy.id = work.remote.id
    /\ copy' = IF link.sidecar = 0 THEN copy ELSE [copy EXCEPT !.xmp = Written]
    /\ GoOn("recordSidecar")
    /\ Keeps /\ UNCHANGED <<link, doomed, row, files, discovery, faults>>

\* Mutant: the XMP is read when it is recorded, after the refresh.
RecordSidecarNow ==
    /\ pc = "recordSidecar"
    /\ files' = [files EXCEPT !.sidecar = [work.component EXCEPT !.content = content[work.component.inode]]]
    /\ GoOn("settle")
    /\ Keeps /\ UNCHANGED <<copy, link, doomed, row, discovery, faults>>

RecordSidecar ==
    /\ pc = "recordSidecar"
    /\ files' = [files EXCEPT !.sidecar = work.component]
    /\ GoOn("settle")
    /\ Keeps /\ UNCHANGED <<copy, link, doomed, row, discovery, faults>>

\* All files are in place: the copy is ready, or waits for its import.
Settle ==
    /\ pc = "settle"
    /\ row' = [row EXCEPT !.state = IF work.remote = None THEN "pending_import" ELSE "ready"]
    /\ Leave("apply")
    /\ Keeps /\ UNCHANGED <<copy, link, doomed, files, discovery, faults>>

\* A file is missing, or is not the one expected, or the request fails. A copy that was
\* found keeps its state, any other is in error.
CannotGoOn ==
    \/ pc = "link" /\ ~Linkable("original")
    \/ pc = "record" /\ source.original = 0
    \/ pc = "linkSidecar" /\ ~Linkable("sidecar")
    \/ pc = "component" /\ source.sidecar = 0
    \/ pc = "refresh" /\ copy.id # work.remote.id

ComponentsFail ==
    /\ \/ CannotGoOn /\ UNCHANGED faults
       \/ Fails /\ pc \in {"link", "record", "linkSidecar", "component", "refresh",
                           "recordSidecar"}
    /\ row' = IF work.remote = None THEN [row EXCEPT !.state = "error"] ELSE row
    /\ Leave("cleanup")
    /\ Keeps /\ UNCHANGED <<copy, link, doomed, files, discovery>>

\* Mutant: an import that is not there yet is taken as one without an error.
LookUpAny ==
    /\ pc = "lookup"
    /\ row' = [row EXCEPT !.state = "ready", !.id = copy.id]
    /\ GoOn("cleanup")
    /\ Keeps /\ UNCHANGED <<copy, link, doomed, files, discovery, faults>>

\* FindByPath finds the copy: the search asks neither for trashed assets nor for those
\* that a stack hides under its primary.
Searchable == copy.id # 0 /\ ~copy.trashed /\ ~copy.stacked

\* resolvePendingImport finds the import by its path.
LookUp ==
    /\ pc = "lookup"
    /\ row' = IF Searchable THEN [row EXCEPT !.state = "ready", !.id = copy.id] ELSE row
    /\ GoOn("cleanup")
    /\ Keeps /\ UNCHANGED <<copy, link, doomed, files, discovery, faults>>

\* A request about the copy, or the row's update, fails: nothing is recorded.
CopyRequestFails ==
    /\ pc \in {"recipient", "claim", "settle", "lookup"} /\ Fails
    /\ Leave("cleanup")
    /\ Keeps /\ UNCHANGED <<copy, link, doomed, row, files, discovery>>

-----------------------------------------------------------------------------
(* The end of a cycle: cleanup, MarkUnused, sidecar discovery *)

\* RemovalReplicas, and SourceCount.
Removable ==
    /\ row.state \in {"pending_removal", "deleting"}
    /\ RemoveUnshared \/ ownerDeleted
    /\ ~shared

NothingToClean ==
    /\ pc = "cleanup" /\ ~Removable
    /\ GoOn("mark")
    /\ Keeps /\ UNCHANGED <<copy, link, doomed, row, files, discovery, faults>>

\* cleanupReplica looks up a copy that it has no id of. While it finds none, a scan may
\* still import the file, and cleanup waits for that.
FindCopy ==
    /\ pc = "cleanup" /\ Removable
    /\ IF row.id = 0 /\ row.path
       THEN /\ pc' = IF Searchable THEN "delete" ELSE "mark"
            /\ work' = IF Searchable THEN [work EXCEPT !.id = copy.id] ELSE work
       ELSE /\ pc' = IF row.id = 0 THEN "unlinkSidecar" ELSE "delete"
            /\ work' = [work EXCEPT !.id = row.id]
    /\ Keeps /\ UNCHANGED <<copy, link, doomed, row, files, discovery, faults>>

\* It has Immich delete the copy, or finds it deleted.
DeleteAssets ==
    /\ pc = "delete"
    /\ IF copy.id = work.id
       THEN copy' = NoCopy /\ doomed' = {k \in Kinds : link[k] # 0} /\ GoOn("deleted")
       ELSE UNCHANGED <<copy, doomed>> /\ GoOn("unlinkSidecar")
    /\ Keeps /\ UNCHANGED <<link, row, files, discovery, faults>>

RecordDeleting ==
    /\ pc = "deleted"
    /\ row' = [row EXCEPT !.state = "deleting", !.id = work.id]
    /\ Leave("mark")
    /\ Keeps /\ UNCHANGED <<copy, link, doomed, files, discovery, faults>>

\* Linker.RemoveRecorded: the link must be one to the source file, or if that is gone to
\* the recorded inode.
Verified(k, inode) ==
    \/ link[k] = 0
    \/ link[k] = IF source[k] = 0 THEN inode ELSE source[k]

RecordedInode(k) == IF files[k] = None THEN 0 ELSE files[k].inode

Unlink(k) ==
    /\ Verified(k, RecordedInode(k))
    /\ link' = [link EXCEPT ![k] = 0]

\* removeReplicaFiles: recorded companions first, the media file last.
UnlinkSidecar ==
    /\ pc = "unlinkSidecar"
    /\ IF files.sidecar = None THEN UNCHANGED link ELSE Unlink("sidecar")
    /\ GoOn("unlink")
    /\ Keeps /\ UNCHANGED <<copy, doomed, row, files, discovery, faults>>

\* Mutant: with nothing recorded there is nothing to unlink.
UnlinkRecorded ==
    /\ pc = "unlink"
    /\ IF files.original = None THEN UNCHANGED link ELSE Unlink("original")
    /\ GoOn("forget")
    /\ Keeps /\ UNCHANGED <<copy, doomed, row, files, discovery, faults>>

\* With nothing recorded, the original tells which file the link must be.
UnlinkOriginal ==
    /\ pc = "unlink"
    /\ IF files.original = None /\ ~row.path THEN UNCHANGED link ELSE Unlink("original")
    /\ files.original = None /\ row.path => origin # "gone"
    /\ GoOn("forget")
    /\ Keeps /\ UNCHANGED <<copy, doomed, row, files, discovery, faults>>

\* DeleteReplica deletes the row and its files in one transaction.
DeleteReplica ==
    /\ pc = "forget"
    /\ row' = NoRow /\ files' = [k \in Kinds |-> None]
    /\ Leave("mark")
    /\ Keeps /\ UNCHANGED <<copy, link, doomed, discovery, faults>>

\* A link cannot be verified, or a request fails: the next cycle tries again.
CleanupFails ==
    /\ \/ Fails /\ pc \in {"cleanup", "delete", "deleted", "unlinkSidecar", "unlink", "forget"}
       \/ /\ UNCHANGED faults
          /\ \/ pc = "unlinkSidecar" /\ files.sidecar # None
                /\ ~Verified("sidecar", RecordedInode("sidecar"))
             \/ pc = "unlink" /\ row.path /\ ~Verified("original", RecordedInode("original"))
             \/ pc = "unlink" /\ row.path /\ files.original = None /\ origin = "gone"
    /\ Leave("mark")
    /\ Keeps /\ UNCHANGED <<copy, link, doomed, row, files, discovery>>

\* Mutant: only ready copies are marked.
MarkReady ==
    /\ pc = "mark"
    /\ row' = IF ~shared /\ row.state = "ready"
              THEN [row EXCEPT !.state = "pending_removal"] ELSE row
    /\ Leave("finish")
    /\ Keeps /\ UNCHANGED <<copy, link, doomed, files, discovery, faults>>

MarkUnused ==
    /\ pc = "mark"
    /\ row' = IF ~shared /\ row.state \notin {"none", "pending_removal", "deleting"}
              THEN [row EXCEPT !.state = "pending_removal"] ELSE row
    /\ Leave("finish")
    /\ Keeps /\ UNCHANGED <<copy, link, doomed, files, discovery, faults>>

\* Immich's sidecar job is asked for when an audit missed an XMP.
FinishCycle ==
    /\ pc = "finish"
    /\ discovery' = IF discovery = "needed" THEN "queued" ELSE discovery
    /\ GoOn("idle")
    /\ Keeps /\ UNCHANGED <<copy, link, doomed, row, files, faults>>

\* The process stops, the cycle is cancelled, or an error ends it: what it knew is lost.
Crash ==
    /\ pc # "idle" /\ Fails
    /\ Leave("idle")
    /\ discovery' = IF discovery = "needed" THEN "no" ELSE discovery
    /\ Keeps /\ UNCHANGED <<copy, link, doomed, row, files>>

-----------------------------------------------------------------------------
Steps ==
    \/ StartCycle \/ Apply \/ InspectOrigin \/ InspectRecipient \/ Claim \/ Link \/ Record
    \/ LinkSidecar \/ ReadComponent \/ RefreshMetadata \/ RecordSidecar \/ Settle
    \/ ComponentsFail \/ LookUp \/ NothingToClean \/ FindCopy \/ DeleteAssets
    \/ RecordDeleting \/ UnlinkSidecar \/ UnlinkOriginal \/ DeleteReplica \/ CleanupFails
    \/ MarkUnused \/ FinishCycle

Environment ==
    \/ OwnerEdit \/ OriginUnlinked \/ NewSidecar \/ EditSidecar \/ RecipientEdit
    \/ Decide \/ DecideOwnerDeleted \/ DecideRepair
    \/ Import \/ DiscoverSidecars \/ \E k \in Kinds : DeleteFile(k)

Next == Steps \/ InspectOriginFails \/ CopyRequestFails \/ Crash \/ Environment

Spec == Init /\ [][Next]_vars

\* Requests have time-outs and a cycle starts after each interval; Immich scans the
\* recipient's library and runs its jobs.
FairSpec ==
    /\ Spec
    /\ WF_vars(Steps) /\ WF_vars(Import) /\ WF_vars(DiscoverSidecars)

-----------------------------------------------------------------------------
(* Properties *)

\* The bridge keeps the promise of TrackedCopy: it records a copy before it links a file
\* of it (ensureReplica), and drops the record after it has unlinked the media file and
\* every companion it recorded (removeReplicaFiles, DeleteReplica), whatever stops it.
Promise ==
    INSTANCE TrackedCopy WITH
        claimed <- row.state # "none",
        known <- {k \in Kinds : files[k] # None},
        placed <- {k \in Kinds : link[k] # 0},
        imported <- copy.id # 0

KeepsPromise == Promise!Spec

\* Once an XMP was recorded as ready, a new version of it is recorded only after Immich
\* has read that version: otherwise no later audit would see a difference and ask
\* (ensureRecipientComponents).
RefreshedBeforeRecorded ==
    [][ LET old == files.sidecar
            new == files'.sidecar
        IN  /\ old # None /\ new # None /\ old # new
            /\ old.state = "ready" /\ new.state = "ready"
            /\ copy.id = row.id /\ link.sidecar = new.inode
            => copy.xmp >= new.content ]_vars

InPlace(k) == link[k] # 0 /\ link[k] = source[k]

\* The copy is what the family expects to see.
Mirrored ==
    /\ row.state = "ready" /\ row.id = copy.id /\ ~copy.trashed
    /\ InPlace("original")
    /\ source.sidecar # 0 =>
          InPlace("sidecar") /\ files.sidecar # None /\ files.sidecar.state = "ready"

\* The XMP was replaced by another file: Ensure reports a conflict for good.
Conflict == source.sidecar # 0 /\ link.sidecar \notin {0, source.sidecar}

\* The file of a pending import is gone, and only a lookup is made of it.
NothingToImport == row.state = "pending_import" /\ link.original = 0

\* The copy was imported, and trashed or stacked before the bridge looked it up.
Hidden == row.id = 0 /\ row.path /\ copy.id # 0 /\ ~Searchable

\* A shared asset whose original is there becomes a ready copy with its files linked and
\* its XMP known, or ends up in one of three dead ends: a conflict, a pending import
\* that has lost its file, or one that no lookup finds because the recipient trashed or
\* stacked it first (ensureReplica, reconcileMemberAssets, FindByPath).
SharedIsMirrored ==
    <>[](shared /\ origin = "live")
        => <>[](\/ Mirrored \/ Conflict \/ NothingToImport
                \/ row.state = "pending_import" /\ Hidden)

\* The recorded XMP is not the one that is linked: RemoveRecorded refuses for good.
Unlinkable == files.sidecar # None /\ ~Verified("sidecar", files.sidecar.inode)

\* Nothing is left that a scan could import, and no id to ask for.
NothingToFind == row.id = 0 /\ row.path /\ link.original = 0 /\ copy.id = 0

\* The media file was linked and not recorded, and the original is gone.
Unverifiable == row.path /\ files.original = None /\ origin = "gone"

\* The XMP of a mirrored copy is, in the end, the one that the original has: "Source-side
\* XMP changes are detected during bounded replica audits and queued for recipient
\* metadata refresh" (README.md:234).
SidecarChangesArrive ==
    <>[](shared /\ origin = "live" /\ Mirrored)
        => <>[](source.sidecar # 0 => copy.xmp = content[source.sidecar])

\* A copy that is to go goes for good, its media file and its record, or ends up in one of
\* four dead ends: a conflict, a missing identity, or a copy that cannot be imported or is
\* hidden from the lookup, for which cleanup waits (cleanupReplica, removeReplicaFiles).
UnsharedIsRemoved ==
    <>[](~shared /\ (RemoveUnshared \/ ownerDeleted))
        => <>[](\/ row = NoRow /\ link.original = 0
                \/ Unlinkable \/ NothingToFind \/ Hidden \/ Unverifiable)
=============================================================================
