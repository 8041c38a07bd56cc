# Verification of Immich Family Bridge

TLA+ models of the bridge, TLC runs that check them on small instances, and
proofs that TLAPS checks for every size. Source references are relative to the
repository (`src/`).

| file | what it is |
| --- | --- |
| `Membership.tla`, `MCMembership.tla` | the reconciliation cycle: Run, Work, users, Immich, faults |
| `Membership_proofs.tla` | type correctness and three safety theorems about it |
| `MembershipEdits_proofs.tla` | that membership follows users' edits: six theorems about its action properties |
| `Replica.tla`, `MCReplica.tla` | one recipient copy, its media file and XMP, request by request |
| `TrackedCopy.tla` | what `Replica` promises about the files it places, and implements |
| `Replica_proofs.tla` | type correctness of `Replica`, that it implements `TrackedCopy`, and that changed XMPs are read |
| `WorkBatches.tla`, `MCWorkBatches.tla` | bounded batches and the cursors that rotate them |
| `WorkBatches_proofs.tla` | batchAfter, the limits, and that no item is worked on twice |
| `ScanLease.tla`, `MCScanLease.tla` | library scans, claimed by several processes |
| `ScanLease_proofs.tla` | single flight, for any number of processes |
| `Stacks.tla`, `MCStacks.tla` | how source stacks are mirrored |
| `Stacks_proofs.tla` | what is created is whole, what is removed is gone |
| `AlbumLifecycle.tla`, `MCAlbumLifecycle.tla` | how mirrored albums are registered, shared, unmirrored and restored |
| `AlbumLifecycle_proofs.tla` | that archive, mappings and Immich agree, and its action properties |
| twelve `*.cfg` | the instances for TLC |
| `PROJECT.json` | components, runs, mutants, source map, findings, hazards, theorems |

    tlc -workers 4 -config cycle_faults.cfg MCMembership
    tlc -workers 4 -config replica.cfg MCReplica
    tlapm Replica_proofs.tla

The specifications are views of one process, cut where one of them needs only the
outcome of another:

- `AlbumLifecycle` covers the head of Run and Work (resume, markers, discovery, creation
  of mirrors) and the API calls, and stops where the observation of albums starts. They
  share Immich albums and the reconciler's mutex with the rest: an error in the head is
  for `Membership` a cycle that did not start.
- `Membership` covers observation, decision and write-back for a fixed set of mirrored
  albums, with one call of ensureReplica, resolvePendingImport or cleanupReplica as a step.
- `Replica` takes these calls apart for one copy. What `Membership` decides is for it a
  choice of the environment (`Decide`, `DecideOwnerDeleted`, `DecideRepair`).
- `WorkBatches` asks which items these calls are made for in a cycle, and takes their
  outcome as arbitrary. `ScanLease` is the scan on which a pending import waits: `Replica`
  only assumes that scans happen, and `ScanLease` shows it.
- `Stacks` runs after the albums of a cycle, on the replicas that are ready by then.

## The system

The bridge keeps albums of several Immich accounts equal. Every member has an own
copy of each shared asset: the owner the upload, the others a hard link that
Immich imports through an external library of theirs.

| component | state | operations | interacts with |
| --- | --- | --- | --- |
| polling loop (`cmd/familybridge/main.go`) | `forceDiscovery`, `lastDiscovery` | runCycle: Run or Work | reconciler |
| reconciliation cycle (`reconcile/reconcile.go`, `membership.go`) | per cycle: plans, observed listings, attempted work | Run: observe, resolve, persist, audit, apply, cleanup; Work: audit, apply, cleanup | store, Immich client, file system |
| replicas (`reconcile.go`) | `asset_replicas`, `asset_replica_files` | ensureReplica, resolvePendingImport, cleanupReplica, MarkUnused | store, Immich, file system |
| store (`internal/store`) | SQLite tables | one transaction per call; persistPlans spans all albums | everything |
| album lifecycle (`album_deletions.go`, `album_sharing.go`) | `album_deletions`, `album_marker_observations` | unmirror, restore, resume, marker detection, discovery | HTTP API, Run, Work |
| registration (`reconcile.go`) | `logical_albums`, `album_replicas` | EnsureTogether, register, ensureAlbumReplicas | HTTP API, Run |
| scan lease (`store.go`, `requestLibraryScan`) | `library_scan_state` | claim, release | Immich library scans, other processes on the same database |
| work batches (`batchAfter`) | `work_cursors` | bounded audits, preparations, lookups | every cycle |
| stacks (`reconcile.go`) | `source_stacks`, `stack_replicas`, a cache per pass | discover, reconcile, remove | Immich, ready replicas |
| covers and names | columns of albums | with the write-back | Immich |
| file system (`internal/filesystem`) | hard links | Ensure, RemoveRecorded | replicas |
| HTTP API (`internal/httpapi`) | none | calls the above under the reconciler's mutex | |

**What is hard.** The bridge is one goroutine under a mutex; the concurrency is
outside: several people edit the same albums, trash, restore and delete assets,
and Immich crawls its libraries, all between any two requests of a cycle. A cycle
is a long sequence of requests with a single transaction in the middle, and it may
stop anywhere: crash, cancelled context, failed request, one bad item of a batch.
What it had decided is in SQLite, what it had learnt or written is lost, and the
next cycle must tell its own half-finished writes from edits of users.

**What makes the parts correct.**
- Cycle: membership follows from what users did (no resurrection, no lost removal
  or addition, no unsharing by a deleted copy); decisions about several albums stay
  consistent after a crash; albums converge to the decision.
- Replicas: only unshared recipient copies are deleted, after a grace period;
  each copy comes back after it was trashed, deleted or imported late; no file is in a
  recipient's library without a record of it; a changed XMP reaches the recipient.
- Album lifecycle: only requested deletions, archive before deletion, both
  directions resume after a crash, no duplicate albums.
- Scan lease: at most one scan per interval and member, no lost request.
- Batches: limits are kept across albums, no item waits for ever, none is worked on twice.
- Stacks: complete or absent, removed only when known to be gone, no stack left behind.

## Membership

### State and code

| variables | stand for |
| --- | --- |
| `copy`, `file`, `rows` | Immich and the file system: each member's copy (none, live, trashed; an id generation), the bridge's hard link, album contents including the hidden rows of trashed copies |
| `membership`, `sources`, `obs`, `initialized`, `rep` | `album_memberships`, `sharing_sources`, `album_observations`, `logical_albums.initialized`, `asset_replicas` |
| `pc`, `visits`, `seen`, `checks`, `plan`, `tried` | the running cycle: phase, mirrors still to visit, `observed.assets`, outstanding GetAsset calls, `albumPlan`s, attempted work |
| `force` | `forceDiscovery` |
| `offered`, `withdrawn`, `flicker`, `dropped`, `spent` | history for properties and bounds; the bridge never reads it |

An Immich id is an asset with a generation: deletion and re-import give a new
generation, as Immich gives a new UUID. Generation 0 is NULL.

| phase | actions | code |
| --- | --- | --- |
| idle | `StartRun`, `StartWork` | runCycle, Run, Work |
| observe | `ListAlbum`, `RejectAlbum`, `CheckMissing` | observeAlbum, one listing and one GetAsset at a time |
| | `ConfirmOrigin`, `PersistPlans` | resolveTogether, resolveOwnerDeletions, persistPlans (one transaction) |
| audit | `Audit`, `AuditDone` | auditReadyReplicas, ensureReplica |
| apply | `Prepare`, `LookUp`, `AddAssets` | reconcileMemberAssets, ensureReplica, resolvePendingImport |
| write | `RemoveAsset`, `UpdateObservations` | applyAlbum |
| post | `CleanupReplica`, `FinishCycle` | cleanupUnusedReplicas, cleanupReplica, MarkUnused |
| any | `CycleFault` | crash, cancellation, API or SQLite error |
| environment | `UserAdd` ... `UserDelete`, `Import` | members and Immich's crawler |

Choices made in the model:
- A crash, a cancelled context and an error that ends a cycle are one thing: the
  in-memory state is lost and `force` is set (a restarted process starts with
  `forceDiscovery = true`). Errors of the post phase are ErrPostwork and do not
  force a discovery.
- The discovery timer is abstracted: a Run may start at any time, a Work only when
  none is forced.
- One page-wise album listing is one step, and so is one call of ensureReplica: it
  holds no decision of the cycle in between. It fails before or after its effects on
  Immich and the file system (`EnsureError`). A row left in pending_link by a
  crash is treated by later cycles as one in error, and is modelled so.
- Members are audited in any order; each is visited in configuration order in the
  other phases, with Together first when albums are written.
- Facts about Immich, from `docs/live-validation.md` and the client: a trashed
  asset is not listed but keeps its album rows and gets them back when restored;
  GetAsset finds it; one bad item fails a batch after the others were applied; an
  external file may go with its asset unless the mount is read-only.
- The search by path (`FindByPath`, `httpclient.go:455`) asks neither for trashed assets nor
  for the children of stacks, as other requests of the client do (`httpclient.go:158`,
  `375-378`). So a copy in the trash whose id is not recorded is not found
  (`Searchable`). The fake client of the tests would find it. Stacked copies are in `Replica`.
- Left out: covers, names, unsupported media, partner-shared assets, albums coming and
  going; sidecars, stacks and batch limits, which have modules of their own (here each
  phase handles all of its items).

### Runs

All runs have two members and two albums, Together and a secondary one. `E`, `T`, `F`
bound user edits, trash operations and faults. Two members are an owner and a recipient;
conflicts between edits, which decide precedence, need two people and two albums.
`MaxGen = 4` leaves room for three re-imports.

| run | instance | checks |
| --- | --- | --- |
| `cycle_faults` | one asset, nothing shared yet, E4 F2 | `TypeOK`, `SharingConsistent`, `DiffersByEdits`, `NoResurrection`, `RemovalHonoured`, `AdditionHonoured`, `DeletionGrace`, `UnshareByIntentOrRestore` |
| `cycle_trash` | one asset not yet shared, E2 T2 F1, cleanup off, files deletable; 0.94 million states | `OwnerDeletedUnshared`, `DeletesOnlyUnshared`, `RemovalHonoured`, `AdditionHonoured`, `UnshareByIntentOrRestore` |
| `convergence` | one asset in both albums, E2 T1 F1, with fairness | `ConvergesUnlessBlocked` |

Four edits and two faults are enough to share, abort, unshare, share again and
abort again, the longest scenario any hazard names; one fault with two trash
operations covers deleting, restoring and re-importing during an aborted cycle.

Each property has a mutant in `PROJECT.json`: a one-line bug put into a definition
of the model, which TLC must find under the same run.

**Fairness** (`FairSpec`). `WF(Cycle)`: requests have time-outs, so a cycle goes on.
`WF(StartRun \/ StartWork)`: runPolling starts a cycle after each interval.
`SF(StartRun)`: `discovery_interval` passes again and again. `WF(Import)`: Immich
crawls its libraries. Users owe nothing; edits and faults are bounded and thus stop.

Two runs show where a statement of the repository and the code differ:

| run | in short |
| --- | --- |
| `removal_lost` | The bridge's own AddAssets before a crash is unrecorded, counts as a member's direct Together addition next time, and overrides a removal. |
| `blocked_discovery` | A member puts an imported, not yet looked-up copy in an album: every Run fails on it, and no Work runs to look it up. |

The passing properties state what holds beside them, and their exceptions are limits of
the code that a reader should know:
- `RemovalHonoured` is about discoveries after completed cycles and assets without a failed
  repair (`RepairFailed`): a call that restores a trashed copy and then fails has put it back
  into its albums unrecorded. Its row says repair_pending; if the call before failed to keep
  the album's record as well, the row may say ready, and the copy then reads as an addition
  that overrides a removal. A removal is ignored while the mapping of its copy is being
  rebuilt (`membership.go:158`).
- `NoResurrection`, `DiffersByEdits` and `DeletionGrace` hold as long as nobody uses the trash
  (`TrashUnused`). A copy restored from the trash is back in the albums it was in, and that
  reads as an addition. An asset that is shared again while its original is in the trash is
  not prepared and stays pending_removal, so it is deleted in the very cycle that unshares
  it the next time, without the interval that the comment at `reconcile.go:568` grants.
- `DeletionGrace` also excepts a cycle after an aborted one, where a row may already be
  pending_removal when its asset is unshared.
- `UnshareByIntentOrRestore` excepts a copy restored between the listing and the GetAsset of
  its id, which reads as removed.
- `ConvergesUnlessBlocked` excepts a blocked discovery, and a copy that its member trashed
  after its import and before the bridge looked it up (`AwaitsTrashed`): its row stays
  pending_import, which only a lookup changes, until the member restores or deletes the copy.
  Only that copy is away; all others are required to be there.

Decisions about one asset do not read those about another, so the instances have one.

### Proofs

`Membership_proofs` and `MembershipEdits_proofs` prove, for any members, albums, assets,
owners, orders and bounds that satisfy `MembershipAssumption`:

| theorem | statement | inductive invariant |
| --- | --- | --- |
| `TypeCorrect` | `Spec => []TypeOK` | `Typed` |
| `SharingIsConsistent` | `Spec => []SharingConsistent` | `Typed`, itself |
| `OwnerDeletionUnshares` | `Spec => []OwnerDeletedUnshared` | `Typed`, itself |
| `OnlyUnsharedAreDeleted` | `Spec => DeletesOnlyUnshared` | `Typed`, `SharingConsistent` |
| `UnsharedByIntent` | `Spec => UnshareByIntentOrRestore` | `Typed`, `Edits` |
| `NeverResurrected` | `Spec => NoResurrection` | `Edits`, `Additions` while the trash is unused |
| `OnlyEditsDiffer` | `Spec => []DiffersByEdits` | `Edits`, `Additions` while the trash is unused |
| `AdditionsHonoured` | `Spec => AdditionHonoured` | `Edits`, `Planned` |
| `RemovalsStand` | removals are honoured without exception while the trash is unused | `Edits`, `Additions`, `Planned` |
| `GraceKept` | `Spec => DeletionGrace` | `Typed`, `Grace` while the trash is unused |

- `TypeOK` is not inductive: an id that a user offers has a positive generation only
  because a copy in a library has one. `Typed` adds `CopiesHaveIds`, and `NextTyped`
  goes through the actions one by one.
- `SharingConsistent` and `OwnerDeletedUnshared` change only in `PersistPlans`
  (`OnlyPersistDecides`). `DecisionNested` shows that resolveTogether and the
  removal of owner-deleted assets keep secondary albums inside Together;
  `OnlyPersistMarksDeleted` and `EnsureKeepsDeletions` show that no repair, preparation or
  cleanup moves an origin into owner_deleted behind the decision's back.
- `OnlyUnsharedAreDeleted` uses `SharingConsistent`: cleanup asks the sharing
  sources, the statement is about memberships.

The bridge decides from the difference between `seen`, what it lists, and `obs`, what it
recorded. The other theorems are about whether that difference was made by users, and
the invariants say why, phase by phase:

- `Edits` (an asset is never taken for removed by mistake). `Ground`: which plan, visits and
  listings a phase can have, and that an id is never given twice. `Withdrawals`: a recorded id
  that its album does not have was withdrawn by a user, *or its asset is unshared and the
  write that took it out is not recorded* (`SharedTaken`, and for the mirror being written
  and the listings, `WrittenTaken` and `ListedTaken`). The second case is what a crash between
  RemoveAssets and UpdateObservations leaves, and is harmless because what it removes was
  removed already. `Explained`: every outstanding GetAsset and every removal in the plan
  comes from such an id.
- `Additions` is the mirror image: an id that its album has and no record shows was offered
  by a user, *or its asset is shared and the write that added it is not recorded*
  (`SharedAdded`, `WrittenAdded`, `ListedAdded`, `AddsExplained`). It needs the trash to be
  unused (`NoTrash`), which the theorems have as their condition.
- `Planned` is the converse for the running observation: each addition that a listing shows is
  in the plan (`AddsPlanned`), and each removal is, or is still to be confirmed, or does not
  count (`RemovesPlanned`). `OriginIds` says why the original's own id cannot be stale.
- `Grace`: in a cycle that completes, every shared asset was prepared or audited, and has left
  the removal states (`Prepared`, `Visited`, `SharedIsKept`), so that what the next cycle
  unshares is not up for removal before that cycle ends (`DroppedIsKept`).

`RemovalsStand` says of any instance that removals are honoured until the trash is used.
After that, the exception that `RemovalHonoured` makes (above) refers to the history of failed
repairs, and `cycle_trash` checks it. `ConvergesUnlessBlocked` is a liveness property and stays
with TLC.

## Replica and TrackedCopy

### State and code

| variables | stand for |
| --- | --- |
| `origin`, `source`, `content` | the owner's asset, the inode of its media file and XMP, what each XMP inode holds |
| `copy`, `link`, `doomed` | the recipient's Immich asset (id, trashed, stacked under another, what was read of the XMP), the bridge's hard links by inode, files Immich is about to delete with their asset |
| `shared`, `ownerDeleted`, `row`, `files` | `sharing_sources`, the origin's state, `asset_replicas`, `asset_replica_files` |
| `pc`, `work`, `discovery` | where the cycle is, local variables, `sidecarDiscoveryNeeded` and Immich's job |

| step of the cycle | actions | code |
| --- | --- | --- |
| inspect | `InspectOrigin`, `InspectRecipient`, `InspectOriginFails`, `CopyRequestFails` | ensureReplica |
| link | `Claim`, `Link`, `Record`, `LinkSidecar`, `Settle` | ensureReplica, ensureRecipientComponents, Linker.Ensure |
| XMP | `ReadComponent`, `RefreshMetadata`, `RecordSidecar` | component, ensureRecipientComponents |
| look up | `LookUp` | resolvePendingImport |
| clean up | `FindCopy`, `DeleteAssets`, `RecordDeleting`, `UnlinkSidecar`, `UnlinkOriginal`, `DeleteReplica` | cleanupReplica, removeReplicaFiles, RemoveRecorded |
| errors | `ComponentsFail`, `CleanupFails`, `Crash` | error returns, runCycle |
| environment | `OwnerEdit` ... `DeleteFile`, `Decide` ... | users, Immich, persistPlans |

A file is its inode: an XMP is either edited in place (same inode, new content) or replaced
(new inode), and size and modification time, by which the bridge tells versions apart, are
the content. The media file never changes, only goes with its asset. What Immich shows of a
copy is what its last job has read.

`TrackedCopy` is the promise in four variables (claimed, known, placed, imported): a copy
is claimed before a file of it is placed, and released when the media file and every
companion it knows of are gone. `Replica` implements it under the mapping in `Promise`;
`KeepsPromise` is checked by TLC and proved.

### Runs

| run | instance | checks |
| --- | --- | --- |
| `replica` | three edits, one fault, four ids, cleanup on, files deletable by Immich; 0.48 million states | `TypeOK`, `KeepsPromise`, `RefreshedBeforeRecorded`, `SharedIsMirrored`, `UnsharedIsRemoved` |
| `missed_sidecar_change` | two edits, no fault | `SidecarChangesArrive` (violated) |

Three edits are enough to write an XMP, change it and unshare the asset, or to
unshare, share and trash or stack; one fault splits any of the sequences above once. Four ids are
one more than a state can hold, as `ReplicaAssumption` asks.

- `RefreshedBeforeRecorded`: a changed XMP is recorded only after Immich was asked to read it.
- `SharedIsMirrored`: what stays shared becomes a ready copy with all files, or ends in
  one of three dead ends of the code: the XMP was replaced by another file, which Ensure
  reports as a conflict for good; the file of a pending import is gone, which is only
  ever looked up (it needs a mount that lets Immich delete files); or the recipient trashed
  or stacked the copy after its import and before the lookup, which then does not see it
  (`Hidden`: `FindByPath` asks for neither).
- `UnsharedIsRemoved`: what stays unshared goes, or ends in one of four: a recorded XMP
  that is no longer the linked one, no id and nothing left to import, no id and a copy
  `Hidden` from the lookup, for which cleanup waits, and a media file linked but not
  recorded whose original is gone.
- `missed_sidecar_change`: an XMP that is edited in place after Immich imported the copy and
  before the bridge found that import is recorded as it then is, without a refresh, and
  no later audit sees a difference.

**Fairness**: the cycle goes on and starts again; Immich scans (shown by `ScanLease`) and
runs its sidecar jobs. Users, owner edits and file deletions owe nothing.

### Proofs

`Replica_proofs` proves, for any ids and bounds that satisfy `ReplicaAssumption`:

| theorem | statement |
| --- | --- |
| `TypeCorrect` | `Spec => []TypeOK` |
| `PromiseKept` | `Spec => KeepsPromise`, the refinement |
| `MediaIsTraceable` | `Spec => []Promise!Traceable`: no media file of the bridge without a row |
| `ChangesAreRead` | `Spec => RefreshedBeforeRecorded` |

The refinement needs an invariant about the places between two requests. `Inv` is `TypeOK`
and: a linked media file has a row with its path (`LinkedIsClaimed`); the row does not change
while files are linked (`RowOfLinking`), and each other function is entered with a row in its
states (`RowOfOthers`); in removeReplicaFiles what comes earlier in the order is
unlinked already (`UnlinkedInOrder`); and the locals a step relies on are those of the
right step (`RemoteIsLocal`, `ComponentIsRead`). One lemma per action, `<Action>Keeps`,
shows that it keeps `Inv` and is a step or a stutter of `TrackedCopy`.

`RefreshedBeforeRecorded` compares what is recorded with what an earlier call recorded, so it
needs to know which version each of them is (`Versions`): the number of a content belongs to
one file, and what the row or the call in hand has of an XMP is the content its file has or
had, which a later edit only raises. Then `ChangeIsRead` holds from the refresh to the
record: a copy that is deleted meanwhile comes back with another id (`FreshIdTyped`), and a link
that is lost is not made again (`Meanwhile`). Two records of the same content are the same.

## WorkBatches

| variables | stand for |
| --- | --- |
| `row`, `saved` | the replica's state as far as it chooses the work; `work_cursors` |
| `plan`, `album`, `batch`, `pending` | the albums of the cycle, the one it is at, the batch in hand |
| `cursor`, `limit`, `left`, `attempted`, `auditFailed` | `batchCursor`, the limits of a pass, what remains of them, the reconciler's maps |
| `ensured` | history: items that ensureReplica was called for in this cycle |

`BatchAfter` is batchAfter on sets. `StartCycle` is startCycle with the choice of the audit
batch, `AuditItem`, `PrepareItem` and `LookUpItem` are one call each with any outcome,
`ChoosePrepare`, `SkipAttempted` and `ChooseLookup` the loop of reconcileMemberAssets around
them, `Finish` the end of applyPlans with SaveWorkCursors, and `Abort` everything that ends
a cycle early: the cursors that were moved are lost.

| run | instance | checks |
| --- | --- | --- |
| `batches` | three items in two overlapping albums or two in one, which may change from cycle to cycle; one audit, two preparations and one lookup per cycle | `TypeOK`, `BudgetKept`, `EnsuredOnce`, `AuditsSweep`, `BacklogDrains` |

Each limit is below the number of items, so every batch wraps; two albums share a limit
and an item.

- `BudgetKept`, `EnsuredOnce`: the limits hold across albums, and ensureReplica runs at most
  once for an item, although it may be audited, re-imported and be in two albums.
- `AuditsSweep`: an item that stays ready and shared is audited again and again if some
  cycles complete, however many others are aborted.
- `BacklogDrains`: a waiting item is attempted again and again once earlier albums have no
  work of that kind. The condition is needed: albums are served in a fixed order from one
  limit, and work of an earlier album that never succeeds can use it up in every cycle.

No fairness is assumed; the two liveness properties name what they need (`Completes`).

`WorkBatches_proofs` proves, for any finite set of items, any plans and positive limits,
`TypeCorrect` (`TypeOK`), `WithinLimits` (`BudgetKept`) and `NeverEnsuredTwice` (`EnsuredOnce`):

- `BatchIs`: BatchAfter, written by the rank of an id in the cursor's order, lists
  without repetition as many ids as the limit and the set allow. It rests on `EarlierOrders`
  (the order from a cursor is total) and `RankPlaces` (ranks are exactly the places).
- The invariant adds to `TypeOK` and `BudgetKept`: what a cycle keeps in memory is gone when
  it ends (`Forgotten`); no item is twice in a batch, and the rest of an audit was not audited
  yet (`BatchInOrder`); the rest of a batch of preparations failed no audit and needs its
  preparation, or was attempted for an earlier album (`PreparesInOrder`); and an item that
  ensureReplica was called for is in `attempted` or `auditFailed`, or in a state that
  no batch of preparations is chosen from (`EnsuredIsMarked`). The last is what `EnsuredOnce`
  comes from: no single map of the reconciler would suffice.

## ScanLease

| variables | stand for |
| --- | --- |
| `linked`, `imported`, `queued`, `crawl`, `refreshed` | files, assets, Immich's queue and running crawl, the library's refreshedAt |
| `row`, `ready` | `library_scan_state`, replicas whose asset was found |
| `at`, `since`, `read`, `last` | per process: where requestLibraryScan is, its `now`, its baseline, `lastScanAt` |
| `ack`, `stale` | history: the last acknowledged scan, and whether a claim was made with another baseline |

`StartRequest`, `ReadLibrary`, `Claim` or `NoClaim`, `RequestScan` or `RequestFails`, `Release`
are the statements of requestLibraryScan, with those of a second process, `Crash` (which
forgets `lastScanAt`), Immich's crawls, `LoseScans` (its restart) and `Tick` in between.
Instants are ages in ticks, cut off where nothing compares them any more; refreshedAt is
compared for equality only, so its values are ranks.

| run | instance | checks |
| --- | --- | --- |
| `scans` | two processes, one file, interval 1, lease 2, calls of at most one tick, two faults; 0.36 million states | `TypeOK`, `SingleFlightWhenKnown`, `FilesImported` |

The lease is longer than a call, as in the code (three requests of 20 s each against
minutes): that is the least instance in which a claim can lapse between two calls and not
within one. Two processes are a restarted bridge and the old one; two faults let a request
and the release of its claim both fail. That a user hides a copy from the lookup is in
`Replica`, not here.

- `SingleFlightWhenKnown`: no second scan is asked for while an acknowledged one has neither
  been seen to end nor outlived its lease, whatever releases, crashes and lapses interleave,
  among calls that know refreshedAt. A claim made while GetLibrary fails records none; the
  next call finds it "changed" and asks again.
- `FilesImported`: every linked file becomes a ready replica, also when the process that
  holds the claim dies, its request or the crawl is lost, or its release fails.

**Fairness**: each process goes on and looks pending files up again; Immich runs queued
crawls to their end; time passes.

`ScanLease_proofs` proves `TypeCorrect` (`TypeOK`) and `SingleFlight` (`SingleFlightWhenKnown`)
for any finite sets of processes and files and any lease longer than a call. What is
needed is whose claim the row is: a call that asks for a scan, and whose baseline is still
the library's, holds the row with its own age (`ClaimIsHeld`), and an acknowledged scan is what
the row is about until the library is refreshed or the lease ends (`AckIsHeld`). Both hold
until a claim is made with another baseline, which the property excepts. `HeldBound`
counts the values of refreshedAt that are held, which is why the ranks suffice.

## Stacks

| variables | stand for |
| --- | --- |
| `alive`, `stack`, `copies`, `stacks` | source assets and their stack, the recipient's assets and stacks, in Immich |
| `replica`, `unused`, `source`, `record` | ready replicas, those for cleanup, `source_stacks`, `stack_replicas` |
| `cache`, `pc`, `todo`, `key`, `wanted`, `made` | `stackCache` and the running pass |
| `seen`, `orphans`, `stale` | history: what the source stack was since the pass began; stacks created and not recorded; source stacks whose record speaks of a recipient stack that was dissolved behind it |

| step | actions | code |
| --- | --- | --- |
| begin | `RememberSourceStack`, `DiscoverSourceStacks`, `StartStacks` | rememberSourceStack, discoverSourceStacks, startCycle |
| read | `TakeStack`, `TakeMissing`, `ConfirmGone` | reconcileStacks, sourceStackGone |
| compare | `Compare`, `UpToDate`, `StackRecipientAssets` | reconcileStackReplica, stackRecipientAssets |
| replace | `DeleteRecipientStack`, `DeleteFails`, `InspectPrimary`, `CreateStack`, `CreateFails`, `WriteRecord` | deleteRecipientStack, CreateStack, UpsertStackReplica, DeleteSourceStack |
| rest | `CleanUpReplica`, `MarkUnused`, `ShareAsset`, `UnshareAsset`, `AuditReplica` | the rest of the cycle, as far as it changes replicas |

What Immich does with stacks (a creation takes assets out of others, a deleted primary or a
single remaining asset dissolves one) is taken from the fake client of the tests and from
the comments on Immich 3.2 in the code.

| run | instance | checks |
| --- | --- | --- |
| `stacks` | three photos, two stack ids one after the other, two edits, one fault; 0.27 million states | `TypeOK`, `WholeStacks`, `GoneConfirmed`, `StacksMirrored`, `StacksRemoved`, `IncompleteUnstacked` |
| `stuck_stack` | two photos, two edits, no fault | `CompleteMirrored` (violated) |

Three photos are the least number for which a stack survives the loss of a member; two
edits restack or unstack in the middle of a pass and again later; one fault is a lost
answer or a crash between a stack and its record.

- `WholeStacks`: what is created is the image of the whole source stack as it was at some
  time in the pass. `GoneConfirmed`: nothing is removed as gone on the strength of a failed
  read alone.
- `StacksMirrored`, `StacksRemoved`, `IncompleteUnstacked`: the recipient's stacks in Immich, not
  only the records of them, follow the source's last change, whatever failed, as long as the
  asset that proves the absence of a recorded stack can still be asked for (`Provable`, and
  the recorded source primary). Stacks whose creation was never recorded are excepted (`orphans`).
- `StacksMirrored` also excepts a stack that is missing behind a ready record which agrees
  with the source (`StaleImage`). The bridge compares the record only (`reconcile.go:799-800`) and
  never notices. There are two ways to get there: the recipient unstacks the photos; or the
  source is restacked, a pass deletes the old recipient stack and ends before it records that
  or creates the new one, and the source returns to the recorded form before the next pass.
  `stale` holds exactly these source stacks, so any other missing stack is a violation.
- `stuck_stack` shows why: the recipient deletes the copy that is the primary of a mirrored
  two-photo stack; the bridge imports the copy again under a new id; now the old stack can
  neither be deleted nor proved deleted, every pass ends in the same error, and the stack is
  never made again.

**Fairness**: the pass goes on, and full passes start again and again.

`Stacks_proofs` proves `TypeCorrect` (`TypeOK`), `CreatedWhole` (`WholeStacks`) and
`RemovedOnlyGone` (`GoneConfirmed`) for any numbers of assets, ids, edits and faults, as long as
there is always another id for a stack (`IdsAssumption`; the run has six, one more than it needs).
The invariant says of the memory of a pass that it is true of some time since the pass began:
what the cache holds the source stack has been (`SeenIsSince`), what the pass wants at
the recipient is the image of such a stack, or nothing because its recorded primary was in
none (`WantedWasSeen`). `WorkIsKnown` ties this to the place the pass is at, and `StacksExist`
(recipient stacks have existing members and share none) bounds their number.

## AlbumLifecycle

### State and code

| variables | stand for |
| --- | --- |
| `remote`, `lost`, `trashed` | Immich albums (owner, shared with Together, description tag, photos), photos deleted for good, and photos in the trash |
| `registered`, `replica`, `marker`, `archive` | `logical_albums`, `album_replicas`, `album_marker_observations`, `album_deletions` |
| `job` | the call or cycle that holds the mutex: its phase, the operation under way, and what it keeps in memory |
| `asked`, `taken`, `spent` | history for properties and bounds |

| operation | actions | code |
| --- | --- | --- |
| unmirror | `ArchiveRead`, `BeginAlbumDeletion`, `DeleteRemote`, `SaveDeleted`, `FinishDeletion` | unmirrorAlbum, finishAlbumDeletion |
| restore | `FindOrCreateRestored`, `SaveRestoredAlbum`, `FillRestored`, `VerifyRestored`, `DescribeRestored`, `MapRestored`, `EnsureShare`, `RecordAlbumMarker`, `SaveRestored`, `FinishAlbumRestore` | finishAlbumRestore, ensureTogetherShare |
| mirror | `LookAtReplica`, `CreateReplica`, `SetAlbumReplica`, `EnsureShare`, `RecordAlbumMarker`, `FinishEnsure` | ensureAlbumReplicas |
| cycle | `StartCycle`, `ResumeNext`, `CheckMarker`, `UnmirrorNext`, `ListShared`, `RegisterFound`, `MirrorNext` | Run; Work up to resumeAlbumOperations |
| API | `CallUnmirror`, `CallRestore`, `CallRegister`, `CallRegisterAgain` | UnmirrorAlbum, RestoreAlbum, RegisterWithReplicas |
| environment | `UserShare` ... `UserRestorePhoto`, `Fault` | members; crashes, cancellation, failed requests |

Each request to Immich and each transaction is a step, so that users may act and the
process may stop between any two. The deletion of an album reads it and deletes it in
one step, and the filling of a restored one validates and adds its photos in one,
because a photo or album that vanishes between the two requests is treated as one
that had vanished before. A photo in the trash stays in its albums and is not listed (`Shown`), so
it is not archived; GetAsset finds it, so a restoration adds it. API calls that are rejected change nothing and are left out. One rank of
albums stands for the order of ids and for that of names. Together is registered, with
a mirror for every member that nobody deletes; the `Init` of a run is a settled bridge.

### Runs

| run | instance | checks |
| --- | --- | --- |
| `lifecycle` | two members, Together, one mirrored album, one more that can be shared; up to four API calls (a user edit takes the place of two), one fault; 0.12 million states | `TypeOK`, `ArchiveAgrees`, `ArchivedNotRediscovered`, `OneRestoredAlbum`, `DeletesOnlyRequested`, `ContentsRestored`, `Resumes` |

Two calls and an edit unmirror an album, restore it and interfere at any step; four
calls do so twice, which is what could confuse two restoration tokens; one fault
splits each of these once. Ten remote albums and four logical ones are more than
these bounds can create: TLC would report a deadlock where one is missing.

- `ArchiveAgrees`: archive record, mapping and Immich agree whenever an operation is
  interrupted. `ArchivedNotRediscovered`: half deleted mirrors are not registered anew.
- `OneRestoredAlbum`: retries of a restoration never create a second album.
  `ContentsRestored`: the archive is dropped only when everything in it is back.
- `DeletesOnlyRequested`: no remote album is deleted unless it is archived and somebody asked.
- `Resumes`: for good, either nothing is half done and all albums are mirrored, shared
  and registered, or a user has blocked the bridge (a deleted mirror, which README.md
  documents as an error, an archived photo in the trash, or interference with a restored
  album before it is recorded).

A photo that its member trashes between the archiving and the end of the restoration
is found by GetAsset, added to the new album and not listed there, so finishAlbumRestore
fails with "restored album is missing asset after addition" (`album_deletions.go:286`). Every
Run and Work resumes restorations first, so nothing is reconciled until the member restores the
photo or deletes it for good. Trashing and deleting are edits and cost one each; restoring is
free.

One such interference is a user who removes the share of a restored album after it was
confirmed, when the process stops before the album is recorded as restored: every later
cycle fails on that restoration (`album_sharing.go:38`), and the discovery that should
unmirror the album is never reached.

**Fairness**: calls and cycles go on (time-outs), a cycle starts after each interval, and
full cycles start again and again.

### Proofs

`AlbumLifecycle_proofs` proves, for any members, albums, photos, bounds and settled
beginnings that satisfy `LifecycleAssumption`:

| theorem | statement |
| --- | --- |
| `TypeCorrect` | `Spec => []TypeOK` |
| `ArchivesAgree` | `Spec => []ArchiveAgrees` |
| `NotRediscovered` | `Spec => []ArchivedNotRediscovered` |
| `RestoredOnce` | `Spec => []OneRestoredAlbum` |
| `DeletedOnRequest` | `Spec => DeletesOnlyRequested` |
| `RestoredComplete` | `Spec => ContentsRestored` |

A crash keeps Immich and SQLite and drops the job, so the invariant has two halves.
`StateInv` is about what is left by a crash anywhere: mirrors exist and mirror one album each
(`MirrorsExist`, `MirrorsUnique`, `RegisteredAreMirrored`), a confirmed share is one of the mapped
mirror (`MarkersConfirmed`), and `ArchiveInOrder` says for each state of an archive, and for
each member with and without its new album recorded, what is deleted, mapped, filled and
untagged; the properties are parts or consequences of it. `JobInv` is about the process:
a phase runs its own operations (`PhaseInOrder`), what it has queued is to be done
when its turn comes although other operations ran before (`QueueInOrder`), and an operation
has done for the members it left behind what its next step relies on (`OperationInOrder`).
`Fault` needs `StateInv` only, which is why it is separate.

## What is proved and what is only checked

Proved for all constants: the type invariant and all safety and action properties of every
specification, and the refinement of `TrackedCopy`, with these limits:

- `RemovalHonoured` is proved as long as the trash is unused (`RemovalsStand`), and checked
  beyond.
- All liveness stays with TLC: fairness and ENABLED are out of the prover's reach.

The proofs make no assumption beside those named in the modules: ids are numbers, the
orders of albums and members have ranks, sets are finite where they are counted, `None` is no
value of the tables, and the lease is longer than a call. TLC evaluates all of them in every run.

Every property of a passing run has a mutant in `PROJECT.json`.

## Not modelled, and plan

In this order:
1. `RemovalHonoured` with a trash.
2. An abstract sharing specification (users' intents in, one shared set out) that
   `Membership` implements, and an abstract two-phase album operation for `AlbumLifecycle`.
3. Covers, names and descriptions (resolveAlbumCover, applyMetadata).
4. In `Replica`: the owner's own component rows, rebindOriginPath, and files at the
   destination that are not the bridge's.

Not planned: configuration parsing, HTTP routing and authentication, wire formats,
dry run, link resolution (sequential, stateless, covered by unit tests); path and symlink
checks of the file system; the interval of sidecar discovery.
