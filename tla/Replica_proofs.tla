--------------------------- MODULE Replica_proofs ---------------------------
(* Replica keeps the promise of TrackedCopy, and records no change of an   *)
(* XMP that Immich has not read, for any bounds and settings.              *)
EXTENDS Replica, TLAPS

-----------------------------------------------------------------------------
(* The inductive invariant: what the row says wherever a crash may strike. *)

\* The cycle is between the claim and the end of ensureRecipientComponents.
Linking ==
    {"link", "record", "linkSidecar", "component", "refresh", "recordSidecar", "settle"}

\* The cycle takes the copy back.
Unlinking == {"delete", "deleted", "unlinkSidecar", "unlink", "forget"}

\* A media file in the library has a row that names its path.
LinkedIsClaimed == link.original # 0 => row.path

\* What was read of the copy is forgotten when the function is left.
RemoteIsLocal == work.remote # None => pc \in Linking

\* The row does not change while the files are linked.
RowOfLinking ==
    pc \in Linking =>
        IF work.remote = None THEN row.state = "pending_link" ELSE WasReady

\* Each of the other functions is entered with a row in its states.
RowOfOthers ==
    /\ pc = "recipient" => WasReady
    /\ pc = "lookup" => row.state = "pending_import"
    /\ pc \in Unlinking => row.state \in {"pending_removal", "deleting"}

\* Companions are unlinked first, the media file after them, the row last.
UnlinkedInOrder ==
    /\ pc \in {"unlink", "forget"} /\ files.sidecar # None => link.sidecar = 0
    /\ pc = "forget" => link.original = 0

\* What is recorded of the XMP has been read.
ComponentIsRead == pc \in {"refresh", "recordSidecar"} => work.component \in Components

Inv ==
    /\ TypeOK
    /\ LinkedIsClaimed /\ RemoteIsLocal /\ RowOfLinking /\ RowOfOthers
    /\ UnlinkedInOrder /\ ComponentIsRead

-----------------------------------------------------------------------------
(* What the state is made of. *)

\* No file, and the file that the next edit writes.
LEMMA InodeFacts ==
    /\ 0 \in Inodes
    /\ \A e \in 0 .. MaxEdits : e < MaxEdits => e + 1 \in Inodes \ {0}
BY ReplicaAssumption DEF Inodes

\* One of the files changes.
LEMMA FileTyped ==
    ASSUME NEW S, NEW f \in [Kinds -> S], NEW v \in S, NEW k \in Kinds
    PROVE  [f EXCEPT ![k] = v] \in [Kinds -> S]
OBVIOUS

\* The copy is deleted; it is read, imported or restored.
LEMMA CopyTyped ==
    ASSUME NEW c \in Copies, NEW b \in BOOLEAN, NEW x \in Inodes
    PROVE  /\ NoCopy \in Copies
           /\ [c EXCEPT !.trashed = b] \in Copies
           /\ [c EXCEPT !.stacked = b] \in Copies
           /\ [c EXCEPT !.xmp = x] \in Copies
BY InodeFacts DEF Copies, NoCopy

\* A fresh id is one of a copy, and not the recorded one.
LEMMA FreshIdTyped == ASSUME TypeOK PROVE FreshId \in CopyIds /\ FreshId # row.id
<1>1. row.id \in CopyIds \cup {0} /\ work.id \in CopyIds \cup {0}
    BY DEF TypeOK, TablesTypeOK, ProcessTypeOK, Rows, Locals
<1>2. CASE work.remote = None
    <2>1. \E i \in CopyIds : i \notin {row.id, work.id, 0}
        BY <1>1, ReplicaAssumption
    <2> QED
        BY <1>2, <2>1 DEF FreshId
<1>3. CASE work.remote # None
    <2>1. work.remote.id \in CopyIds
        BY <1>3 DEF TypeOK, ProcessTypeOK, Locals, Remotes
    <2>2. \E i \in CopyIds : i \notin {row.id, work.id, work.remote.id}
        BY <1>1, <2>1, ReplicaAssumption
    <2> QED
        BY <1>3, <2>2 DEF FreshId
<1> QED
    BY <1>2, <1>3

\* What is written in the linked XMP.
LEMMA WrittenTyped == ASSUME AccountsTypeOK PROVE Written \in Inodes
BY InodeFacts DEF AccountsTypeOK, Written, Kinds

\* A row may go on to another state.
LEMMA RowTyped ==
    ASSUME NEW r \in Rows, NEW s \in {"error", "ready", "pending_import", "pending_removal"}
    PROVE  [r EXCEPT !.state = s] \in Rows
BY DEF Rows

\* What a step may do, seen from TrackedCopy.
Kept == [Promise!Next]_(Promise!vars)

\* The copy's record does not depend on the original.
LEMMA OwnerEditKeeps == ASSUME Inv, OwnerEdit PROVE Inv' /\ Kept
<1> USE ReplicaAssumption, NoneAssumption DEF Inv, TypeOK
<1>1. AccountsTypeOK'
    BY DEF OwnerEdit, Edit, tables, AccountsTypeOK
<1>2. TablesTypeOK'
    BY DEF OwnerEdit, Edit, tables, TablesTypeOK
<1>3. ProcessTypeOK'
    BY DEF OwnerEdit, Edit, ProcessTypeOK
<1>4. LinkedIsClaimed' /\ RemoteIsLocal' /\ RowOfLinking'
    BY DEF OwnerEdit, Edit, tables, WasReady, LinkedIsClaimed, RemoteIsLocal,
       RowOfLinking
<1>5. RowOfOthers' /\ UnlinkedInOrder' /\ ComponentIsRead'
    BY DEF OwnerEdit, Edit, tables, WasReady, LinkedIsClaimed, RowOfOthers,
       UnlinkedInOrder, ComponentIsRead
<1>6. Kept
    BY DEF OwnerEdit, tables, Kept, Promise!vars
<1> QED
    BY <1>1, <1>2, <1>3, <1>4, <1>5, <1>6

\* The link keeps the inode of an original that Immich unlinks.
LEMMA OriginUnlinkedKeeps == ASSUME Inv, OriginUnlinked PROVE Inv' /\ Kept
<1> USE ReplicaAssumption, NoneAssumption DEF Inv, TypeOK
<1>1. AccountsTypeOK'
    BY InodeFacts DEF OriginUnlinked, tables, AccountsTypeOK, Kinds
<1>2. TablesTypeOK'
    BY DEF OriginUnlinked, tables, TablesTypeOK
<1>3. ProcessTypeOK'
    BY DEF OriginUnlinked, tables, ProcessTypeOK, AccountsTypeOK, TablesTypeOK
<1>4. LinkedIsClaimed' /\ RemoteIsLocal' /\ RowOfLinking'
    BY DEF OriginUnlinked, tables, WasReady, LinkedIsClaimed, RemoteIsLocal,
       RowOfLinking
<1>5. RowOfOthers' /\ UnlinkedInOrder' /\ ComponentIsRead'
    BY DEF OriginUnlinked, tables, WasReady, RowOfLinking, RowOfOthers, UnlinkedInOrder,
       ComponentIsRead
<1>6. Kept
    BY DEF OriginUnlinked, tables, Kept, Promise!vars
<1> QED
    BY <1>1, <1>2, <1>3, <1>4, <1>5, <1>6

\* A new XMP has an inode of its own.
LEMMA NewSidecarKeeps == ASSUME Inv, NewSidecar PROVE Inv' /\ Kept
<1> USE ReplicaAssumption, NoneAssumption DEF Inv, TypeOK
<1>1. AccountsTypeOK'
    <2>1. edits + 1 \in Inodes \ {0} /\ edits + 1 \in Inodes
        BY InodeFacts DEF NewSidecar, WriteSidecar, Edit, ProcessTypeOK
    <2>2. source' = [source EXCEPT !["sidecar"] = edits + 1]
        BY DEF NewSidecar, WriteSidecar
    <2>3. source' \in [Kinds -> Inodes]
        BY <2>1, <2>2, FileTyped DEF AccountsTypeOK, Kinds
    <2>4. content' \in [Inodes \ {0} -> Inodes]
        BY <2>1 DEF NewSidecar, WriteSidecar, AccountsTypeOK
    <2> QED
        BY <2>3, <2>4 DEF NewSidecar, WriteSidecar, AccountsTypeOK
<1>2. TablesTypeOK'
    BY DEF NewSidecar, WriteSidecar, Edit, tables, TablesTypeOK
<1>3. ProcessTypeOK'
    BY DEF NewSidecar, WriteSidecar, Edit, ProcessTypeOK
<1>4. LinkedIsClaimed' /\ RemoteIsLocal' /\ RowOfLinking'
    BY DEF NewSidecar, WriteSidecar, Edit, tables, WasReady, LinkedIsClaimed,
       RemoteIsLocal, RowOfLinking
<1>5. RowOfOthers' /\ UnlinkedInOrder' /\ ComponentIsRead'
    BY DEF NewSidecar, WriteSidecar, Edit, tables, WasReady, LinkedIsClaimed,
       RowOfOthers, UnlinkedInOrder, ComponentIsRead, Unlinking
<1>6. Kept
    BY DEF NewSidecar, WriteSidecar, tables, Kept, Promise!vars
<1> QED
    BY <1>1, <1>2, <1>3, <1>4, <1>5, <1>6

\* An edit in place keeps the inode.
LEMMA EditSidecarKeeps == ASSUME Inv, EditSidecar PROVE Inv' /\ Kept
<1> USE ReplicaAssumption, NoneAssumption DEF Inv, TypeOK
<1>1. AccountsTypeOK'
    <2>1. source.sidecar \in Inodes \ {0} /\ edits + 1 \in Inodes
        BY InodeFacts DEF EditSidecar, WriteSidecar, Edit, AccountsTypeOK,
           ProcessTypeOK, Kinds
    <2>2. source' = [source EXCEPT !["sidecar"] = source.sidecar]
        BY DEF EditSidecar, WriteSidecar
    <2>3. source' \in [Kinds -> Inodes]
        BY <2>1, <2>2, FileTyped DEF AccountsTypeOK, Kinds
    <2>4. content' \in [Inodes \ {0} -> Inodes]
        BY <2>1 DEF EditSidecar, WriteSidecar, AccountsTypeOK
    <2> QED
        BY <2>3, <2>4 DEF EditSidecar, WriteSidecar, AccountsTypeOK
<1>2. TablesTypeOK'
    BY DEF EditSidecar, WriteSidecar, Edit, tables, TablesTypeOK
<1>3. ProcessTypeOK'
    BY DEF EditSidecar, WriteSidecar, Edit, ProcessTypeOK
<1>4. LinkedIsClaimed' /\ RemoteIsLocal' /\ RowOfLinking'
    BY DEF EditSidecar, WriteSidecar, Edit, tables, WasReady, LinkedIsClaimed,
       RemoteIsLocal, RowOfLinking
<1>5. RowOfOthers' /\ UnlinkedInOrder' /\ ComponentIsRead'
    BY DEF EditSidecar, WriteSidecar, Edit, tables, WasReady, LinkedIsClaimed,
       RowOfOthers, UnlinkedInOrder, ComponentIsRead, Unlinking
<1>6. Kept
    BY DEF EditSidecar, WriteSidecar, tables, Kept, Promise!vars
<1> QED
    BY <1>1, <1>2, <1>3, <1>4, <1>5, <1>6

\* For the promise, a deleted copy disappears.
LEMMA RecipientEditKeeps == ASSUME Inv, RecipientEdit PROVE Inv' /\ Kept
<1> USE ReplicaAssumption, NoneAssumption DEF Inv, TypeOK
<1>1. AccountsTypeOK'
    <2>1. copy.trashed \in BOOLEAN /\ copy.stacked \in BOOLEAN
        BY DEF AccountsTypeOK, Copies
    <2>2. copy' \in Copies
        BY <2>1, CopyTyped, InodeFacts DEF RecipientEdit, AccountsTypeOK
    <2> QED
        BY <2>2 DEF RecipientEdit, AccountsTypeOK
<1>2. TablesTypeOK'
    BY DEF RecipientEdit, Edit, NoCopy, tables, TablesTypeOK
<1>3. ProcessTypeOK'
    BY DEF RecipientEdit, Edit, ProcessTypeOK
<1>4. LinkedIsClaimed' /\ RemoteIsLocal' /\ RowOfLinking'
    BY DEF RecipientEdit, tables, WasReady, LinkedIsClaimed, RemoteIsLocal, RowOfLinking
<1>5. RowOfOthers' /\ UnlinkedInOrder' /\ ComponentIsRead'
    BY DEF RecipientEdit, tables, WasReady, LinkedIsClaimed, RowOfOthers,
       UnlinkedInOrder, ComponentIsRead, Unlinking
<1>6. Kept
    BY DEF RecipientEdit, tables, Kept, Promise!vars, Promise!Next, Promise!Disappear
<1> QED
    BY <1>1, <1>2, <1>3, <1>4, <1>5, <1>6

\* A decision is read when the cycle comes to the copy.
LEMMA DecideKeeps == ASSUME Inv, Decide PROVE Inv' /\ Kept
<1> USE ReplicaAssumption, NoneAssumption DEF Inv, TypeOK
<1>1. AccountsTypeOK'
    BY DEF Decide, Edit, accounts, AccountsTypeOK
<1>2. TablesTypeOK'
    BY DEF Decide, Edit, accounts, TablesTypeOK
<1>3. ProcessTypeOK'
    BY DEF Decide, Edit, ProcessTypeOK
<1>4. LinkedIsClaimed' /\ RemoteIsLocal' /\ RowOfLinking'
    BY DEF Decide, Edit, accounts, LinkedIsClaimed, RemoteIsLocal, RowOfLinking, Linking
<1>5. RowOfOthers' /\ UnlinkedInOrder' /\ ComponentIsRead'
    BY DEF Decide, RowOfOthers, UnlinkedInOrder, ComponentIsRead
<1>6. Kept
    BY DEF Decide, accounts, Kept, Promise!vars
<1> QED
    BY <1>1, <1>2, <1>3, <1>4, <1>5, <1>6

\* As above, for a deleted original.
LEMMA DecideOwnerDeletedKeeps == ASSUME Inv, DecideOwnerDeleted PROVE Inv' /\ Kept
<1> USE ReplicaAssumption, NoneAssumption DEF Inv, TypeOK
<1>1. AccountsTypeOK'
    BY DEF DecideOwnerDeleted, accounts, AccountsTypeOK
<1>2. TablesTypeOK'
    BY DEF DecideOwnerDeleted, accounts, TablesTypeOK
<1>3. ProcessTypeOK'
    BY DEF DecideOwnerDeleted, accounts, ProcessTypeOK, AccountsTypeOK, TablesTypeOK
<1>4. LinkedIsClaimed' /\ RemoteIsLocal' /\ RowOfLinking'
    BY DEF DecideOwnerDeleted, accounts, LinkedIsClaimed, RemoteIsLocal, RowOfLinking,
       Linking
<1>5. RowOfOthers' /\ UnlinkedInOrder' /\ ComponentIsRead'
    BY DEF DecideOwnerDeleted, RowOfOthers, UnlinkedInOrder, ComponentIsRead
<1>6. Kept
    BY DEF DecideOwnerDeleted, accounts, Kept, Promise!vars
<1> QED
    BY <1>1, <1>2, <1>3, <1>4, <1>5, <1>6

\* A ready row goes on to another state in which there is a row.
LEMMA DecideRepairKeeps == ASSUME Inv, DecideRepair PROVE Inv' /\ Kept
<1> USE ReplicaAssumption, NoneAssumption DEF Inv, TypeOK
<1>1. AccountsTypeOK'
    BY DEF DecideRepair, accounts, AccountsTypeOK
<1>2. TablesTypeOK'
    BY DEF DecideRepair, accounts, TablesTypeOK, Rows
<1>3. ProcessTypeOK'
    BY DEF DecideRepair, accounts, ProcessTypeOK, AccountsTypeOK, TablesTypeOK
<1>4. LinkedIsClaimed' /\ RemoteIsLocal' /\ RowOfLinking'
    BY DEF DecideRepair, accounts, LinkedIsClaimed, RemoteIsLocal, RowOfLinking, Linking
<1>5. RowOfOthers' /\ UnlinkedInOrder' /\ ComponentIsRead'
    BY DEF DecideRepair, RowOfOthers, UnlinkedInOrder, ComponentIsRead
<1>6. Kept
    BY DEF DecideRepair, accounts, Kept, Promise!vars
<1> QED
    BY <1>1, <1>2, <1>3, <1>4, <1>5, <1>6

\* Immich imports only a linked media file.
LEMMA ImportKeeps == ASSUME Inv, Import PROVE Inv' /\ Kept
<1> USE ReplicaAssumption, NoneAssumption DEF Inv, TypeOK
<1>1. AccountsTypeOK'
    <2>1. FreshId \in CopyIds /\ Written \in Inodes
        BY FreshIdTyped, WrittenTyped
    <2>2. copy' \in Copies
        BY <2>1 DEF Import, Copies
    <2> QED
        BY <2>2 DEF Import, AccountsTypeOK
<1>2. TablesTypeOK'
    BY DEF Import, tables, TablesTypeOK
<1>3. ProcessTypeOK'
    BY DEF Import, tables, ProcessTypeOK, AccountsTypeOK, TablesTypeOK
<1>4. LinkedIsClaimed' /\ RemoteIsLocal' /\ RowOfLinking'
    BY DEF Import, tables, WasReady, LinkedIsClaimed, RemoteIsLocal, RowOfLinking
<1>5. RowOfOthers' /\ UnlinkedInOrder' /\ ComponentIsRead'
    BY DEF Import, tables, WasReady, RowOfLinking, RowOfOthers, UnlinkedInOrder,
       ComponentIsRead
<1>6. Kept
    BY DEF Import, tables, Kinds, LinkedIsClaimed, Kept, Promise!vars, Promise!Next,
       Promise!Import
<1> QED
    BY <1>1, <1>2, <1>3, <1>4, <1>5, <1>6

\* Immich reads an XMP that is there.
LEMMA DiscoverSidecarsKeeps == ASSUME Inv, DiscoverSidecars PROVE Inv' /\ Kept
<1> USE ReplicaAssumption, NoneAssumption DEF Inv, TypeOK
<1>1. AccountsTypeOK'
    BY DEF DiscoverSidecars, Written, AccountsTypeOK, Copies, Kinds
<1>2. TablesTypeOK'
    BY DEF DiscoverSidecars, Written, tables, TablesTypeOK
<1>3. ProcessTypeOK'
    BY DEF DiscoverSidecars, ProcessTypeOK
<1>4. LinkedIsClaimed' /\ RemoteIsLocal' /\ RowOfLinking'
    BY DEF DiscoverSidecars, Written, tables, WasReady, LinkedIsClaimed, RemoteIsLocal,
       RowOfLinking
<1>5. RowOfOthers' /\ UnlinkedInOrder' /\ ComponentIsRead'
    BY DEF DiscoverSidecars, Written, tables, WasReady, LinkedIsClaimed, RowOfOthers,
       UnlinkedInOrder, ComponentIsRead
<1>6. Kept
    BY DEF DiscoverSidecars, tables, Kept, Promise!vars
<1> QED
    BY <1>1, <1>2, <1>3, <1>4, <1>5, <1>6

\* For the promise, Immich's deletion of a file removes it.
LEMMA DeleteFileKeeps == ASSUME Inv, NEW k \in Kinds, DeleteFile(k) PROVE Inv' /\ Kept
<1> USE ReplicaAssumption, NoneAssumption DEF Inv, TypeOK
<1>1. AccountsTypeOK'
    BY InodeFacts, FileTyped DEF DeleteFile, AccountsTypeOK
<1>2. TablesTypeOK'
    BY DEF DeleteFile, tables, TablesTypeOK
<1>3. ProcessTypeOK'
    BY DEF DeleteFile, tables, ProcessTypeOK, AccountsTypeOK, TablesTypeOK
<1>4. LinkedIsClaimed' /\ RemoteIsLocal' /\ RowOfLinking'
    BY DEF DeleteFile, tables, WasReady, LinkedIsClaimed, RemoteIsLocal, RowOfLinking,
       ComponentIsRead
<1>5. RowOfOthers' /\ UnlinkedInOrder' /\ ComponentIsRead'
    BY DEF DeleteFile, tables, TablesTypeOK, AccountsTypeOK, Kinds, WasReady, NoRow,
       Locals, RowOfLinking, RowOfOthers, UnlinkedInOrder, ComponentIsRead
<1>6. Kept
  <2>1. \A j \in Kinds : link'[j] = IF j = k THEN 0 ELSE link[j]
    BY DEF DeleteFile, AccountsTypeOK
  <2>2. Promise!Remove(k)
    BY <2>1 DEF DeleteFile, tables, Promise!Remove
  <2> QED
    BY <2>2 DEF Kept, Promise!Next
<1> QED
    BY <1>1, <1>2, <1>3, <1>4, <1>5, <1>6

\* Nothing is in hand yet.
LEMMA StartCycleKeeps == ASSUME Inv, StartCycle PROVE Inv' /\ Kept
<1> USE ReplicaAssumption, NoneAssumption DEF Inv, TypeOK
<1>1. AccountsTypeOK'
    BY DEF StartCycle, Keeps, GoOn, AccountsTypeOK
<1>2. TablesTypeOK'
    BY DEF StartCycle, Keeps, GoOn, TablesTypeOK
<1>3. ProcessTypeOK'
    BY DEF StartCycle, Keeps, GoOn, ProcessTypeOK, Places
<1>4. LinkedIsClaimed' /\ RemoteIsLocal' /\ RowOfLinking'
    BY DEF StartCycle, Keeps, GoOn, LinkedIsClaimed, RemoteIsLocal, RowOfLinking,
       Linking
<1>5. RowOfOthers' /\ UnlinkedInOrder' /\ ComponentIsRead'
    BY DEF StartCycle, Keeps, GoOn, LinkedIsClaimed, RowOfOthers, UnlinkedInOrder,
       ComponentIsRead, Unlinking
<1>6. Kept
    BY DEF StartCycle, Kept, Promise!vars
<1> QED
    BY <1>1, <1>2, <1>3, <1>4, <1>5, <1>6

\* A function is entered with a row in its states.
LEMMA ApplyKeeps == ASSUME Inv, Apply PROVE Inv' /\ Kept
<1> USE ReplicaAssumption, NoneAssumption DEF Inv, TypeOK
<1>1. AccountsTypeOK'
    BY DEF Apply, Keeps, GoOn, AccountsTypeOK
<1>2. TablesTypeOK'
    BY DEF Apply, Keeps, GoOn, TablesTypeOK
<1>3. ProcessTypeOK'
    BY DEF Apply, Keeps, GoOn, ProcessTypeOK, Places
<1>4. LinkedIsClaimed' /\ RemoteIsLocal' /\ RowOfLinking'
    BY DEF Apply, Keeps, GoOn, LinkedIsClaimed, RemoteIsLocal, RowOfLinking, Linking
<1>5. RowOfOthers' /\ UnlinkedInOrder' /\ ComponentIsRead'
    BY DEF Apply, Keeps, GoOn, LinkedIsClaimed, RowOfOthers, UnlinkedInOrder,
       ComponentIsRead, Unlinking
<1>6. Kept
    BY DEF Apply, Kept, Promise!vars
<1> QED
    BY <1>1, <1>2, <1>3, <1>4, <1>5, <1>6

\* A failed inspection may leave a row in error: the claim of an unclaimed copy.
LEMMA InspectOriginKeeps == ASSUME Inv, InspectOrigin PROVE Inv' /\ Kept
<1> USE ReplicaAssumption, NoneAssumption DEF Inv, TypeOK
<1>1. AccountsTypeOK'
    BY DEF InspectOrigin, Keeps, AccountsTypeOK
<1>2. TablesTypeOK'
    BY DEF InspectOrigin, SourceError, Keeps, TablesTypeOK, Rows
<1>3. ProcessTypeOK'
    <2>1. [work EXCEPT !.sidecar = source.sidecar # 0] \in Locals /\ Idle \in Locals
        BY ReplicaAssumption DEF Locals, ProcessTypeOK, Idle
    <2>2. work' \in Locals
        BY <2>1 DEF InspectOrigin, Leave
    <2>3. pc' \in Places
        BY DEF InspectOrigin, Leave, Places
    <2> QED
        BY <2>2, <2>3 DEF InspectOrigin, Keeps, ProcessTypeOK
<1>4. LinkedIsClaimed' /\ RemoteIsLocal' /\ RowOfLinking'
    <2>1. pc = "origin" /\ pc' \notin Linking
        BY DEF InspectOrigin, Leave, Linking
    <2>2. work.remote = None
        BY <2>1 DEF RemoteIsLocal, Linking
    <2>3. work'.remote = None
        BY <2>2 DEF InspectOrigin, Leave, Idle, ProcessTypeOK, Locals
    <2>4. row'.path = row.path /\ link' = link
        BY DEF InspectOrigin, SourceError, Keeps, TablesTypeOK, Rows
    <2> QED
        BY <2>1, <2>3, <2>4 DEF LinkedIsClaimed, RemoteIsLocal, RowOfLinking
<1>5. RowOfOthers' /\ UnlinkedInOrder' /\ ComponentIsRead'
    BY DEF InspectOrigin, WasReady, Leave, LinkedIsClaimed, RowOfOthers,
       UnlinkedInOrder, ComponentIsRead, Linking, Unlinking
<1>6. Kept
    BY DEF InspectOrigin, SourceError, Kept, Promise!vars, Promise!Next, Promise!Claim
<1> QED
    BY <1>1, <1>2, <1>3, <1>4, <1>5, <1>6

\* As above, when the request itself fails.
LEMMA InspectOriginFailsKeeps == ASSUME Inv, InspectOriginFails PROVE Inv' /\ Kept
<1> USE ReplicaAssumption, NoneAssumption DEF Inv, TypeOK
<1>1. AccountsTypeOK'
    BY DEF InspectOriginFails, Keeps, AccountsTypeOK
<1>2. TablesTypeOK'
    BY DEF InspectOriginFails, SourceError, Keeps, TablesTypeOK, Rows
<1>3. ProcessTypeOK'
    <2>1. Idle \in Locals
        BY DEF Locals, Idle
    <2> QED
        BY <2>1, ReplicaAssumption DEF InspectOriginFails, Fails, Leave, Keeps, Places,
           ProcessTypeOK
<1>4. LinkedIsClaimed' /\ RemoteIsLocal' /\ RowOfLinking'
    BY DEF InspectOriginFails, Fails, SourceError, WasReady, Keeps, Leave, Idle,
       LinkedIsClaimed, RemoteIsLocal, RowOfLinking, Linking
<1>5. RowOfOthers' /\ UnlinkedInOrder' /\ ComponentIsRead'
    BY DEF InspectOriginFails, Keeps, Leave, LinkedIsClaimed, RowOfOthers,
       UnlinkedInOrder, ComponentIsRead, Unlinking
<1>6. Kept
    BY DEF InspectOriginFails, SourceError, Kept, Promise!vars, Promise!Next,
       Promise!Claim
<1> QED
    BY <1>1, <1>2, <1>3, <1>4, <1>5, <1>6

\* From here on the row stays as it is until the files are linked.
LEMMA InspectRecipientKeeps == ASSUME Inv, InspectRecipient PROVE Inv' /\ Kept
<1> USE ReplicaAssumption, NoneAssumption DEF Inv, TypeOK
<1>1. AccountsTypeOK'
    <2>1. copy' \in Copies
        BY CopyTyped, InodeFacts DEF InspectRecipient, AccountsTypeOK
    <2> QED
        BY <2>1 DEF InspectRecipient, Keeps, AccountsTypeOK
<1>2. TablesTypeOK'
    BY DEF InspectRecipient, Remotes, Keeps, GoOn, TablesTypeOK
<1>3. ProcessTypeOK'
    <2>1. row.id \in CopyIds
        BY DEF InspectRecipient, RowOfOthers, WasReady, TablesTypeOK, Rows
    <2>2. copy.id = row.id => [id |-> copy.id, xmp |-> copy.xmp # 0] \in Remotes
        BY <2>1 DEF Remotes
    <2>3. work' \in Locals
        BY <2>2 DEF InspectRecipient, GoOn, ProcessTypeOK, Locals
    <2>4. pc' \in Places
        BY DEF InspectRecipient, GoOn, Places
    <2> QED
        BY <2>3, <2>4 DEF InspectRecipient, Keeps, ProcessTypeOK
<1>4. LinkedIsClaimed' /\ RemoteIsLocal' /\ RowOfLinking'
    <2>1. pc = "recipient" /\ WasReady
        BY DEF InspectRecipient, RowOfOthers
    <2>2. row' = row /\ link' = link
        BY DEF InspectRecipient
    <2>3. CASE copy.id = row.id
        <3>1. row.id \in CopyIds
            BY <2>1 DEF WasReady, TablesTypeOK, Rows
        <3>2. [id |-> copy.id, xmp |-> copy.xmp # 0] \in Remotes
            BY <2>3, <3>1 DEF Remotes
        <3>3. pc' = "link" /\ work'.remote # None
            BY <2>3, <3>2 DEF InspectRecipient, ProcessTypeOK, Locals
        <3> QED
            BY <2>1, <2>2, <3>3 DEF LinkedIsClaimed, RemoteIsLocal, RowOfLinking,
               Linking, WasReady
    <2>4. CASE copy.id # row.id
        BY <2>1, <2>2, <2>4 DEF InspectRecipient, GoOn, LinkedIsClaimed, RemoteIsLocal,
           RowOfLinking, Linking
    <2> QED
        BY <2>3, <2>4
<1>5. RowOfOthers' /\ UnlinkedInOrder' /\ ComponentIsRead'
    BY DEF InspectRecipient, GoOn, LinkedIsClaimed, RowOfOthers, UnlinkedInOrder,
       ComponentIsRead, Unlinking
<1>6. Kept
    <2>1. copy'.id = copy.id
        BY DEF InspectRecipient, AccountsTypeOK, Copies
    <2> QED
        BY <2>1 DEF InspectRecipient, Keeps, Kept, Promise!vars
<1> QED
    BY <1>1, <1>2, <1>3, <1>4, <1>5, <1>6

\* The row comes before the files.
LEMMA ClaimKeeps == ASSUME Inv, Claim PROVE Inv' /\ Kept
<1> USE ReplicaAssumption, NoneAssumption DEF Inv, TypeOK
<1>1. AccountsTypeOK'
    BY DEF Claim, Keeps, GoOn, AccountsTypeOK
<1>2. TablesTypeOK'
    BY DEF Claim, Keeps, GoOn, TablesTypeOK, Rows
<1>3. ProcessTypeOK'
    BY DEF Claim, Keeps, GoOn, ProcessTypeOK, Places
<1>4. LinkedIsClaimed' /\ RemoteIsLocal' /\ RowOfLinking'
    BY DEF Claim, Keeps, GoOn, LinkedIsClaimed, RemoteIsLocal, RowOfLinking, Linking
<1>5. RowOfOthers' /\ UnlinkedInOrder' /\ ComponentIsRead'
    BY DEF Claim, Keeps, GoOn, LinkedIsClaimed, RowOfOthers, UnlinkedInOrder,
       ComponentIsRead, Unlinking
<1>6. Kept
    BY DEF Claim, Kept, Promise!vars, Promise!Next, Promise!Claim
<1> QED
    BY <1>1, <1>2, <1>3, <1>4, <1>5, <1>6

\* The media file is placed under the claim.
LEMMA LinkKeeps == ASSUME Inv, Link PROVE Inv' /\ Kept
<1> USE ReplicaAssumption, NoneAssumption DEF Inv, TypeOK
<1>1. AccountsTypeOK'
    BY DEF Link, Ensure, Keeps, AccountsTypeOK
<1>2. TablesTypeOK'
    BY DEF Link, Keeps, TablesTypeOK
<1>3. ProcessTypeOK'
    BY DEF Link, Keeps, GoOn, ProcessTypeOK, Places
<1>4. LinkedIsClaimed' /\ RemoteIsLocal' /\ RowOfLinking'
    BY DEF Link, Linkable, Ensure, Keeps, GoOn, TablesTypeOK, AccountsTypeOK, WasReady,
       NoRow, LinkedIsClaimed, RemoteIsLocal, RowOfLinking, ComponentIsRead, Linking,
       Unlinking
<1>5. RowOfOthers' /\ UnlinkedInOrder' /\ ComponentIsRead'
    BY DEF Link, Keeps, GoOn, LinkedIsClaimed, RowOfOthers, UnlinkedInOrder,
       ComponentIsRead, Unlinking
<1>6. Kept
    BY DEF Link, Linkable, Ensure, Keeps, GoOn, AccountsTypeOK, ProcessTypeOK, Kinds,
       WasReady, NoRow, LinkedIsClaimed, RemoteIsLocal, RowOfLinking, RowOfOthers,
       UnlinkedInOrder, ComponentIsRead, Linking, Unlinking, Kept, Promise!vars,
       Promise!Next, Promise!Place
<1> QED
    BY <1>1, <1>2, <1>3, <1>4, <1>5, <1>6

\* The media file becomes known.
LEMMA RecordKeeps == ASSUME Inv, Record PROVE Inv' /\ Kept
<1> USE ReplicaAssumption, NoneAssumption DEF Inv, TypeOK
<1>1. AccountsTypeOK'
    BY DEF Record, Keeps, GoOn, AccountsTypeOK
<1>2. TablesTypeOK'
    <2> DEFINE c == [inode |-> source.original, content |-> 0, state |-> "ready"]
    <2>1. c \in Components
        BY InodeFacts DEF Record, Components, AccountsTypeOK, Kinds
    <2>2. files' = [files EXCEPT !["original"] = c]
        BY DEF Record
    <2>3. files' \in [Kinds -> Components \cup {None}]
        BY <2>1, <2>2, FileTyped DEF TablesTypeOK, Kinds
    <2>4. row.state # "none"
        BY DEF Record, RowOfLinking, Linking, WasReady
    <2> QED
        BY <2>3, <2>4 DEF Record, Keeps, TablesTypeOK
<1>3. ProcessTypeOK'
    BY DEF Record, Keeps, GoOn, ProcessTypeOK, Places
<1>4. LinkedIsClaimed' /\ RemoteIsLocal' /\ RowOfLinking'
    BY DEF Record, Keeps, GoOn, WasReady, LinkedIsClaimed, RemoteIsLocal, RowOfLinking,
       Linking
<1>5. RowOfOthers' /\ UnlinkedInOrder' /\ ComponentIsRead'
    BY DEF Record, Keeps, GoOn, LinkedIsClaimed, RowOfOthers, UnlinkedInOrder,
       ComponentIsRead, Unlinking
<1>6. Kept
    <2> DEFINE c == [inode |-> source.original, content |-> 0, state |-> "ready"]
    <2>1. c \in Components
        BY InodeFacts DEF Record, Components, AccountsTypeOK, Kinds
    <2>2. files' = [files EXCEPT !["original"] = c] /\ c # None
        BY <2>1 DEF Record
    <2>3. {k \in Kinds : files'[k] # None} = {k \in Kinds : files[k] # None} \cup {"original"}
        BY <2>2 DEF TablesTypeOK, Kinds
    <2>4. row.state # "none"
        BY DEF Record, RowOfLinking, Linking, WasReady
    <2>5. Promise!Learn("original")
        BY <2>3, <2>4 DEF Record, Keeps, Promise!Learn
    <2> QED
        BY <2>5 DEF Kept, Promise!Next, Kinds
<1> QED
    BY <1>1, <1>2, <1>3, <1>4, <1>5, <1>6

\* The XMP is placed under the claim.
LEMMA LinkSidecarKeeps == ASSUME Inv, LinkSidecar PROVE Inv' /\ Kept
<1> USE ReplicaAssumption, NoneAssumption DEF Inv, TypeOK
<1>1. AccountsTypeOK'
    BY DEF LinkSidecar, Ensure, Keeps, AccountsTypeOK
<1>2. TablesTypeOK'
    BY DEF LinkSidecar, Keeps, TablesTypeOK
<1>3. ProcessTypeOK'
    BY DEF LinkSidecar, Keeps, GoOn, ProcessTypeOK, Places
<1>4. LinkedIsClaimed' /\ RemoteIsLocal' /\ RowOfLinking'
    BY DEF LinkSidecar, Linkable, Ensure, Keeps, GoOn, WasReady, LinkedIsClaimed,
       RemoteIsLocal, RowOfLinking, Linking
<1>5. RowOfOthers' /\ UnlinkedInOrder' /\ ComponentIsRead'
    BY DEF LinkSidecar, Keeps, GoOn, LinkedIsClaimed, RowOfOthers, UnlinkedInOrder,
       ComponentIsRead, Unlinking
<1>6. Kept
    BY DEF LinkSidecar, Linkable, Ensure, Keeps, GoOn, AccountsTypeOK, ProcessTypeOK,
       Kinds, WasReady, NoRow, LinkedIsClaimed, RemoteIsLocal, RowOfLinking,
       RowOfOthers, UnlinkedInOrder, ComponentIsRead, Linking, Unlinking, Kept,
       Promise!vars, Promise!Next, Promise!Place
<1> QED
    BY <1>1, <1>2, <1>3, <1>4, <1>5, <1>6

\* What is going to be recorded has been read.
LEMMA ReadComponentKeeps == ASSUME Inv, ReadComponent PROVE Inv' /\ Kept
<1> USE ReplicaAssumption, NoneAssumption DEF Inv, TypeOK
<1>1. AccountsTypeOK'
    BY DEF ReadComponent, SidecarState, SidecarChanged, Keeps, AccountsTypeOK
<1>2. TablesTypeOK'
    BY DEF ReadComponent, SidecarState, SidecarChanged, Keeps, TablesTypeOK
<1>3. ProcessTypeOK'
    BY DEF ReadComponent, SidecarState, Keeps, ProcessTypeOK, AccountsTypeOK, Places,
       Locals, Components, Inodes, Kinds
<1>4. LinkedIsClaimed' /\ RemoteIsLocal' /\ RowOfLinking'
    BY DEF ReadComponent, WasReady, LinkedIsClaimed, RemoteIsLocal, RowOfLinking,
       Linking
<1>5. RowOfOthers' /\ UnlinkedInOrder' /\ ComponentIsRead'
    <2>1. work'.component \in Components
        <3>1. source.sidecar \in Inodes \ {0}
            BY DEF ReadComponent, AccountsTypeOK, Kinds
        <3>2. content[source.sidecar] \in Inodes
            BY <3>1 DEF AccountsTypeOK
        <3> QED
            BY <3>1, <3>2 DEF ReadComponent, SidecarState, Components, ProcessTypeOK,
               Locals
    <2>2. pc' \in {"refresh", "recordSidecar"} /\ row' = row
        BY DEF ReadComponent
    <2> QED
        BY <2>1, <2>2 DEF RowOfOthers, UnlinkedInOrder, ComponentIsRead, Unlinking
<1>6. Kept
    BY DEF ReadComponent, Kept, Promise!vars
<1> QED
    BY <1>1, <1>2, <1>3, <1>4, <1>5, <1>6

\* Only the locals go on.
LEMMA RefreshMetadataKeeps == ASSUME Inv, RefreshMetadata PROVE Inv' /\ Kept
<1> USE ReplicaAssumption, NoneAssumption DEF Inv, TypeOK
<1>1. AccountsTypeOK'
    BY DEF RefreshMetadata, Written, Keeps, AccountsTypeOK, Copies, Kinds
<1>2. TablesTypeOK'
    BY DEF RefreshMetadata, Written, Keeps, GoOn, TablesTypeOK
<1>3. ProcessTypeOK'
    BY DEF RefreshMetadata, Keeps, GoOn, ProcessTypeOK, Places
<1>4. LinkedIsClaimed' /\ RemoteIsLocal' /\ RowOfLinking'
    BY DEF RefreshMetadata, GoOn, WasReady, LinkedIsClaimed, RemoteIsLocal,
       RowOfLinking, Linking
<1>5. RowOfOthers' /\ UnlinkedInOrder' /\ ComponentIsRead'
    BY DEF RefreshMetadata, GoOn, LinkedIsClaimed, RowOfOthers, UnlinkedInOrder,
       ComponentIsRead, Unlinking
<1>6. Kept
    BY DEF RefreshMetadata, Kept, Promise!vars
<1> QED
    BY <1>1, <1>2, <1>3, <1>4, <1>5, <1>6

\* The XMP becomes known.
LEMMA RecordSidecarKeeps == ASSUME Inv, RecordSidecar PROVE Inv' /\ Kept
<1> USE ReplicaAssumption, NoneAssumption DEF Inv, TypeOK
<1>1. AccountsTypeOK'
    BY DEF RecordSidecar, Keeps, GoOn, AccountsTypeOK
<1>2. TablesTypeOK'
    <2>1. work.component \in Components
        BY DEF RecordSidecar, ComponentIsRead
    <2>2. files' = [files EXCEPT !["sidecar"] = work.component]
        BY DEF RecordSidecar
    <2>3. files' \in [Kinds -> Components \cup {None}]
        BY <2>1, <2>2, FileTyped DEF TablesTypeOK, Kinds
    <2>4. row.state # "none"
        BY DEF RecordSidecar, RowOfLinking, Linking, WasReady
    <2> QED
        BY <2>3, <2>4 DEF RecordSidecar, Keeps, TablesTypeOK
<1>3. ProcessTypeOK'
    BY DEF RecordSidecar, Keeps, GoOn, ProcessTypeOK, Places
<1>4. LinkedIsClaimed' /\ RemoteIsLocal' /\ RowOfLinking'
    BY DEF RecordSidecar, Keeps, GoOn, WasReady, LinkedIsClaimed, RemoteIsLocal,
       RowOfLinking, Linking
<1>5. RowOfOthers' /\ UnlinkedInOrder' /\ ComponentIsRead'
    BY DEF RecordSidecar, Keeps, GoOn, LinkedIsClaimed, RowOfOthers, UnlinkedInOrder,
       ComponentIsRead, Unlinking
<1>6. Kept
    BY DEF RecordSidecar, Keeps, GoOn, TablesTypeOK, AccountsTypeOK, WasReady, NoRow,
       RowOfLinking, ComponentIsRead, Linking, Unlinking, Kept, Promise!vars,
       Promise!Next, Promise!Learn
<1> QED
    BY <1>1, <1>2, <1>3, <1>4, <1>5, <1>6

\* The row says that the files are linked.
LEMMA SettleKeeps == ASSUME Inv, Settle PROVE Inv' /\ Kept
<1> USE ReplicaAssumption, NoneAssumption DEF Inv, TypeOK
<1>1. AccountsTypeOK'
    BY DEF Settle, Keeps, Leave, Idle, AccountsTypeOK
<1>2. TablesTypeOK'
    <2>1. IF work.remote = None THEN row.state = "pending_link" ELSE WasReady
        BY DEF Settle, RowOfLinking, Linking
    <2>2. row' \in Rows
        BY RowTyped DEF Settle, TablesTypeOK
    <2>3. /\ row'.id = row.id /\ row'.path = row.path
          /\ row'.state = IF work.remote = None THEN "pending_import" ELSE "ready"
        BY DEF Settle, TablesTypeOK, Rows
    <2>4. row.path /\ (work.remote = None => row.id = 0) /\ (work.remote # None => row.id # 0)
        BY <2>1 DEF WasReady, TablesTypeOK
    <2> QED
        BY <2>2, <2>3, <2>4 DEF Settle, Keeps, TablesTypeOK
<1>3. ProcessTypeOK'
    BY DEF Settle, Keeps, Leave, Idle, ProcessTypeOK, Places, Locals
<1>4. LinkedIsClaimed' /\ RemoteIsLocal' /\ RowOfLinking'
    BY DEF Settle, Keeps, Leave, Idle, LinkedIsClaimed, RemoteIsLocal, RowOfLinking,
       Linking
<1>5. RowOfOthers' /\ UnlinkedInOrder' /\ ComponentIsRead'
    BY DEF Settle, Keeps, Leave, LinkedIsClaimed, RowOfOthers, UnlinkedInOrder,
       ComponentIsRead, Unlinking
<1>6. Kept
    BY DEF Settle, Idle, WasReady, LinkedIsClaimed, RemoteIsLocal, RowOfLinking,
       Linking, Kept, Promise!vars
<1> QED
    BY <1>1, <1>2, <1>3, <1>4, <1>5, <1>6

\* A failed request leaves the row as it is.
LEMMA CopyRequestFailsKeeps == ASSUME Inv, CopyRequestFails PROVE Inv' /\ Kept
<1> USE ReplicaAssumption, NoneAssumption DEF Inv, TypeOK
<1>1. AccountsTypeOK'
    BY DEF CopyRequestFails, Keeps, AccountsTypeOK
<1>2. TablesTypeOK'
    BY DEF CopyRequestFails, Keeps, TablesTypeOK
<1>3. ProcessTypeOK'
    BY DEF CopyRequestFails, Fails, Keeps, Leave, Idle, ProcessTypeOK, Places, Locals
<1>4. LinkedIsClaimed' /\ RemoteIsLocal' /\ RowOfLinking'
    BY DEF CopyRequestFails, Leave, Idle, LinkedIsClaimed, RemoteIsLocal, RowOfLinking,
       Linking
<1>5. RowOfOthers' /\ UnlinkedInOrder' /\ ComponentIsRead'
    BY DEF CopyRequestFails, Leave, LinkedIsClaimed, RowOfOthers, UnlinkedInOrder,
       ComponentIsRead, Unlinking
<1>6. Kept
    BY DEF CopyRequestFails, Kept, Promise!vars
<1> QED
    BY <1>1, <1>2, <1>3, <1>4, <1>5, <1>6

\* The row keeps its path when the files cannot be linked.
LEMMA ComponentsFailKeeps == ASSUME Inv, ComponentsFail PROVE Inv' /\ Kept
<1> USE ReplicaAssumption, NoneAssumption DEF Inv, TypeOK
<1>1. AccountsTypeOK'
    BY DEF ComponentsFail, Keeps, AccountsTypeOK
<1>2. TablesTypeOK'
    BY DEF ComponentsFail, Keeps, TablesTypeOK, Rows
<1>3. ProcessTypeOK'
    BY DEF ComponentsFail, Fails, Keeps, Leave, Idle, ProcessTypeOK, Places, Locals
<1>4. LinkedIsClaimed' /\ RemoteIsLocal' /\ RowOfLinking'
    BY DEF ComponentsFail, Keeps, Leave, Idle, WasReady, LinkedIsClaimed, RemoteIsLocal,
       RowOfLinking, Linking
<1>5. RowOfOthers' /\ UnlinkedInOrder' /\ ComponentIsRead'
    BY DEF ComponentsFail, Keeps, Leave, LinkedIsClaimed, RowOfOthers, UnlinkedInOrder,
       ComponentIsRead, Unlinking
<1>6. Kept
    BY DEF ComponentsFail, CannotGoOn, Fails, Idle, WasReady, LinkedIsClaimed,
       RemoteIsLocal, RowOfLinking, Linking, Kept, Promise!vars
<1> QED
    BY <1>1, <1>2, <1>3, <1>4, <1>5, <1>6

\* The row learns the id.
LEMMA LookUpKeeps == ASSUME Inv, LookUp PROVE Inv' /\ Kept
<1> USE ReplicaAssumption, NoneAssumption DEF Inv, TypeOK
<1>1. AccountsTypeOK'
    BY DEF LookUp, Keeps, GoOn, AccountsTypeOK
<1>2. TablesTypeOK'
    <2>1. row.state = "pending_import" /\ copy.id \in CopyIds \cup {0}
        BY DEF LookUp, RowOfOthers, AccountsTypeOK, Copies
    <2>2. CASE Searchable
        <3>1. row' \in Rows /\ row'.state = "ready" /\ row'.id = copy.id /\ row'.path = row.path
            BY <2>1, <2>2 DEF LookUp, TablesTypeOK, Rows
        <3>2. row'.id # 0
            BY <2>2, <3>1 DEF Searchable
        <3> QED
            BY <2>1, <2>2, <3>1, <3>2 DEF LookUp, Keeps, TablesTypeOK
    <2>3. CASE ~Searchable
        BY <2>3 DEF LookUp, Keeps, TablesTypeOK
    <2> QED
        BY <2>2, <2>3
<1>3. ProcessTypeOK'
    BY DEF LookUp, Keeps, GoOn, ProcessTypeOK, Places
<1>4. LinkedIsClaimed' /\ RemoteIsLocal' /\ RowOfLinking'
    BY DEF LookUp, Keeps, GoOn, LinkedIsClaimed, RemoteIsLocal, RowOfLinking, Linking
<1>5. RowOfOthers' /\ UnlinkedInOrder' /\ ComponentIsRead'
    BY DEF LookUp, Keeps, GoOn, LinkedIsClaimed, RowOfOthers, UnlinkedInOrder,
       ComponentIsRead, Unlinking
<1>6. Kept
    BY DEF LookUp, RowOfOthers, Kept, Promise!vars
<1> QED
    BY <1>1, <1>2, <1>3, <1>4, <1>5, <1>6

\* The copy is kept.
LEMMA NothingToCleanKeeps == ASSUME Inv, NothingToClean PROVE Inv' /\ Kept
<1> USE ReplicaAssumption, NoneAssumption DEF Inv, TypeOK
<1>1. AccountsTypeOK'
    BY DEF NothingToClean, Keeps, GoOn, AccountsTypeOK
<1>2. TablesTypeOK'
    BY DEF NothingToClean, Keeps, GoOn, TablesTypeOK
<1>3. ProcessTypeOK'
    BY DEF NothingToClean, Keeps, GoOn, ProcessTypeOK, Places
<1>4. LinkedIsClaimed' /\ RemoteIsLocal' /\ RowOfLinking'
    BY DEF NothingToClean, Keeps, GoOn, LinkedIsClaimed, RemoteIsLocal, RowOfLinking,
       Linking
<1>5. RowOfOthers' /\ UnlinkedInOrder' /\ ComponentIsRead'
    BY DEF NothingToClean, Keeps, GoOn, LinkedIsClaimed, RowOfOthers, UnlinkedInOrder,
       ComponentIsRead, Unlinking
<1>6. Kept
    BY DEF NothingToClean, Kept, Promise!vars
<1> QED
    BY <1>1, <1>2, <1>3, <1>4, <1>5, <1>6

\* cleanupReplica is entered for a row that is to go.
LEMMA FindCopyKeeps == ASSUME Inv, FindCopy PROVE Inv' /\ Kept
<1> USE ReplicaAssumption, NoneAssumption DEF Inv, TypeOK
<1>1. AccountsTypeOK'
    BY DEF FindCopy, Removable, Keeps, AccountsTypeOK
<1>2. TablesTypeOK'
    BY DEF FindCopy, Removable, Keeps, TablesTypeOK
<1>3. ProcessTypeOK'
    <2>1. work' \in Locals
        <3>1. \/ work' = [work EXCEPT !.id = copy.id]
              \/ work' = [work EXCEPT !.id = row.id]
              \/ work' = work
            BY DEF FindCopy
        <3>2. copy.id \in CopyIds \cup {0} /\ row.id \in CopyIds \cup {0}
            BY DEF AccountsTypeOK, TablesTypeOK, Copies, Rows
        <3> QED
            BY <3>1, <3>2 DEF ProcessTypeOK, Locals
    <2>2. pc' \in Places
        BY DEF FindCopy, Places
    <2> QED
        BY <2>1, <2>2 DEF FindCopy, Keeps, ProcessTypeOK
<1>4. LinkedIsClaimed' /\ RemoteIsLocal' /\ RowOfLinking'
    <2>1. pc = "cleanup" /\ pc' \notin Linking
        BY DEF FindCopy, Linking
    <2>2. work.remote = None
        BY <2>1 DEF RemoteIsLocal, Linking
    <2>3. work'.remote = work.remote
        BY DEF FindCopy, ProcessTypeOK, Locals
    <2> QED
        BY <2>1, <2>2, <2>3 DEF FindCopy, LinkedIsClaimed, RemoteIsLocal, RowOfLinking
<1>5. RowOfOthers' /\ UnlinkedInOrder' /\ ComponentIsRead'
    BY DEF FindCopy, Removable, RowOfOthers, UnlinkedInOrder, ComponentIsRead
<1>6. Kept
    BY DEF FindCopy, Kept, Promise!vars
<1> QED
    BY <1>1, <1>2, <1>3, <1>4, <1>5, <1>6

\* For the promise, Immich's asset disappears.
LEMMA DeleteAssetsKeeps == ASSUME Inv, DeleteAssets PROVE Inv' /\ Kept
<1> USE ReplicaAssumption, NoneAssumption DEF Inv, TypeOK
<1>1. AccountsTypeOK'
    <2>1. copy' \in Copies
        BY CopyTyped, InodeFacts DEF DeleteAssets, AccountsTypeOK
    <2> QED
        BY <2>1 DEF DeleteAssets, Keeps, AccountsTypeOK
<1>2. TablesTypeOK'
    BY DEF DeleteAssets, NoCopy, Keeps, GoOn, TablesTypeOK
<1>3. ProcessTypeOK'
    BY DEF DeleteAssets, Keeps, GoOn, ProcessTypeOK, Places
<1>4. LinkedIsClaimed' /\ RemoteIsLocal' /\ RowOfLinking'
    BY DEF DeleteAssets, GoOn, LinkedIsClaimed, RemoteIsLocal, RowOfLinking, Linking
<1>5. RowOfOthers' /\ UnlinkedInOrder' /\ ComponentIsRead'
    BY DEF DeleteAssets, GoOn, LinkedIsClaimed, RowOfOthers, UnlinkedInOrder,
       ComponentIsRead, Unlinking
<1>6. Kept
    BY DEF DeleteAssets, NoCopy, Keeps, Kept, Promise!vars, Promise!Next,
       Promise!Disappear
<1> QED
    BY <1>1, <1>2, <1>3, <1>4, <1>5, <1>6

\* The row stays until the files are gone.
LEMMA RecordDeletingKeeps == ASSUME Inv, RecordDeleting PROVE Inv' /\ Kept
<1> USE ReplicaAssumption, NoneAssumption DEF Inv, TypeOK
<1>1. AccountsTypeOK'
    BY DEF RecordDeleting, Keeps, Leave, Idle, AccountsTypeOK
<1>2. TablesTypeOK'
    <2>1. work.id \in CopyIds \cup {0}
        BY DEF ProcessTypeOK, Locals
    <2>2. row' \in Rows /\ row'.state = "deleting"
        BY <2>1 DEF RecordDeleting, TablesTypeOK, Rows
    <2> QED
        BY <2>2 DEF RecordDeleting, Keeps, TablesTypeOK
<1>3. ProcessTypeOK'
    BY DEF RecordDeleting, Keeps, Leave, Idle, ProcessTypeOK, Places, Locals
<1>4. LinkedIsClaimed' /\ RemoteIsLocal' /\ RowOfLinking'
    BY DEF RecordDeleting, Keeps, Leave, Idle, LinkedIsClaimed, RemoteIsLocal,
       RowOfLinking, Linking
<1>5. RowOfOthers' /\ UnlinkedInOrder' /\ ComponentIsRead'
    BY DEF RecordDeleting, Leave, Idle, RowOfOthers, UnlinkedInOrder, ComponentIsRead
<1>6. Kept
    BY DEF RecordDeleting, Idle, LinkedIsClaimed, RowOfOthers, Unlinking, Kept,
       Promise!vars
<1> QED
    BY <1>1, <1>2, <1>3, <1>4, <1>5, <1>6

\* The companion goes first.
LEMMA UnlinkSidecarKeeps == ASSUME Inv, UnlinkSidecar PROVE Inv' /\ Kept
<1> USE ReplicaAssumption, NoneAssumption DEF Inv, TypeOK
<1>1. AccountsTypeOK'
    <2>1. link' = link \/ link' = [link EXCEPT !["sidecar"] = 0]
        BY DEF UnlinkSidecar, Unlink
    <2>2. link \in [Kinds -> Inodes] /\ "sidecar" \in Kinds /\ 0 \in Inodes
        BY InodeFacts DEF AccountsTypeOK, Kinds
    <2>3. [link EXCEPT !["sidecar"] = 0] \in [Kinds -> Inodes]
        BY <2>2, FileTyped
    <2> QED
        BY <2>1, <2>2, <2>3 DEF UnlinkSidecar, Keeps, AccountsTypeOK
<1>2. TablesTypeOK'
    BY DEF UnlinkSidecar, Unlink, Keeps, GoOn, TablesTypeOK
<1>3. ProcessTypeOK'
    BY DEF UnlinkSidecar, Keeps, GoOn, ProcessTypeOK, Places
<1>4. LinkedIsClaimed' /\ RemoteIsLocal' /\ RowOfLinking'
    <2>1. link' = link \/ link' = [link EXCEPT !["sidecar"] = 0]
        BY DEF UnlinkSidecar, Unlink
    <2>2. link.original = 0 => link'.original = 0
        BY <2>1 DEF AccountsTypeOK, Kinds
    <2>3. work' = work /\ row' = row /\ pc \notin Linking /\ pc' \notin Linking
        BY DEF UnlinkSidecar, GoOn, Linking
    <2> QED
        BY <2>2, <2>3 DEF LinkedIsClaimed, RemoteIsLocal, RowOfLinking
<1>5. RowOfOthers' /\ UnlinkedInOrder' /\ ComponentIsRead'
    BY DEF UnlinkSidecar, Unlink, Keeps, GoOn, TablesTypeOK, AccountsTypeOK, Kinds,
       Locals, RowOfLinking, RowOfOthers, UnlinkedInOrder, ComponentIsRead, Linking,
       Unlinking
<1>6. Kept
    BY DEF UnlinkSidecar, Unlink, Keeps, GoOn, TablesTypeOK, AccountsTypeOK,
       ProcessTypeOK, Kinds, LinkedIsClaimed, Kept, Promise!vars, Promise!Next,
       Promise!Remove
<1> QED
    BY <1>1, <1>2, <1>3, <1>4, <1>5, <1>6

\* The media file goes when no known companion is left.
LEMMA UnlinkOriginalKeeps == ASSUME Inv, UnlinkOriginal PROVE Inv' /\ Kept
<1> USE ReplicaAssumption, NoneAssumption DEF Inv, TypeOK
<1>1. AccountsTypeOK'
    <2>1. link' = link \/ link' = [link EXCEPT !["original"] = 0]
        BY DEF UnlinkOriginal, Unlink
    <2>2. link \in [Kinds -> Inodes] /\ "original" \in Kinds /\ 0 \in Inodes
        BY InodeFacts DEF AccountsTypeOK, Kinds
    <2>3. [link EXCEPT !["original"] = 0] \in [Kinds -> Inodes]
        BY <2>2, FileTyped
    <2> QED
        BY <2>1, <2>2, <2>3 DEF UnlinkOriginal, Keeps, AccountsTypeOK
<1>2. TablesTypeOK'
    BY DEF UnlinkOriginal, Unlink, Keeps, GoOn, TablesTypeOK
<1>3. ProcessTypeOK'
    BY DEF UnlinkOriginal, Keeps, GoOn, ProcessTypeOK, Places
<1>4. LinkedIsClaimed' /\ RemoteIsLocal' /\ RowOfLinking'
    <2>1. link' = link \/ link' = [link EXCEPT !["original"] = 0]
        BY DEF UnlinkOriginal, Unlink
    <2>2. link.original = 0 => link'.original = 0
        BY <2>1 DEF AccountsTypeOK, Kinds
    <2>3. work' = work /\ row' = row /\ pc \notin Linking /\ pc' \notin Linking
        BY DEF UnlinkOriginal, GoOn, Linking
    <2> QED
        BY <2>2, <2>3 DEF LinkedIsClaimed, RemoteIsLocal, RowOfLinking
<1>5. RowOfOthers' /\ UnlinkedInOrder' /\ ComponentIsRead'
    <2>1. pc' = "forget" /\ row' = row /\ files' = files
        BY DEF UnlinkOriginal, GoOn
    <2>2. row.state \in {"pending_removal", "deleting"}
        BY DEF UnlinkOriginal, RowOfOthers, Unlinking
    <2>3. link' = link \/ link' = [link EXCEPT !["original"] = 0]
        BY DEF UnlinkOriginal, Unlink
    <2>4. link'.sidecar = link.sidecar
        BY <2>3 DEF AccountsTypeOK, Kinds
    <2>5. link'.original = 0
        BY DEF UnlinkOriginal, Unlink, LinkedIsClaimed, AccountsTypeOK, Kinds
    <2>6. files.sidecar # None => link.sidecar = 0
        BY DEF UnlinkOriginal, UnlinkedInOrder
    <2> QED
        BY <2>1, <2>2, <2>4, <2>5, <2>6 DEF RowOfOthers, UnlinkedInOrder,
           ComponentIsRead
<1>6. Kept
    BY DEF UnlinkOriginal, Unlink, Keeps, GoOn, TablesTypeOK, AccountsTypeOK,
       ProcessTypeOK, Kinds, LinkedIsClaimed, Kept, Promise!vars, Promise!Next,
       Promise!Remove
<1> QED
    BY <1>1, <1>2, <1>3, <1>4, <1>5, <1>6

\* The claim is released last.
LEMMA DeleteReplicaKeeps == ASSUME Inv, DeleteReplica PROVE Inv' /\ Kept
<1> USE ReplicaAssumption, NoneAssumption DEF Inv, TypeOK
<1>1. AccountsTypeOK'
    BY DEF DeleteReplica, Keeps, AccountsTypeOK
<1>2. TablesTypeOK'
    BY DEF DeleteReplica, NoRow, Keeps, TablesTypeOK, Rows
<1>3. ProcessTypeOK'
    BY DEF DeleteReplica, Keeps, Leave, Idle, ProcessTypeOK, Places, Locals
<1>4. LinkedIsClaimed' /\ RemoteIsLocal' /\ RowOfLinking'
    BY DEF DeleteReplica, Keeps, Leave, Idle, LinkedIsClaimed, RemoteIsLocal,
       RowOfLinking, UnlinkedInOrder, ComponentIsRead, Linking
<1>5. RowOfOthers' /\ UnlinkedInOrder' /\ ComponentIsRead'
    BY DEF DeleteReplica, Keeps, Leave, LinkedIsClaimed, RowOfOthers, UnlinkedInOrder,
       ComponentIsRead, Unlinking
<1>6. Kept
    BY DEF DeleteReplica, NoRow, Keeps, ProcessTypeOK, Kinds, WasReady, RowOfOthers,
       UnlinkedInOrder, Linking, Unlinking, Kept, Promise!vars, Promise!Next,
       Promise!Release
<1> QED
    BY <1>1, <1>2, <1>3, <1>4, <1>5, <1>6

\* The row keeps its state.
LEMMA CleanupFailsKeeps == ASSUME Inv, CleanupFails PROVE Inv' /\ Kept
<1> USE ReplicaAssumption, NoneAssumption DEF Inv, TypeOK
<1>1. AccountsTypeOK'
    BY DEF CleanupFails, Keeps, AccountsTypeOK
<1>2. TablesTypeOK'
    BY DEF CleanupFails, Keeps, TablesTypeOK
<1>3. ProcessTypeOK'
    <2>1. Idle \in Locals
        BY DEF Locals, Idle
    <2>2. faults' = faults \/ (faults < MaxFaults /\ faults' = faults + 1)
        BY DEF CleanupFails, Fails
    <2>3. faults' \in 0 .. MaxFaults
        BY <2>2, ReplicaAssumption DEF ProcessTypeOK
    <2> QED
        BY <2>1, <2>3 DEF CleanupFails, Leave, Keeps, Places, ProcessTypeOK
<1>4. LinkedIsClaimed' /\ RemoteIsLocal' /\ RowOfLinking'
    BY DEF CleanupFails, Leave, Idle, LinkedIsClaimed, RemoteIsLocal, RowOfLinking,
       Linking
<1>5. RowOfOthers' /\ UnlinkedInOrder' /\ ComponentIsRead'
    BY DEF CleanupFails, Leave, LinkedIsClaimed, RowOfOthers, UnlinkedInOrder,
       ComponentIsRead, Unlinking
<1>6. Kept
    BY DEF CleanupFails, Kept, Promise!vars
<1> QED
    BY <1>1, <1>2, <1>3, <1>4, <1>5, <1>6

\* A row that is not shared is marked and stays.
LEMMA MarkUnusedKeeps == ASSUME Inv, MarkUnused PROVE Inv' /\ Kept
<1> USE ReplicaAssumption, NoneAssumption DEF Inv, TypeOK
<1>1. AccountsTypeOK'
    BY DEF MarkUnused, Keeps, Leave, Idle, AccountsTypeOK
<1>2. TablesTypeOK'
    BY DEF MarkUnused, Keeps, TablesTypeOK, Rows
<1>3. ProcessTypeOK'
    BY DEF MarkUnused, Keeps, Leave, Idle, ProcessTypeOK, Places, Locals
<1>4. LinkedIsClaimed' /\ RemoteIsLocal' /\ RowOfLinking'
    BY DEF MarkUnused, Keeps, Leave, Idle, LinkedIsClaimed, RemoteIsLocal, RowOfLinking,
       Linking
<1>5. RowOfOthers' /\ UnlinkedInOrder' /\ ComponentIsRead'
    BY DEF MarkUnused, Keeps, Leave, LinkedIsClaimed, RowOfOthers, UnlinkedInOrder,
       ComponentIsRead, Unlinking
<1>6. Kept
    BY DEF MarkUnused, Kept, Promise!vars
<1> QED
    BY <1>1, <1>2, <1>3, <1>4, <1>5, <1>6

\* The cycle leaves nothing in hand.
LEMMA FinishCycleKeeps == ASSUME Inv, FinishCycle PROVE Inv' /\ Kept
<1> USE ReplicaAssumption, NoneAssumption DEF Inv, TypeOK
<1>1. AccountsTypeOK'
    BY DEF FinishCycle, Keeps, GoOn, AccountsTypeOK
<1>2. TablesTypeOK'
    BY DEF FinishCycle, Keeps, GoOn, TablesTypeOK
<1>3. ProcessTypeOK'
    BY DEF FinishCycle, Keeps, GoOn, ProcessTypeOK, Places
<1>4. LinkedIsClaimed' /\ RemoteIsLocal' /\ RowOfLinking'
    BY DEF FinishCycle, Keeps, GoOn, LinkedIsClaimed, RemoteIsLocal, RowOfLinking,
       Linking
<1>5. RowOfOthers' /\ UnlinkedInOrder' /\ ComponentIsRead'
    BY DEF FinishCycle, Keeps, GoOn, LinkedIsClaimed, RowOfOthers, UnlinkedInOrder,
       ComponentIsRead, Unlinking
<1>6. Kept
    BY DEF FinishCycle, Kept, Promise!vars
<1> QED
    BY <1>1, <1>2, <1>3, <1>4, <1>5, <1>6

\* The locals are lost, the row and the files are as they were.
LEMMA CrashKeeps == ASSUME Inv, Crash PROVE Inv' /\ Kept
<1> USE ReplicaAssumption, NoneAssumption DEF Inv, TypeOK
<1>1. AccountsTypeOK'
    BY DEF Crash, Keeps, AccountsTypeOK
<1>2. TablesTypeOK'
    BY DEF Crash, Keeps, TablesTypeOK
<1>3. ProcessTypeOK'
    BY DEF Crash, Fails, Keeps, Leave, Idle, ProcessTypeOK, Places, Locals
<1>4. LinkedIsClaimed' /\ RemoteIsLocal' /\ RowOfLinking'
    BY DEF Crash, Leave, Idle, LinkedIsClaimed, RemoteIsLocal, RowOfLinking, Linking
<1>5. RowOfOthers' /\ UnlinkedInOrder' /\ ComponentIsRead'
    BY DEF Crash, Leave, LinkedIsClaimed, RowOfOthers, UnlinkedInOrder, ComponentIsRead,
       Unlinking
<1>6. Kept
    BY DEF Crash, Kept, Promise!vars
<1> QED
    BY <1>1, <1>2, <1>3, <1>4, <1>5, <1>6

-----------------------------------------------------------------------------
(* The theorems. *)

\* Nothing is claimed, and the invariant holds, at the start.
LEMMA InitKeeps == Init => Inv /\ Promise!Init
<1> SUFFICES ASSUME Init PROVE Inv /\ Promise!Init
    OBVIOUS
<1> USE ReplicaAssumption, InodeFacts
<1>1. AccountsTypeOK
  <2>1. 1 \in Inodes
    BY DEF Inodes
  <2> QED
    BY <2>1 DEF Init, AccountsTypeOK, NoCopy, Copies, Kinds
<1>2. TablesTypeOK
    BY DEF Init, TablesTypeOK, NoRow, Rows
<1>3. ProcessTypeOK
    BY DEF Init, ProcessTypeOK, Idle, Locals, Places
<1>4. LinkedIsClaimed /\ RemoteIsLocal /\ RowOfLinking
    BY DEF Init, LinkedIsClaimed, RemoteIsLocal, RowOfLinking, Idle, Linking, Kinds
<1>5. RowOfOthers /\ UnlinkedInOrder /\ ComponentIsRead
    BY DEF Init, RowOfOthers, UnlinkedInOrder, ComponentIsRead, Unlinking
<1>6. Promise!Init
    BY DEF Init, Promise!Init, NoRow, NoCopy, Kinds
<1> QED
    BY <1>1, <1>2, <1>3, <1>4, <1>5, <1>6 DEF Inv, TypeOK

\* So every step keeps the invariant and the promise.
LEMMA NextKeeps == ASSUME Inv, [Next]_vars PROVE Inv' /\ Kept
<1>1. CASE Steps
    BY <1>1, StartCycleKeeps, ApplyKeeps, InspectOriginKeeps, InspectRecipientKeeps,
       ClaimKeeps, LinkKeeps, RecordKeeps, LinkSidecarKeeps, ReadComponentKeeps,
       RefreshMetadataKeeps, RecordSidecarKeeps, SettleKeeps, ComponentsFailKeeps,
       LookUpKeeps, NothingToCleanKeeps, FindCopyKeeps, DeleteAssetsKeeps,
       RecordDeletingKeeps, UnlinkSidecarKeeps, UnlinkOriginalKeeps, DeleteReplicaKeeps,
       CleanupFailsKeeps, MarkUnusedKeeps, FinishCycleKeeps
       DEF Steps
<1>2. CASE Environment
    BY <1>2, OwnerEditKeeps, OriginUnlinkedKeeps, NewSidecarKeeps, EditSidecarKeeps,
       RecipientEditKeeps, DecideKeeps, DecideOwnerDeletedKeeps, DecideRepairKeeps,
       ImportKeeps, DiscoverSidecarsKeeps, DeleteFileKeeps
       DEF Environment
<1>3. CASE InspectOriginFails \/ CopyRequestFails \/ Crash
    BY <1>3, InspectOriginFailsKeeps, CopyRequestFailsKeeps, CrashKeeps
<1>4. CASE UNCHANGED vars
  <2>1. Inv'
    BY <1>4 DEF Inv, TypeOK, AccountsTypeOK, TablesTypeOK, ProcessTypeOK, LinkedIsClaimed,
       RemoteIsLocal, RowOfLinking, RowOfOthers, UnlinkedInOrder, ComponentIsRead, WasReady,
       vars, accounts, tables
  <2>2. Kept
    BY <1>4 DEF Kept, Promise!vars, vars, accounts, tables
  <2> QED
    BY <2>1, <2>2
<1> QED
    BY <1>1, <1>2, <1>3, <1>4 DEF Next

\* Accounts, tables and the process keep their types, and every row has the fields of its
\* state, wherever requests fail and the process stops.
THEOREM TypeCorrect == Spec => []TypeOK
<1>1. Init => Inv
    BY InitKeeps
<1>2. Inv /\ [Next]_vars => Inv'
    BY NextKeeps
<1>3. Inv => TypeOK
    BY DEF Inv
<1> QED
    BY <1>1, <1>2, <1>3, PTL DEF Spec

\* ensureReplica, cleanupReplica and removeReplicaFiles together implement TrackedCopy:
\* a copy is recorded before a file of it is linked, and the record outlives the media
\* file and every companion it names, whatever Immich and the users do and wherever the
\* process stops.
THEOREM PromiseKept == Spec => KeepsPromise
<1>1. Init => Inv /\ Promise!Init
    BY InitKeeps
<1>2. Inv /\ [Next]_vars => Inv' /\ [Promise!Next]_(Promise!vars)
    BY NextKeeps DEF Kept
<1> QED
    BY <1>1, <1>2, PTL DEF Spec, KeepsPromise, Promise!Spec

\* No media file is in the recipient's library without a record by which the bridge can
\* find and remove it (reconcile.go:1475-1478, 1028-1076).
THEOREM MediaIsTraceable == Spec => []Promise!Traceable
<1>1. Init => Inv
    BY InitKeeps
<1>2. Inv /\ [Next]_vars => Inv'
    BY NextKeeps
<1>3. Inv => Promise!Traceable
    BY DEF Inv, TypeOK, TablesTypeOK, LinkedIsClaimed, NoRow, Kinds, Promise!Traceable
<1> QED
    BY <1>1, <1>2, <1>3, PTL DEF Spec
-----------------------------------------------------------------------------
(* Which version of the XMP Immich has read: the edits number the versions. *)

\* The XMP file of the original, as it is.
NoLaterContent == \A i \in Inodes \ {0} : content[i] <= edits
NoSharedContent == \A i, j \in Inodes \ {0} : content[i] = content[j] /\ content[i] # 0 => i = j
SourceIsWritten == source.sidecar # 0 => content[source.sidecar] # 0

\* What is known of an XMP is the content that its file has, or had before an edit.
IsVersion(c) ==
    c # None =>
       /\ c.content \in 1 .. edits /\ c.content <= content[c.inode]
       /\ \A i \in Inodes \ {0} : content[i] = c.content => i = c.inode

\* The recorded XMP and the one in hand, of one content, are one file.
SameVersion(c, d) == c # None /\ d # None /\ c.content = d.content => c.inode = d.inode

Versions ==
    /\ NoLaterContent /\ NoSharedContent /\ SourceIsWritten
    /\ IsVersion(files.sidecar) /\ IsVersion(work.component)
    /\ SameVersion(files.sidecar, work.component)

\* An XMP is recorded in the state that it was read in.
StateIsRead == pc \in {"refresh", "recordSidecar"} => work.component.state = SidecarState

\* A recorded XMP that is ready is replaced by another version.
Replaced(old, new) ==
    /\ old # None /\ old.state = "ready" /\ new.state = "ready" /\ old.content # new.content
    /\ copy.id = row.id /\ link.sidecar = new.inode

\* By then Immich has read the new one, or what came after it.
ChangeIsRead ==
    pc = "recordSidecar" /\ Replaced(files.sidecar, work.component) =>
        copy.xmp >= work.component.content

SidecarInv == Versions /\ StateIsRead /\ ChangeIsRead

\* The numbers that versions are compared by.
LEMMA VersionFacts ==
    ASSUME TypeOK
    PROVE  /\ edits \in Nat /\ 0 \in Inodes
           /\ \A i \in Inodes \ {0} : content[i] \in Nat /\ content[i] \in Inodes
           /\ source.sidecar \in Inodes /\ link.sidecar \in Inodes
           /\ files.sidecar \in Components \cup {None}
           /\ work.component \in Components \cup {None}
           /\ \A c \in Components : c # None /\ c.inode \in Inodes \ {0} /\ c.content \in Nat
<1>1. edits \in Nat /\ Inodes \subseteq Nat /\ 0 \in Inodes
    BY ReplicaAssumption DEF TypeOK, ProcessTypeOK, Inodes
<1>2. content \in [Inodes \ {0} -> Inodes]
    BY DEF TypeOK, AccountsTypeOK
<1>3. source.sidecar \in Inodes /\ link.sidecar \in Inodes
    BY DEF TypeOK, AccountsTypeOK, Kinds
<1>4. /\ files.sidecar \in Components \cup {None}
      /\ work.component \in Components \cup {None}
    BY DEF TypeOK, TablesTypeOK, ProcessTypeOK, Locals, Kinds
<1>5. \A c \in Components : c # None /\ c.inode \in Inodes \ {0} /\ c.content \in Inodes
    BY NoneAssumption DEF Components
<1> QED
    BY <1>1, <1>2, <1>3, <1>4, <1>5

\* What is forgotten, and another edit, leave the rest as it was.
LEMMA VersionsStay ==
    ASSUME TypeOK, Versions,
           content' = content, source'.sidecar \in {0, source.sidecar},
           edits' \in {edits, edits + 1}, files'.sidecar \in {None, files.sidecar},
           work'.component \in {None, work.component}
    PROVE  Versions'
<1>1. NoLaterContent' /\ NoSharedContent' /\ SourceIsWritten'
    BY VersionFacts DEF Versions, NoLaterContent, NoSharedContent, SourceIsWritten
<1>2. IsVersion(files.sidecar)'
    BY VersionFacts DEF Versions, IsVersion
<1>3. IsVersion(work.component)'
    BY VersionFacts DEF Versions, IsVersion
<1>4. SameVersion(files.sidecar, work.component)'
    BY DEF Versions, SameVersion
<1> QED
    BY <1>1, <1>2, <1>3, <1>4 DEF Versions

\* An edit of an XMP makes a version that nothing knows yet.
LEMMA WriteVersions ==
    ASSUME TypeOK, Versions, NEW i \in Inodes \ {0}, WriteSidecar(i)
    PROVE  Versions'
<1>1. /\ edits' = edits + 1 /\ edits + 1 \in Inodes \ {0}
      /\ files' = files /\ work' = work
    BY InodeFacts DEF WriteSidecar, Edit, tables, TypeOK, ProcessTypeOK
<1>2. /\ content'[i] = edits + 1
      /\ \A j \in Inodes \ {0} : j # i => content'[j] = content[j]
    BY DEF WriteSidecar, TypeOK, AccountsTypeOK
<1>3. source'.sidecar = i
    BY DEF WriteSidecar, TypeOK, AccountsTypeOK, Kinds
<1>4. NoLaterContent' /\ NoSharedContent' /\ SourceIsWritten'
    BY <1>1, <1>2, <1>3, VersionFacts
       DEF Versions, NoLaterContent, NoSharedContent, SourceIsWritten
<1>5. ASSUME NEW c \in Components \cup {None}, IsVersion(c)
      PROVE  c # None => /\ c.content \in 1 .. edits' /\ c.content <= content'[c.inode]
                         /\ \A j \in Inodes \ {0} : content'[j] = c.content => j = c.inode
    BY <1>1, <1>2, <1>5, VersionFacts DEF IsVersion
<1>6. IsVersion(files.sidecar)' /\ IsVersion(work.component)'
    BY <1>1, <1>5, VersionFacts DEF Versions, IsVersion
<1>7. SameVersion(files.sidecar, work.component)'
    BY <1>1 DEF Versions, SameVersion
<1> QED
    BY <1>4, <1>6, <1>7 DEF Versions

\* The other steps of the cycle make and read no version.
LEMMA OtherSteps ==
    ASSUME TypeOK, Steps \/ InspectOriginFails \/ CopyRequestFails \/ Crash,
           ~ReadComponent, ~RecordSidecar
    PROVE  /\ content' = content /\ source' = source /\ edits' = edits
           /\ files'.sidecar \in {None, files.sidecar}
           /\ work'.component \in {None, work.component}
<1>1. content' = content /\ source' = source /\ edits' = edits
    BY DEF Steps, InspectOriginFails, CopyRequestFails, Crash, Keeps, StartCycle, Apply,
       InspectOrigin, InspectRecipient, Claim, Link, Record, LinkSidecar, RefreshMetadata, Settle,
       ComponentsFail, LookUp, NothingToClean, FindCopy, DeleteAssets, RecordDeleting,
       UnlinkSidecar, UnlinkOriginal, DeleteReplica, CleanupFails, MarkUnused, FinishCycle
<1>2. files'.sidecar \in {None, files.sidecar}
  <2>1. CASE Record
      BY <2>1 DEF Record, TypeOK, TablesTypeOK, Kinds
  <2>2. CASE DeleteReplica
      BY <2>2 DEF DeleteReplica, Kinds
  <2>3. CASE ~Record /\ ~DeleteReplica
    <3>1. files' = files
        BY <2>3 DEF Steps, InspectOriginFails, CopyRequestFails, Crash, StartCycle, Apply,
           InspectOrigin, InspectRecipient, Claim, Link, LinkSidecar, RefreshMetadata, Settle,
           ComponentsFail, LookUp, NothingToClean, FindCopy, DeleteAssets, RecordDeleting,
           UnlinkSidecar, UnlinkOriginal, CleanupFails, MarkUnused, FinishCycle
    <3> QED
        BY <3>1
  <2> QED
      BY <2>1, <2>2, <2>3
<1>3. work'.component \in {None, work.component}
  <2>1. CASE InspectOrigin \/ InspectRecipient \/ FindCopy
      BY <2>1 DEF InspectOrigin, InspectRecipient, FindCopy, Leave, GoOn, Idle, TypeOK,
         ProcessTypeOK, Locals
  <2>2. CASE ~(InspectOrigin \/ InspectRecipient \/ FindCopy)
    <3>1. work' = work \/ work' = Idle
        BY <2>2 DEF Steps, InspectOriginFails, CopyRequestFails, Crash, Leave, GoOn, StartCycle,
           Apply, Claim, Link, Record, LinkSidecar, RefreshMetadata, Settle, ComponentsFail,
           LookUp, NothingToClean, DeleteAssets, RecordDeleting, UnlinkSidecar,
           UnlinkOriginal, DeleteReplica, CleanupFails, MarkUnused, FinishCycle
    <3> QED
        BY <3>1 DEF Idle
  <2> QED
      BY <2>1, <2>2
<1> QED
    BY <1>1, <1>2, <1>3

\* Nor does what happens in between, but for the edits of an XMP.
LEMMA OtherEvents ==
    ASSUME TypeOK, Environment, ~NewSidecar, ~EditSidecar
    PROVE  /\ content' = content /\ source'.sidecar \in {0, source.sidecar}
           /\ edits' \in {edits, edits + 1} /\ files' = files /\ work' = work
<1>1. CASE OwnerEdit \/ OriginUnlinked \/ RecipientEdit
    BY <1>1 DEF OwnerEdit, OriginUnlinked, RecipientEdit, Edit, tables, Kinds
<1>2. CASE Decide \/ DecideOwnerDeleted \/ DecideRepair
    BY <1>2 DEF Decide, DecideOwnerDeleted, DecideRepair, Edit, accounts
<1>3. CASE Import \/ DiscoverSidecars \/ \E k \in Kinds : DeleteFile(k)
    BY <1>3 DEF Import, DiscoverSidecars, DeleteFile, tables
<1> QED
    BY <1>1, <1>2, <1>3 DEF Environment

\* An XMP that was read is a version of its file, and one with the record if that has its
\* content.
LEMMA ReadVersions ==
    ASSUME TypeOK, Versions, ReadComponent
    PROVE  Versions'
<1>1. /\ source.sidecar \in Inodes \ {0}
      /\ content' = content /\ source' = source /\ edits' = edits /\ files' = files
    BY VersionFacts DEF ReadComponent, Keeps
<1>2. /\ work'.component.inode = source.sidecar
      /\ work'.component.content = content[source.sidecar]
    BY DEF ReadComponent, TypeOK, ProcessTypeOK, Locals
<1>3. content[source.sidecar] \in 1 .. edits
    BY <1>1, VersionFacts DEF Versions, NoLaterContent, SourceIsWritten
<1>4. NoLaterContent' /\ NoSharedContent' /\ SourceIsWritten' /\ IsVersion(files.sidecar)'
    BY <1>1 DEF Versions, NoLaterContent, NoSharedContent, SourceIsWritten, IsVersion
<1>5. IsVersion(work.component)'
    BY <1>1, <1>2, <1>3, VersionFacts DEF Versions, NoSharedContent, IsVersion
<1>6. SameVersion(files.sidecar, work.component)'
    BY <1>1, <1>2 DEF Versions, IsVersion, SameVersion
<1> QED
    BY <1>4, <1>5, <1>6 DEF Versions

\* What is recorded is what was read.
LEMMA RecordVersions ==
    ASSUME TypeOK, Versions, RecordSidecar
    PROVE  Versions'
<1>1. /\ content' = content /\ source' = source /\ edits' = edits /\ work' = work
      /\ files'.sidecar = work.component
    BY DEF RecordSidecar, Keeps, GoOn, TypeOK, TablesTypeOK, Kinds
<1> QED
    BY <1>1 DEF Versions, NoLaterContent, NoSharedContent, SourceIsWritten, IsVersion,
       SameVersion

LEMMA NextVersions == ASSUME TypeOK, Versions, [Next]_vars PROVE Versions'
<1>1. CASE NewSidecar \/ EditSidecar
  <2>1. ASSUME NewSidecar PROVE edits + 1 \in Inodes \ {0}
      BY <2>1, InodeFacts DEF NewSidecar, WriteSidecar, Edit, TypeOK, ProcessTypeOK
  <2>2. ASSUME EditSidecar PROVE source.sidecar \in Inodes \ {0}
      BY <2>2, VersionFacts DEF EditSidecar
  <2> QED
      BY <1>1, <2>1, <2>2, WriteVersions DEF NewSidecar, EditSidecar
<1>2. CASE ReadComponent
    BY <1>2, ReadVersions
<1>3. CASE RecordSidecar
    BY <1>3, RecordVersions
<1>4. CASE /\ Steps \/ InspectOriginFails \/ CopyRequestFails \/ Crash
           /\ ~ReadComponent /\ ~RecordSidecar
  <2>1. /\ content' = content /\ source' = source /\ edits' = edits
        /\ files'.sidecar \in {None, files.sidecar}
        /\ work'.component \in {None, work.component}
      BY <1>4, OtherSteps
  <2> QED
      BY <2>1, VersionsStay
<1>5. CASE Environment /\ ~NewSidecar /\ ~EditSidecar
  <2>1. /\ content' = content /\ source'.sidecar \in {0, source.sidecar}
        /\ edits' \in {edits, edits + 1} /\ files' = files /\ work' = work
      BY <1>5, OtherEvents
  <2> QED
      BY <2>1, VersionsStay
<1>6. CASE UNCHANGED vars
    BY <1>6, VersionsStay DEF vars, accounts, tables
<1> QED
    BY <1>1, <1>2, <1>3, <1>4, <1>5, <1>6 DEF Next

\* Between reading and recording an XMP, only Immich and users do something.
LEMMA OnTheWay ==
    ASSUME [Next]_vars, pc' \in {"refresh", "recordSidecar"}
    PROVE  \/ ReadComponent \/ RefreshMetadata
           \/ pc' = pc /\ (Environment \/ UNCHANGED vars)
<1>1. CASE Steps
    BY <1>1 DEF Steps, Leave, GoOn, StartCycle, Apply, InspectOrigin, InspectRecipient, Claim,
       Link, Record, LinkSidecar, RecordSidecar, Settle, ComponentsFail, LookUp,
       NothingToClean, FindCopy, DeleteAssets, RecordDeleting, UnlinkSidecar, UnlinkOriginal,
       DeleteReplica, CleanupFails, MarkUnused, FinishCycle
<1>2. CASE InspectOriginFails \/ CopyRequestFails \/ Crash
    BY <1>2 DEF InspectOriginFails, CopyRequestFails, Crash, Leave
<1>3. CASE Environment
    BY <1>3 DEF Environment, OwnerEdit, OriginUnlinked, NewSidecar, EditSidecar, WriteSidecar,
       RecipientEdit, Decide, DecideOwnerDeleted, DecideRepair, Import, DiscoverSidecars,
       DeleteFile
<1>4. CASE UNCHANGED vars
    BY <1>4 DEF vars
<1> QED
    BY <1>1, <1>2, <1>3, <1>4 DEF Next

\* Meanwhile the bridge's tables and locals stay, and so does the copy, or it is read again,
\* or it is no longer the one with the recorded id.
LEMMA Meanwhile ==
    ASSUME Inv, Environment \/ UNCHANGED vars, pc \in {"refresh", "recordSidecar"}
    PROVE  /\ work' = work /\ files' = files /\ row' = row
           /\ link'.sidecar \in {0, link.sidecar}
           /\ work.remote # None /\ copy'.id = row.id =>
                 /\ copy.id = row.id
                 /\ copy'.xmp = copy.xmp \/ (copy.xmp = 0 /\ copy'.xmp \in Inodes)
<1>1. CASE OwnerEdit \/ OriginUnlinked \/ NewSidecar \/ EditSidecar
    BY <1>1 DEF OwnerEdit, OriginUnlinked, NewSidecar, EditSidecar, WriteSidecar, tables
<1>2. CASE RecipientEdit
    <2>1. work.remote # None => row.id # 0
        BY DEF Inv, TypeOK, TablesTypeOK, RowOfLinking, Linking, WasReady
    <2> QED
        BY <1>2, <2>1 DEF RecipientEdit, tables, NoCopy, Inv, TypeOK, AccountsTypeOK, Copies
<1>3. CASE Decide \/ DecideOwnerDeleted \/ DecideRepair
    BY <1>3 DEF Decide, DecideOwnerDeleted, DecideRepair
<1>4. CASE Import
  <2>1. FreshId # row.id
      BY FreshIdTyped DEF Inv
  <2> QED
      BY <1>4, <2>1 DEF Import, tables
<1>5. CASE DiscoverSidecars
  <2>1. Written \in Inodes
      BY WrittenTyped DEF Inv, TypeOK
  <2> QED
      BY <1>5, <2>1 DEF DiscoverSidecars, tables, Inv, TypeOK, AccountsTypeOK, Copies
<1>6. CASE \E k \in Kinds : DeleteFile(k)
    BY <1>6 DEF DeleteFile, tables, Inv, TypeOK, AccountsTypeOK, Kinds
<1>7. CASE UNCHANGED vars
    BY <1>7 DEF vars, accounts, tables
<1> QED
    BY <1>1, <1>2, <1>3, <1>4, <1>5, <1>6, <1>7 DEF Environment

\* So a change that is about to be recorded was read.
LEMMA NextSidecar == ASSUME Inv, SidecarInv, [Next]_vars PROVE SidecarInv'
<1>1. Versions'
    BY NextVersions DEF Inv, SidecarInv
<1>2. StateIsRead' /\ ChangeIsRead'
  <2> SUFFICES ASSUME pc' \in {"refresh", "recordSidecar"}
               PROVE  StateIsRead' /\ ChangeIsRead'
      BY DEF StateIsRead, ChangeIsRead
  <2>1. CASE ReadComponent
    <3>1. /\ work' = [work EXCEPT !.component =
                          [inode |-> source.sidecar, content |-> content[source.sidecar],
                           state |-> SidecarState]]
          /\ files' = files
        BY <2>1 DEF ReadComponent
    <3>2. work'.component.state = SidecarState /\ SidecarState' = SidecarState
          /\ work'.component.content = content[source.sidecar]
        BY <3>1 DEF SidecarState, Inv, TypeOK, ProcessTypeOK, Locals
    <3>3. pc' = "recordSidecar" => ~SidecarChanged
        BY <2>1 DEF ReadComponent
    <3> QED
        BY <3>1, <3>2, <3>3 DEF StateIsRead, ChangeIsRead, Replaced, SidecarChanged
  <2>2. CASE RefreshMetadata
    <3>1. /\ pc = "refresh" /\ work' = work /\ files' = files /\ link' = link
          /\ content' = content /\ SidecarState' = SidecarState
          /\ copy' = IF link.sidecar = 0 THEN copy ELSE [copy EXCEPT !.xmp = Written]
        BY <2>2 DEF RefreshMetadata, GoOn, Keeps, SidecarState
    <3>2. work.component \in Components /\ work.component # None
        BY <3>1, NoneAssumption DEF Inv, ComponentIsRead
    <3>3. StateIsRead'
        BY <3>1 DEF SidecarInv, StateIsRead
    <3>4. ASSUME link.sidecar = work.component.inode
          PROVE  copy'.xmp >= work.component.content
      <4>1. link.sidecar # 0 /\ Written = content[work.component.inode]
          BY <3>2, <3>4, VersionFacts DEF Written, Inv
      <4>2. copy'.xmp = Written
          BY <3>1, <4>1 DEF Inv, TypeOK, AccountsTypeOK, Copies
      <4>3. work.component.content <= content[work.component.inode]
          BY <3>2 DEF SidecarInv, Versions, IsVersion
      <4> QED
          BY <4>1, <4>2, <4>3, <3>2, VersionFacts DEF Inv
    <3> QED
        BY <3>1, <3>3, <3>4 DEF ChangeIsRead, Replaced
  <2>3. CASE pc' = pc /\ (Environment \/ UNCHANGED vars)
    <3>1. /\ work' = work /\ files' = files /\ row' = row
          /\ link'.sidecar \in {0, link.sidecar}
          /\ work.remote # None /\ copy'.id = row.id =>
                /\ copy.id = row.id
                /\ copy'.xmp = copy.xmp \/ (copy.xmp = 0 /\ copy'.xmp \in Inodes)
        BY <2>3, Meanwhile
    <3>2. StateIsRead'
        BY <2>3, <3>1 DEF SidecarInv, StateIsRead, SidecarState
    <3>3. ASSUME pc = "recordSidecar", Replaced(files.sidecar, work.component)'
          PROVE  copy'.xmp >= work.component.content
      <4>1. work.component \in Components
          BY <3>3 DEF Inv, ComponentIsRead
      <4>2. work.component.state = SidecarState /\ work.component.state = "ready"
          BY <3>1, <3>3 DEF SidecarInv, StateIsRead, Replaced
      <4>3. work.remote # None
          BY <4>2 DEF SidecarState
      <4>4. Replaced(files.sidecar, work.component)
          BY <3>1, <3>3, <4>1, <4>3, VersionFacts DEF Replaced, Inv
      <4>5. copy.xmp >= work.component.content
          BY <3>3, <4>4 DEF SidecarInv, ChangeIsRead
      <4>6. work.component.content \in 1 .. edits
          BY <4>1, NoneAssumption DEF SidecarInv, Versions, IsVersion
      <4>7. copy.xmp # 0
          BY <4>5, <4>6
      <4> QED
          BY <3>1, <3>3, <4>3, <4>5, <4>7 DEF Replaced
    <3> QED
        BY <2>3, <3>1, <3>2, <3>3 DEF ChangeIsRead
  <2> QED
      BY <2>1, <2>2, <2>3, OnTheWay
<1> QED
    BY <1>1, <1>2 DEF SidecarInv

\* Only RecordSidecar replaces a recorded XMP.
LEMMA RecordReplaces ==
    ASSUME Inv, [Next]_vars, files'.sidecar # None, files'.sidecar # files.sidecar
    PROVE  RecordSidecar
<1>1. CASE Steps \/ InspectOriginFails \/ CopyRequestFails \/ Crash
  <2>1. ~ReadComponent
      BY DEF ReadComponent
  <2> QED
      BY <1>1, <2>1, OtherSteps DEF Inv
<1>2. CASE Environment
  <2>1. ~NewSidecar /\ ~EditSidecar
      BY DEF NewSidecar, EditSidecar, WriteSidecar, tables
  <2> QED
      BY <1>2, <2>1, OtherEvents DEF Inv
<1>3. CASE UNCHANGED vars
    BY <1>3 DEF vars, tables
<1> QED
    BY <1>1, <1>2, <1>3 DEF Next

\* The version of an XMP that replaces another one in asset_replica_files was read by
\* Immich before, whatever is edited, deleted, imported or lost between the reading of
\* the file, the refresh and the record of it: no change is recorded away
\* (ensureRecipientComponents, reconcile.go:1699-1721).
THEOREM ChangesAreRead == Spec => RefreshedBeforeRecorded
<1>1. Inv /\ SidecarInv /\ [Next]_vars =>
          [ LET old == files.sidecar
                new == files'.sidecar
            IN  /\ old # None /\ new # None /\ old # new
                /\ old.state = "ready" /\ new.state = "ready"
                /\ copy.id = row.id /\ link.sidecar = new.inode
                => copy.xmp >= new.content ]_vars
  <2> SUFFICES ASSUME Inv, SidecarInv, [Next]_vars,
                      files.sidecar # None, files'.sidecar # None,
                      files.sidecar # files'.sidecar,
                      files.sidecar.state = "ready", files'.sidecar.state = "ready",
                      copy.id = row.id, link.sidecar = files'.sidecar.inode
               PROVE  copy.xmp >= files'.sidecar.content
      OBVIOUS
  <2>1. RecordSidecar
      BY RecordReplaces
  <2>2. pc = "recordSidecar" /\ files'.sidecar = work.component
      BY <2>1 DEF RecordSidecar, Inv, TypeOK, TablesTypeOK, Kinds
  <2>3. files.sidecar \in Components /\ work.component \in Components
      BY <2>2, VersionFacts DEF Inv
  <2>4. files.sidecar.content # work.component.content
    <3> SUFFICES ASSUME files.sidecar.content = work.component.content PROVE FALSE
        OBVIOUS
    <3>1. files.sidecar.inode = work.component.inode
        BY <2>2 DEF SidecarInv, Versions, SameVersion
    <3> QED
        BY <2>2, <2>3, <3>1 DEF Components
  <2> QED
      BY <2>2, <2>4 DEF SidecarInv, ChangeIsRead, Replaced
<1>2. Init => Inv /\ SidecarInv
  <2>1. Init => SidecarInv
      BY DEF Init, Idle, Kinds, Inodes, SidecarInv, Versions, NoLaterContent, NoSharedContent,
         SourceIsWritten, IsVersion, SameVersion, StateIsRead, ChangeIsRead
  <2> QED
      BY <2>1, InitKeeps
<1>3. Inv /\ SidecarInv /\ [Next]_vars => Inv' /\ SidecarInv'
    BY NextKeeps, NextSidecar
<1> QED
    BY <1>1, <1>2, <1>3, PTL DEF Spec, RefreshedBeforeRecorded
=============================================================================
