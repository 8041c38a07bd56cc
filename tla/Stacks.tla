------------------------------- MODULE Stacks -------------------------------
(***************************************************************************)
(* How a stack of source assets is mirrored to a recipient. A pass reads   *)
(* the source stack (a full pass lists all of them first), compares        *)
(* it with the recipient's replicas and with what it recorded of the       *)
(* recipient's stack, and deletes and creates that stack. A deletion or a  *)
(* creation and its record are separate steps; users change their stacks   *)
(* and delete photos in between, and any request may fail.                 *)
(*                                                                         *)
(* Covered: internal/reconcile/reconcile.go (rememberSourceStack,          *)
(* discoverSourceStacks, reconcileStacks, sourceStackGone,                 *)
(* reconcileStackReplica, deleteRecipientStack, stackRecipientAssets,      *)
(* removeMirroredStack) and the stack tables of the store. One source      *)
(* member, whose assets are all known, and one recipient: recipients have  *)
(* records of their own and are served one after the other. A pass takes   *)
(* all stacks; WorkBatches models the rotation of a limited batch.         *)
(*                                                                         *)
(* A definition marked Mutant is a faulty variant of the one below it. The *)
(* specification does not use it; it shows that a property can fail.       *)
(***************************************************************************)
EXTENDS Naturals, FiniteSets

CONSTANTS
    Assets,      \* source assets; replicas are of the source asset's name
    StackIds,    \* ids of source stacks
    CopyIds,     \* ids that tell a recipient asset from a later one of its source
    RecipientStackIds,
    MaxEdits,    \* bound: edits by users
    MaxFaults,   \* bound: failed requests and crashes
    None, Gone

ASSUME StacksAssumption ==
    /\ IsFiniteSet(Assets) /\ Cardinality(Assets) >= 2
    /\ IsFiniteSet(StackIds) /\ StackIds # {}
    /\ CopyIds \subseteq Nat \ {0} /\ CopyIds # {}
    /\ RecipientStackIds \subseteq Nat \ {0}
    /\ MaxEdits \in Nat /\ MaxFaults \in Nat

\* There is always another id for a stack.
ASSUME IdsAssumption ==
    \A S \in SUBSET RecipientStackIds :
       IsFiniteSet(S) /\ Cardinality(S) <= Cardinality(Assets) + Cardinality(StackIds) =>
          S # RecipientStackIds

VARIABLES
    \* Immich, source account
    alive,      \* assets that exist
    stack,      \* the source stack, or None
    \* Immich, recipient account
    copies,     \* the recipient asset of each source asset, 0 for none
    stacks,     \* the recipient's stacks
    \* SQLite
    replica,    \* the recipient asset in a ready replica of a shared asset, else 0
    unused,     \* assets whose replicas are in state pending_removal or deleting
    source,     \* source_stacks: the recorded primary of each stack, or None
    record,     \* stack_replicas, or None
    \* the reconciler
    cache,      \* stackCache: what the pass's listing has of each stack, or None
    pc,         \* where the stack pass is
    todo,       \* stacks of this pass that it has not come to
    key,        \* the stack it works on
    wanted,     \* assetIDs for it, None if it is incomplete, Gone if it is gone
    made,       \* the stack that CreateStack returned, or 0
    \* history
    seen,       \* what the source stack has been since the pass began
    orphans,    \* recipient stacks whose creation was not recorded
    stale,      \* source stacks whose recorded recipient stack the recipient dissolved,
                \* or a pass that ended before it recorded that
    edits, faults

accounts == <<alive, stack, copies, stacks>>
memory == <<cache, pc, todo, key, wanted, made>>
tables == <<replica, unused, source, record>>
history == <<seen, orphans, stale, edits, faults>>
vars == <<accounts, tables, memory, history>>

SourceStacks ==
    {s \in [id : StackIds, primary : Assets, members : SUBSET Assets] :
        s.primary \in s.members /\ Cardinality(s.members) >= 2}

\* Assets of the recipient, and lists of them. A list is ordered by source ids after
\* the primary, so that its primary and its members tell it.
Copies == Assets \X CopyIds
Lists == [primary : Copies, members : SUBSET Copies]
Records == [id : RecipientStackIds \cup {0}, list : Lists \cup {None}, ready : BOOLEAN]

ASSUME NoneAssumption ==
    /\ None # Gone /\ None \notin Assets \cup StackIds
    /\ None \notin SourceStacks \cup Lists \cup Records /\ Gone \notin Lists

Least(S) == CHOOSE x \in S : \A y \in S : x <= y

NoStack == [id |-> 0, list |-> None, ready |-> FALSE]
Recorded(k) == IF record[k] = None THEN NoStack ELSE record[k]

CanFail == faults < MaxFaults
Fails == CanFail /\ faults' = faults + 1

-----------------------------------------------------------------------------
(* Immich *)

\* What remains of a stack without x: the stack is gone if fewer than two are left.
Without(s, x, primary) ==
    [s EXCEPT !.members = @ \ {x}, !.primary = IF @ = x THEN primary ELSE @]

Edit == edits < MaxEdits /\ edits' = edits + 1

\* The source user stacks assets.
UserStack ==
    /\ stack = None
    /\ Edit
    /\ \E s \in SourceStacks :
          /\ s.members \subseteq alive
          /\ source[s.id] = None /\ cache[s.id] = None /\ key # s.id
          /\ stack' = s
    /\ UNCHANGED <<alive, copies, stacks, tables, memory, orphans, stale, faults>>
    /\ seen' = seen \cup {stack'}

\* The source user changes the primary asset or the members of the stack.
UserRestack ==
    /\ stack # None
    /\ Edit
    /\ \E s \in SourceStacks \ {stack} :
          s.id = stack.id /\ s.members \subseteq alive /\ stack' = s
    /\ UNCHANGED <<alive, copies, stacks, tables, memory, orphans, stale, faults>>
    /\ seen' = seen \cup {stack'}

UserUnstack ==
    /\ stack # None
    /\ Edit
    /\ stack' = None
    /\ UNCHANGED <<alive, copies, stacks, tables, memory, orphans, stale, faults>>
    /\ seen' = seen \cup {stack'}

\* The source user deletes a photo for good.
UserDelete(a) ==
    /\ a \in alive
    /\ Edit
    /\ alive' = alive \ {a}
    /\ IF stack = None \/ a \notin stack.members THEN UNCHANGED stack
       ELSE IF Cardinality(stack.members) = 2 THEN stack' = None
       ELSE \E p \in stack.members \ {a} : stack' = Without(stack, a, p)
    /\ UNCHANGED <<copies, stacks, tables, memory, orphans, stale, faults>>
    /\ seen' = seen \cup {stack'}

\* The recipient's stacks after c is deleted.
StacksWithout(c) ==
    {s \in stacks : c \notin s.members}
    \cup {Without(s, c, CHOOSE p \in s.members \ {c} : TRUE) :
             s \in {t \in stacks : c \in t.members /\ Cardinality(t.members) > 2}}

DeleteCopy(a) ==
    /\ copies[a] # 0
    /\ copies' = [copies EXCEPT ![a] = 0]
    /\ stacks' = StacksWithout(<<a, copies[a]>>)

\* The recipient deletes a photo for good.
RecipientDelete(a) ==
    /\ Edit
    /\ DeleteCopy(a)
    /\ UNCHANGED <<alive, stack, tables, memory, seen, orphans, stale, faults>>

RecipientUnstack ==
    /\ Edit
    /\ \E s \in stacks :
          /\ stacks' = stacks \ {s}
          /\ stale' = stale \cup {k \in StackIds : Recorded(k).id = s.id}
    /\ UNCHANGED <<alive, stack, copies, tables, memory, seen, orphans, faults>>

-----------------------------------------------------------------------------
(* The rest of the cycle: replicas come and go. *)

\* An asset is shared, and its replica is ready: with the asset that is still there, or
\* with a new one.
ShareAsset(a) ==
    /\ pc = "idle" /\ replica[a] = 0 /\ a \in alive
    /\ IF copies[a] # 0 THEN UNCHANGED copies
       ELSE LET used == {c \in CopyIds :
                            \E k \in StackIds : record[k] # None /\ record[k].list # None
                                                /\ <<a, c>> \in record[k].list.members}
            IN  /\ used # CopyIds
                /\ copies' = [copies EXCEPT ![a] = Least(CopyIds \ used)]
    /\ replica' = [replica EXCEPT ![a] = copies'[a]]
    /\ unused' = unused \ {a}
    /\ UNCHANGED <<alive, stack, stacks, source, record, memory, seen, orphans, stale, edits, faults>>

\* An asset is no longer shared.
UnshareAsset(a) ==
    /\ pc = "idle" /\ replica[a] # 0
    /\ Edit
    /\ replica' = [replica EXCEPT ![a] = 0]
    /\ UNCHANGED <<accounts, unused, source, record, memory, seen, orphans, stale, faults>>

\* ensureReplica finds that the recipient's asset, or the source's, is gone.
AuditReplica(a) ==
    /\ pc = "idle" /\ replica[a] # 0
    /\ copies[a] # replica[a] \/ a \notin alive
    /\ replica' = [replica EXCEPT ![a] = 0]
    /\ UNCHANGED <<accounts, unused, source, record, memory, seen, orphans, stale, edits, faults>>

\* After the stacks: cleanupReplica deletes the asset of a replica that an earlier pass
\* found unused.
CleanUpReplica(a) ==
    /\ pc = "cleanup" /\ a \in unused
    /\ DeleteCopy(a)
    /\ unused' = unused \ {a}
    /\ UNCHANGED <<alive, stack, replica, source, record, memory, seen, orphans, stale, edits, faults>>

\* MarkUnused ends the pass.
MarkUnused ==
    /\ pc = "cleanup"
    /\ unused' = {a \in Assets : replica[a] = 0 /\ copies[a] # 0}
    /\ pc' = "idle"
    /\ UNCHANGED <<accounts, replica, source, record, cache, todo, key, wanted, made, seen,
                   orphans, stale, edits, faults>>

-----------------------------------------------------------------------------
(* Discovery *)

\* UpsertSourceStack.
Remember(s) == source' = [source EXCEPT ![s.id] = s.primary]

\* rememberSourceStack, called whenever a source asset has been read.
RememberSourceStack ==
    /\ pc = "idle" /\ stack # None
    /\ source[stack.id] # stack.primary
    /\ Remember(stack)
    /\ UNCHANGED <<accounts, replica, unused, record, memory, seen, orphans, stale, edits, faults>>

\* Run begins a full pass, with discoverSourceStacks: the cache is cleared and filled from
\* one listing of the member's stacks, unless that fails.
DiscoverSourceStacks ==
    /\ pc = "idle"
    /\ pc' = "discovered"
    /\ \/ /\ stack = None
          /\ cache' = [k \in StackIds |-> None]
          /\ UNCHANGED <<source, faults>>
       \/ /\ stack # None
          /\ Remember(stack)
          /\ cache' = [k \in StackIds |-> IF k = stack.id THEN stack ELSE None]
          /\ UNCHANGED faults
       \/ /\ Fails
          /\ cache' = [k \in StackIds |-> None]
          /\ UNCHANGED source
    /\ seen' = {stack}
    /\ UNCHANGED <<accounts, replica, unused, record, todo, key, wanted, made, orphans, stale, edits>>

\* Mutant: a work pass keeps the listing of the last full pass.
StartStacksKept ==
    /\ pc \in {"idle", "discovered"}
    /\ pc' = "pick"
    /\ todo' = {k \in StackIds : source[k] # None}
    /\ seen' = IF pc = "idle" THEN {stack} ELSE seen
    /\ UNCHANGED <<accounts, tables, cache, key, wanted, made, orphans, stale, edits, faults>>

\* reconcileStacks: of a full pass after the discovery, or of a work pass, for which
\* startCycle has cleared the cache.
StartStacks ==
    /\ pc \in {"idle", "discovered"}
    /\ pc' = "pick"
    /\ todo' = {k \in StackIds : source[k] # None}
    /\ IF pc = "discovered" THEN UNCHANGED <<cache, seen>>
       ELSE cache' = [k \in StackIds |-> None] /\ seen' = {stack}
    /\ UNCHANGED <<accounts, tables, key, wanted, made, orphans, stale, edits, faults>>

-----------------------------------------------------------------------------
(* One source stack *)

\* stackRecipientAssets: the recipient's assets, or None unless every member has a
\* ready replica.
StackRecipientAssets(s) ==
    IF \E a \in s.members : replica[a] = 0 THEN None
    ELSE [primary |-> <<s.primary, replica[s.primary]>>,
          members |-> {<<a, replica[a]>> : a \in s.members}]

\* On to the next stack; with nothing of this one in memory.
Done ==
    /\ pc' = "pick"
    /\ key' = None /\ wanted' = None /\ made' = 0

\* Mutant: the primary is not part of the signature.
UpToDateMembers(k, list) ==
    Recorded(k).ready /\ Recorded(k).id # 0 /\ Recorded(k).list.members = list.members

\* The recorded stack is ready and has the signature.
UpToDate(k, list) ==
    Recorded(k).ready /\ Recorded(k).id # 0 /\ Recorded(k).list = list

\* reconcileStackReplica, up to its first change at the recipient.
Compare(s) ==
    LET k == s.id
        list == StackRecipientAssets(s)
    IN  IF list # None /\ UpToDate(k, list)
          THEN Done /\ UNCHANGED record
        ELSE IF Recorded(k).id # 0
          THEN /\ pc' = "delete" /\ key' = k /\ wanted' = list
               /\ UNCHANGED <<record, made>>
        ELSE IF list # None
          THEN /\ pc' = "create" /\ key' = k /\ wanted' = list
               /\ UNCHANGED <<record, made>>
        ELSE Done /\ record' = [record EXCEPT ![k] = NoStack]

\* What the cache or else GetStack has of a stack.
Readable(k) ==
    IF cache[k] # None THEN {cache[k]} ELSE {s \in {stack} \ {None} : s.id = k}

\* The next stack is in the cache, or GetStack returns it. Its primary is recorded.
TakeStack(k) ==
    /\ pc = "pick" /\ k \in todo
    /\ todo' = todo \ {k}
    /\ \E s \in Readable(k) :
          /\ Remember(s)
          /\ Compare(s)
    /\ UNCHANGED <<accounts, replica, unused, cache, seen, orphans, stale, edits, faults>>

\* GetStack fails: there is no such stack, or for another reason.
TakeMissing(k) ==
    /\ pc = "pick" /\ k \in todo
    /\ cache[k] = None
    /\ IF stack # None /\ stack.id = k THEN Fails ELSE UNCHANGED faults
    /\ todo' = todo \ {k}
    /\ pc' = "confirm" /\ key' = k
    /\ UNCHANGED <<accounts, tables, cache, wanted, made, seen, orphans, stale, edits>>

\* Mutant: a stack that could not be read is taken for gone.
SourceStackGoneUnread(k) == TRUE

\* sourceStackGone: the recorded primary is an asset that is not in this stack.
SourceStackGone(k) ==
    /\ source[k] \in alive
    /\ (stack # None => ~(stack.id = k /\ source[k] \in stack.members))

\* Then removeMirroredStack; otherwise, or if GetAsset fails, nothing is done.
ConfirmGone ==
    /\ pc = "confirm"
    /\ \/ /\ SourceStackGone(key)
          /\ pc' = IF Recorded(key).id # 0 THEN "delete" ELSE "write"
          /\ wanted' = Gone
          /\ UNCHANGED <<key, made, faults>>
       \/ ~SourceStackGone(key) /\ Done /\ UNCHANGED faults
       \/ Fails /\ Done
    /\ UNCHANGED <<accounts, tables, cache, todo, seen, orphans, stale, edits>>

\* DeleteStack succeeds.
DeleteRecipientStack ==
    /\ pc = "delete"
    /\ \E s \in stacks : s.id = record[key].id /\ stacks' = stacks \ {s}
    /\ pc' = IF wanted \in {None, Gone} THEN "write" ELSE "create"
    /\ UNCHANGED <<alive, stack, copies, tables, cache, todo, key, wanted, made, seen,
                   orphans, stale, edits, faults>>

\* DeleteStack fails: the stack does not exist, or the deletion is not done, or it is and
\* the answer is lost.
DeleteFails ==
    /\ pc = "delete"
    /\ \/ /\ ~\E s \in stacks : s.id = record[key].id
          /\ UNCHANGED <<stacks, faults>>
       \/ /\ Fails
          /\ stacks' \in {stacks, {s \in stacks : s.id # record[key].id}}
    /\ pc' = "inspect"
    /\ UNCHANGED <<alive, stack, copies, tables, cache, todo, key, wanted, made, seen,
                   orphans, stale, edits>>

\* Mutant: whatever the failure, the stack is taken for gone.
StackMissingUnread(k) == TRUE

\* Mutant: a failure is never taken for the stack being gone.
StackMissingNever(k) == FALSE

\* The recorded primary is an asset that is not in the recorded stack.
StackMissing(k) ==
    LET c == record[k].list.primary
    IN  /\ copies[c[1]] = c[2]
        /\ ~\E s \in stacks : s.id = record[k].id /\ c \in s.members

\* The recipient stack recorded for the stack at hand is gone.
Unrecorded ==
    {k \in {key} \cap StackIds : Recorded(k).id # 0 /\ Recorded(k).id \notin {s.id : s \in stacks}}

\* Then the deletion counts as done; otherwise, or if GetAsset fails, the error stays.
InspectPrimary ==
    /\ pc = "inspect"
    /\ \/ /\ StackMissing(key)
          /\ pc' = IF wanted \in {None, Gone} THEN "write" ELSE "create"
          /\ UNCHANGED <<key, wanted, made, stale, faults>>
       \/ ~StackMissing(key) /\ Done /\ UNCHANGED <<stale, faults>>
       \/ Fails /\ Done /\ stale' = stale \cup Unrecorded
    /\ UNCHANGED <<accounts, tables, cache, todo, seen, orphans, edits>>

\* Immich replaces the stacks of the assets that are stacked anew.
Stacked(id) ==
    {s \in stacks : s.members \cap wanted.members = {}}
    \cup {[id |-> id, primary |-> wanted.primary, members |-> wanted.members]}

Exist(list) == \A c \in list.members : copies[c[1]] = c[2]

NewId ==
    Least(RecipientStackIds \ ({s.id : s \in stacks} \cup {Recorded(k).id : k \in StackIds}))

\* Orphans that are still there, and id if it is none of them.
OrphansWith(id) == {s.id : s \in {t \in stacks' : t.id \in orphans \cup {id}}}

\* CreateStack succeeds.
CreateStack ==
    /\ pc = "create"
    /\ Exist(wanted)
    /\ stacks' = Stacked(NewId) /\ made' = NewId
    /\ orphans' = OrphansWith(0) \ {NewId}
    /\ pc' = "write"
    /\ UNCHANGED <<alive, stack, copies, tables, cache, todo, key, wanted, seen, stale, edits,
                   faults>>

\* CreateStack fails: an asset is gone, or nothing is done, or only the answer is lost.
\* The record says so.
CreateFails ==
    /\ pc = "create"
    /\ \/ ~Exist(wanted) /\ UNCHANGED <<stacks, orphans, faults>>
       \/ Exist(wanted) /\ Fails /\ UNCHANGED <<stacks, orphans>>
       \/ Exist(wanted) /\ Fails /\ stacks' = Stacked(NewId) /\ orphans' = OrphansWith(NewId)
    /\ record' = [record EXCEPT ![key] = [id |-> 0, list |-> wanted, ready |-> FALSE]]
    /\ stale' = stale \ {key}
    /\ Done
    /\ UNCHANGED <<alive, stack, copies, replica, unused, source, cache, todo, seen, edits>>

\* Mutant: the records of a forgotten source stack stay.
WriteRecordOnly ==
    /\ pc = "write"
    /\ CASE wanted = Gone -> source' = [source EXCEPT ![key] = None] /\ UNCHANGED record
         [] wanted = None -> record' = [record EXCEPT ![key] = NoStack]
                            /\ UNCHANGED source
         [] OTHER -> record' = [record EXCEPT ![key] =
                                  [id |-> made, list |-> wanted, ready |-> TRUE]]
                     /\ UNCHANGED source
    /\ Done
    /\ UNCHANGED <<accounts, replica, unused, cache, todo, seen, orphans, stale, edits, faults>>

\* DeleteSourceStack (its replicas' records go with it), or UpsertStackReplica: pending,
\* or ready with the stack that was made.
WriteRecord ==
    /\ pc = "write"
    /\ CASE wanted = Gone -> source' = [source EXCEPT ![key] = None]
                            /\ record' = [record EXCEPT ![key] = None]
         [] wanted = None -> record' = [record EXCEPT ![key] = NoStack]
                            /\ UNCHANGED source
         [] OTHER -> record' = [record EXCEPT ![key] =
                                  [id |-> made, list |-> wanted, ready |-> TRUE]]
                     /\ UNCHANGED source
    /\ Done
    /\ stale' = IF made \in {0} \cup {s.id : s \in stacks} THEN stale \ {key}
                                                         ELSE stale \cup {key}
    /\ UNCHANGED <<accounts, replica, unused, cache, todo, seen, orphans, edits, faults>>

FinishStacks ==
    /\ pc = "pick" /\ todo = {}
    /\ pc' = "cleanup"
    /\ UNCHANGED <<accounts, tables, cache, todo, key, wanted, made, seen, orphans, stale, edits,
                   faults>>

\* The process is killed, or the pass is cancelled or meets a database error. (Whatever
\* is left of the cache, the next pass clears it.)
Abort ==
    /\ pc # "idle"
    /\ Fails
    /\ pc' = "idle" /\ todo' = {}
    /\ key' = None /\ wanted' = None /\ made' = 0
    /\ cache' = [k \in StackIds |-> None]
    /\ UNCHANGED <<accounts, tables, seen, edits>>
    /\ stale' = stale \cup Unrecorded
    /\ orphans' = IF made # 0 THEN OrphansWith(made) ELSE orphans

-----------------------------------------------------------------------------

\* All assets are shared, their replicas are ready, and they have been stacked, which the
\* bridge is yet to find out. (Neither assets nor ids are told apart: any one will do.)
Init ==
    /\ alive = Assets
    /\ stack = [id |-> CHOOSE k \in StackIds : TRUE, primary |-> CHOOSE a \in Assets : TRUE,
                members |-> Assets]
    /\ copies = [a \in Assets |-> Least(CopyIds)] /\ stacks = {}
    /\ replica = copies /\ unused = {}
    /\ source = [k \in StackIds |-> None] /\ record = [k \in StackIds |-> None]
    /\ cache = [k \in StackIds |-> None]
    /\ pc = "idle" /\ todo = {}
    /\ key = None /\ wanted = None /\ made = 0
    /\ seen = {stack} /\ orphans = {} /\ stale = {} /\ edits = 0 /\ faults = 0

Users ==
    \/ UserStack \/ UserRestack \/ UserUnstack \/ RecipientUnstack
    \/ \E a \in Assets : UserDelete(a) \/ RecipientDelete(a)

Replicas ==
    \/ RememberSourceStack
    \/ \E a \in Assets :
          ShareAsset(a) \/ UnshareAsset(a) \/ AuditReplica(a)

Pass ==
    \/ DiscoverSourceStacks \/ StartStacks
    \/ \E k \in StackIds : TakeStack(k) \/ TakeMissing(k)
    \/ ConfirmGone \/ DeleteRecipientStack \/ DeleteFails \/ InspectPrimary
    \/ CreateStack \/ CreateFails \/ WriteRecord \/ FinishStacks
    \/ MarkUnused \/ \E a \in Assets : CleanUpReplica(a)

Next == Users \/ Replicas \/ Pass \/ Abort

Spec == Init /\ [][Next]_vars

\* Requests time out, a pass follows a pass, and a full pass comes at the end of every
\* discovery interval.
FairSpec == Spec /\ WF_vars(Pass) /\ SF_vars(DiscoverSourceStacks)

-----------------------------------------------------------------------------
(* Properties *)

AccountsTypeOK ==
    /\ alive \subseteq Assets /\ (stack = None \/ stack \in SourceStacks)
    /\ copies \in [Assets -> CopyIds \cup {0}]
    /\ \A s \in stacks : s.id \in RecipientStackIds /\ s.members \subseteq Copies

TablesTypeOK ==
    /\ replica \in [Assets -> CopyIds \cup {0}] /\ unused \subseteq Assets
    /\ source \in [StackIds -> Assets \cup {None}]
    /\ record \in [StackIds -> Records \cup {None}]
    /\ \A k \in StackIds : record[k] # None => source[k] # None

MemoryTypeOK ==
    /\ cache \in [StackIds -> SourceStacks \cup {None}]
    /\ \A k \in StackIds : cache[k] # None => cache[k].id = k
    /\ pc \in {"idle", "discovered", "pick", "confirm", "delete", "inspect", "create", "write",
              "cleanup"}
    /\ todo \subseteq StackIds /\ key \in StackIds \cup {None}
    /\ wanted \in Lists \cup {None, Gone} /\ made \in RecipientStackIds \cup {0}

HistoryTypeOK ==
    /\ seen \subseteq SourceStacks \cup {None} /\ orphans \subseteq RecipientStackIds
    /\ stale \subseteq StackIds
    /\ edits \in 0..MaxEdits /\ faults \in 0..MaxFaults

\* Type correctness of accounts, tables and memory.
TypeOK == AccountsTypeOK /\ TablesTypeOK /\ MemoryTypeOK /\ HistoryTypeOK

\* reconcile.go:842-844: a stack is mirrored all or nothing. What is created at the
\* recipient is the image, whole and with its primary, of what the source stack was at
\* some time since the pass began.
WholeStacks ==
    [][CreateStack =>
          \E s \in seen \ {None} :
             /\ s.id = key
             /\ wanted.primary[1] = s.primary
             /\ {c[1] : c \in wanted.members} = s.members]_vars

\* reconcile.go:733-735: a failed read is not a deletion. The recipient's stack is removed
\* as gone only if since the pass began the source stack was not there, or the
\* recorded primary not in it.
GoneConfirmed ==
    [][DeleteRecipientStack /\ wanted = Gone =>
          \E s \in seen : s # None /\ s.id = key => source[key] \notin s.members]_vars

\* The asset that would prove the absence of a recorded recipient stack exists.
Provable(k) ==
    Recorded(k).id # 0 =>
       LET c == record[k].list.primary IN copies[c[1]] = c[2]

\* The source stack there is, and its image at the recipient.
SourceId == IF stack = None THEN None ELSE stack.id
Image == IF stack = None THEN None ELSE StackRecipientAssets(stack)
Complete == IF Image = None THEN FALSE ELSE Exist(Image)

\* The recipient has that image for a stack, and it is the recorded one.
Mirrored ==
    IF stack = None \/ Image = None THEN FALSE
    ELSE /\ Recorded(stack.id).ready /\ Recorded(stack.id).list = Image
         /\ \E s \in stacks : /\ s.id = Recorded(stack.id).id
                               /\ s.primary = Image.primary /\ s.members = Image.members

\* A stale record that is the image of the source stack: the source is what it was when
\* the recipient stack was made, so that reconcileStackReplica does not look for it.
StaleImage ==
    IF stack = None \/ Image = None THEN FALSE
    ELSE stack.id \in stale /\ UpToDate(stack.id, Image)

\* README.md:233: a source stack is mirrored after every member has a ready replica, and
\* the source's primary remains primary. What fails is tried again, and the recipient's
\* stack follows the last change of the source, unless the record is stale and the source
\* returned to it.
StacksMirrored ==
    <>[](Complete /\ ~StaleImage /\ \A k \in StackIds : Provable(k)) => <>[]Mirrored

\* A stack that is not there for good is forgotten, and what was recorded for the
\* recipient removed, unless the assets that prove the absence are gone too.
StacksRemoved ==
    \A k \in StackIds :
       <>[](SourceId # k /\ Provable(k) /\ source[k] \in alive \cup {None})
       => <>[](source[k] = None)

\* README.md:233: a stack with an unshared or pending member stays unstacked for
\* recipients, and so does one that is gone: no stack that the bridge made and recorded
\* is left at the recipient, whatever requests fail or have their answers lost.
IncompleteUnstacked ==
    <>[](/\ Image = None
         /\ \A k \in StackIds : Provable(k) /\ source[k] \in alive \cup {None})
       => <>[](\A s \in stacks : s.id \in orphans)

\* README.md:233: source stacks are mirrored after every member has a ready replica, also
\* when a recipient asset was deleted and imported anew.
CompleteMirrored == <>[](Complete /\ ~StaleImage) => <>[]Mirrored
=============================================================================
