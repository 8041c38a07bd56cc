----------------------------- MODULE ScanLease -----------------------------
(***************************************************************************)
(* How a member's library is scanned. New hard links become assets only    *)
(* when Immich crawls the library; a crawl is expensive, so a bridge       *)
(* process asks for one only if it holds a claim, a row of SQLite that     *)
(* outlives it. The claim is free again when Immich reports another        *)
(* refreshedAt than it recorded, or when the lease has elapsed. Several    *)
(* processes use the same database: a restarted one, or a second bridge.   *)
(*                                                                         *)
(* Covered: requestLibraryScan and its callers' condition                  *)
(* (internal/reconcile/reconcile.go), ClaimLibraryScan and                 *)
(* ReleaseLibraryScan (internal/store/store.go). Members have libraries    *)
(* and claims of their own, so one member is enough.                       *)
(*                                                                         *)
(* Instants are represented by their age, counted in ticks and only as far *)
(* as they are compared. Values of refreshedAt, compared for equality only, *)
(* are 0 for the current one and n for the n-th last of those that somebody *)
(* still holds. The three requests of a call time out after 20 s each       *)
(* (httpclient.go:29), so that a call is shorter than the lease.            *)
(*                                                                         *)
(* A definition marked Mutant is a faulty variant of the one below it. The *)
(* specification does not use it; it shows that a property can fail.       *)
(***************************************************************************)
EXTENDS Integers, FiniteSets

CONSTANTS
    Processes,  \* bridge processes that share the database
    Files,      \* hard links that appear in the library
    Interval,   \* scanInterval, in ticks
    Lease,      \* scanLease, in ticks
    MaxCall,    \* bound: ticks that one call of requestLibraryScan may last
    MaxFaults,  \* bound: crashes, failed requests, lost crawls
    None        \* no row, no crawl

ASSUME LeaseAssumption ==
    /\ Interval \in Nat \ {0} /\ Lease \in Nat /\ MaxCall \in Nat /\ MaxCall < Lease
    /\ MaxFaults \in Nat
    /\ IsFiniteSet(Processes) /\ IsFiniteSet(Files)

VARIABLES
    \* Immich (external)
    linked,     \* files on disk; their replicas are pending_import
    imported,   \* files that Immich has assets for
    queued,     \* scans that wait, none, one, or several
    crawl,      \* the files that the running crawl will find, or None
    refreshed,  \* refreshedAt of the library: 0, or None before its first crawl
    \* SQLite
    ready,      \* files whose asset was found by path: replicas in state ready
    row,        \* library_scan_state
    \* the processes
    at,         \* where requestLibraryScan is
    since,      \* age of its now
    read,       \* its baseline
    last,       \* age of lastScanAt; Interval when it is older, or not set
    \* history
    ack,        \* the last acknowledged scan request, until its refresh or its lease's end
    stale,      \* a claim since the last refresh has another baseline than that refresh
    faults      \* faults so far

immich == <<linked, imported, queued, crawl, refreshed>>
vars == <<immich, ready, row, at, since, read, last, ack, stale, faults>>

MaxAge == Lease + MaxCall
Ages == 0 .. MaxAge

\* The current value, and as many as can be held at a time.
Baselines == {None} \cup 0 .. Cardinality(Processes) + 1

Rows == [by : Processes \cup {None}, base : Baselines, age : Ages]
Acks == [known : BOOLEAN, age : 0 .. Lease - 1]

ASSUME NoneAssumption == None \notin Processes \cup Nat /\ None \notin Rows \cup Acks

Older(age, limit) == IF age < limit THEN age + 1 ELSE limit

CanFail == faults < MaxFaults
Fails == CanFail /\ faults' = faults + 1

-----------------------------------------------------------------------------
(* Immich *)

\* ensureReplica has linked a file.
Link(f) ==
    /\ f \notin linked
    /\ linked' = linked \cup {f}
    /\ UNCHANGED <<imported, queued, crawl, refreshed, ready, row, at, since, read, last, ack,
                   stale, faults>>

\* A scan request arrives. Two waiting scans are as good as more.
Enqueue == queued' = IF queued < 2 THEN queued + 1 ELSE 2

\* A crawl sees the files that are there when it starts.
StartCrawl ==
    /\ queued > 0 /\ crawl = None
    /\ queued' = queued - 1
    /\ crawl' = linked
    /\ UNCHANGED <<linked, imported, refreshed, ready, row, at, since, read, last, ack, stale,
                   faults>>

Held == {read[p] : p \in Processes} \cup (IF row = None THEN {} ELSE {row.base})

\* What v, a value somebody holds, is called after the next refresh.
Aged(v) == IF v = None THEN None ELSE 1 + Cardinality({w \in Held \ {None} : w < v})

\* The crawl is over: its files are assets, and refreshedAt is a new instant.
FinishCrawl ==
    /\ crawl # None
    /\ imported' = imported \cup crawl
    /\ crawl' = None
    /\ refreshed' = 0
    /\ IF refreshed = None
         THEN UNCHANGED <<read, row>>
         ELSE /\ read' = [p \in Processes |-> Aged(read[p])]
              /\ row' = IF row = None THEN None ELSE [row EXCEPT !.base = Aged(@)]
    /\ ack' = None /\ stale' = FALSE
    /\ UNCHANGED <<linked, queued, ready, at, since, last, faults>>

\* Immich forgets its scans: it is restarted, or the crawl ends in an error.
LoseScans ==
    /\ queued > 0 \/ crawl # None
    /\ Fails
    /\ queued' = 0 /\ crawl' = None
    /\ UNCHANGED <<linked, imported, refreshed, ready, row, at, since, read, last, ack, stale>>

-----------------------------------------------------------------------------
(* The bridge *)

\* Mutant: a file is ready without an asset.
LookUpAny(f) ==
    /\ f \in Files \ ready
    /\ ready' = ready \cup {f}
    /\ UNCHANGED <<immich, row, at, since, read, last, ack, stale, faults>>

\* resolvePendingImport finds the asset of a file.
LookUp(f) ==
    /\ f \in imported \ ready
    /\ ready' = ready \cup {f}
    /\ UNCHANGED <<immich, row, at, since, read, last, ack, stale, faults>>

\* Files that wait for their import keep the bridge asking for a scan, unless this
\* process did so less than scanInterval ago.
StartRequest(p) ==
    /\ at[p] = "idle"
    /\ linked \ ready # {}
    /\ last[p] >= Interval
    /\ at' = [at EXCEPT ![p] = "reading"]
    /\ since' = [since EXCEPT ![p] = 0]
    /\ UNCHANGED <<immich, ready, row, read, last, ack, stale, faults>>

\* GetLibrary. A failed request leaves the baseline empty, like a missing refreshedAt.
ReadLibrary(p) ==
    /\ at[p] = "reading"
    /\ at' = [at EXCEPT ![p] = "claiming"]
    /\ \/ /\ read' = [read EXCEPT ![p] = refreshed]
          /\ UNCHANGED faults
       \/ /\ read' = [read EXCEPT ![p] = None]
          /\ Fails
    /\ UNCHANGED <<immich, ready, row, since, last, ack, stale>>

Elapsed(p) == row.age - since[p]

\* Mutant: a claim without a result holds for good.
ClaimableIfRefreshed(p) ==
    row # None => read[p] # None /\ row.base # read[p]

\* The WHERE clause of ClaimLibraryScan, or no conflicting row at all.
Claimable(p) ==
    row # None =>
       \/ read[p] # None /\ row.base # read[p]
       \/ Elapsed(p) >= Lease

\* What is kept of a call that has returned, and of its claim r.
Returned(p, r) ==
    /\ at' = [at EXCEPT ![p] = "idle"]
    /\ read' = [read EXCEPT ![p] = None]
    /\ since' = [since EXCEPT ![p] = 0]
    /\ row' = IF r # None /\ r.by = p THEN [r EXCEPT !.by = None] ELSE r

Claim(p) ==
    /\ at[p] = "claiming"
    /\ Claimable(p)
    /\ row' = [by |-> p, base |-> read[p], age |-> since[p]]
    /\ at' = [at EXCEPT ![p] = "requesting"]
    /\ stale' = (stale \/ read[p] # refreshed)
    /\ UNCHANGED <<immich, ready, since, read, last, ack, faults>>

\* The claim is held by another call, or the database fails.
NoClaim(p) ==
    /\ at[p] = "claiming"
    /\ IF Claimable(p) THEN Fails ELSE UNCHANGED faults
    /\ Returned(p, row)
    /\ UNCHANGED <<immich, ready, last, ack, stale>>

\* ScanLibrary succeeds.
RequestScan(p) ==
    /\ at[p] = "requesting"
    /\ Enqueue
    /\ last' = [last EXCEPT ![p] = IF since[p] < Interval THEN since[p] ELSE Interval]
    /\ ack' = [known |-> read[p] = refreshed, age |-> since[p]]
    /\ Returned(p, row)
    /\ UNCHANGED <<linked, imported, crawl, refreshed, ready, stale, faults>>

\* ScanLibrary fails for the bridge; Immich may have queued the scan.
RequestFails(p) ==
    /\ at[p] = "requesting"
    /\ Fails
    /\ Enqueue \/ UNCHANGED queued
    /\ at' = [at EXCEPT ![p] = "releasing"]
    /\ read' = [read EXCEPT ![p] = None]
    /\ UNCHANGED <<linked, imported, crawl, refreshed, ready, row, since, last, ack, stale>>

\* Mutant: any claim is deleted, also a newer one of another process.
ReleaseAny(p) ==
    /\ at[p] = "releasing"
    /\ \/ Returned(p, None) /\ UNCHANGED faults
       \/ Returned(p, row) /\ Fails
    /\ UNCHANGED <<immich, ready, last, ack, stale>>

\* ReleaseLibraryScan deletes the row with this call's requested_at; its error is
\* ignored.
Release(p) ==
    /\ at[p] = "releasing"
    /\ \/ Returned(p, IF row # None /\ row.by = p THEN None ELSE row) /\ UNCHANGED faults
       \/ Returned(p, row) /\ Fails
    /\ UNCHANGED <<immich, ready, last, ack, stale>>

\* The process is killed and restarted: lastScanAt is only in memory.
Crash(p) ==
    /\ at[p] # "idle" \/ last[p] < Interval
    /\ Fails
    /\ last' = [last EXCEPT ![p] = Interval]
    /\ Returned(p, row)
    /\ UNCHANGED <<immich, ready, ack, stale>>

Tick ==
    /\ \A p \in Processes : at[p] # "idle" => since[p] < MaxCall
    /\ since' = [p \in Processes |-> IF at[p] = "idle" THEN 0 ELSE since[p] + 1]
    /\ last' = [p \in Processes |-> Older(last[p], Interval)]
    /\ row' = IF row = None THEN None ELSE [row EXCEPT !.age = Older(@, MaxAge)]
    /\ ack' = IF ack = None \/ ack.age + 1 >= Lease THEN None ELSE [ack EXCEPT !.age = @ + 1]
    /\ UNCHANGED <<immich, ready, at, read, stale, faults>>

Init ==
    /\ linked = {} /\ imported = {} /\ crawl = None
    /\ queued \in {0, 1}  \* perhaps a scan of Immich's own schedule
    /\ refreshed \in {None, 0}
    /\ ready = {} /\ row = None
    /\ at = [p \in Processes |-> "idle"]
    /\ since = [p \in Processes |-> 0]
    /\ read = [p \in Processes |-> None]
    /\ last = [p \in Processes |-> Interval]
    /\ ack = None /\ stale = FALSE /\ faults = 0

Step(p) ==
    StartRequest(p) \/ ReadLibrary(p) \/ Claim(p) \/ NoClaim(p) \/ RequestScan(p)
    \/ RequestFails(p) \/ Release(p)

Next ==
    \/ \E f \in Files : Link(f) \/ LookUp(f)
    \/ StartCrawl \/ FinishCrawl \/ LoseScans
    \/ \E p \in Processes : Step(p) \/ Crash(p)
    \/ Tick

Spec == Init /\ [][Next]_vars

\* Calls return, cycles follow each other, Immich works off its scans, time passes.
FairSpec ==
    /\ Spec
    /\ \A p \in Processes : WF_vars(Step(p))
    /\ \A f \in Files : WF_vars(LookUp(f))
    /\ WF_vars(StartCrawl) /\ WF_vars(FinishCrawl)
    /\ WF_vars(Tick)

-----------------------------------------------------------------------------
(* Properties *)

\* Type correctness of library, claim and calls.
TypeOK ==
    /\ {imported, ready} \subseteq SUBSET linked /\ linked \subseteq Files
    /\ queued \in 0..2 /\ (crawl = None \/ crawl \subseteq linked)
    /\ refreshed \in {None, 0}
    /\ row = None \/ row \in Rows
    /\ at \in [Processes -> {"idle", "reading", "claiming", "requesting", "releasing"}]
    /\ since \in [Processes -> 0..MaxCall]
    /\ read \in [Processes -> Baselines]
    /\ last \in [Processes -> 0..Interval]
    /\ ack = None \/ ack \in Acks
    /\ stale \in BOOLEAN
    /\ faults \in 0..MaxFaults

\* reconcile.go:69-71: scan requests are single-flight across restarts and processes:
\* nothing is requested while an acknowledged scan has neither changed refreshedAt nor
\* run out of its lease. That holds among calls that know the current refreshedAt: the
\* acknowledged scan was claimed with it, p read it, and so did every claim since. Then no
\* release, lapse of another claim, crash or lost crawl makes p ask for a second scan. (A
\* claim made while GetLibrary fails records no refreshedAt; the next call that reads one
\* finds it changed.)
SingleFlightWhenKnown ==
    [][\A p \in Processes :
          RequestScan(p) /\ read[p] = refreshed /\ ~stale =>
             ack = None \/ ~ack.known]_vars

\* README.md:13: cycles resume after an import delay, an outage or a restart. Every
\* linked file becomes a ready replica, also when the process that claimed the scan is
\* killed, its request or the crawl is lost, or its release fails.
FilesImported == \A f \in Files : [](f \in linked => <>(f \in ready))
=============================================================================
