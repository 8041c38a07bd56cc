-------------------------- MODULE ScanLease_proofs --------------------------
(* ScanLease is single-flight among the calls that know the library, for   *)
(* any number of processes and any lease longer than a call.               *)
EXTENDS ScanLease, FiniteSetTheorems, TLAPS

-----------------------------------------------------------------------------
(* The inductive invariant: whose claim the row is. *)

\* A library that was never crawled has no refreshedAt that anybody could hold.
NothingToHold ==
    refreshed = None =>
       (\A p \in Processes : read[p] = None) /\ (row # None => row.base = None)

\* p asks for a scan, and the library is still as p read it.
Current(p) == at[p] = "requesting" /\ read[p] = refreshed

\* The claim of such a call is the row, and as old as the call's now.
ClaimIsHeld ==
    ~stale =>
       \A p \in Processes : Current(p) =>
          row # None /\ row.by = p /\ row.base = refreshed /\ row.age = since[p]

\* An acknowledged scan is what the row is about until the refresh or the lease's end.
AckIsHeld ==
    ~stale /\ ack # None /\ ack.known =>
       row # None /\ row.by = None /\ row.base = refreshed /\ row.age = ack.age

Inv == TypeOK /\ NothingToHold /\ ClaimIsHeld /\ AckIsHeld

-----------------------------------------------------------------------------
(* Ages of refreshedAt. *)

\* Each process holds at most one value, and so does the row.
LEMMA HeldBound ==
    ASSUME TypeOK
    PROVE  /\ IsFiniteSet(Held)
           /\ Cardinality(Processes) \in Nat /\ Cardinality(Held) \in Nat
           /\ Cardinality(Held) <= Cardinality(Processes) + 1
<1> DEFINE R == {read[p] : p \in Processes}
           C == IF row = None THEN {} ELSE {row.base}
<1>1. read \in Surjection(Processes, R)
    BY DEF TypeOK, Surjection
<1>2. /\ IsFiniteSet(R) /\ Cardinality(R) <= Cardinality(Processes)
      /\ Cardinality(Processes) \in Nat /\ Cardinality(R) \in Nat
    BY <1>1, LeaseAssumption, FS_Surjection, FS_CardinalityType
<1>3. IsFiniteSet(C) /\ Cardinality(C) \in {0, 1}
    BY FS_EmptySet, FS_Singleton
<1>4. IsFiniteSet(R \cap C) /\ Cardinality(R \cap C) \in Nat
    BY <1>3, FS_Intersection, FS_CardinalityType
<1>5. /\ IsFiniteSet(R \cup C)
      /\ Cardinality(R \cup C) = Cardinality(R) + Cardinality(C) - Cardinality(R \cap C)
    BY <1>2, <1>3, FS_Union
<1>6. Held = R \cup C
    BY DEF Held
<1> QED
    BY <1>2, <1>3, <1>4, <1>5, <1>6, FS_CardinalityType

\* A value that is held stays a value, and is not the current one after a refresh.
LEMMA AgedTyped ==
    ASSUME TypeOK, NEW v \in Held
    PROVE  Aged(v) \in Baselines \ {0}
<1> DEFINE D == {w \in Held \ {None} : w < v}
<1>1. CASE v = None
    BY <1>1, NoneAssumption DEF Aged, Baselines
<1>2. CASE v # None
    <2>1. v \in Nat
        BY <1>2, HeldBound DEF TypeOK, Held, Rows, Baselines
    <2>2. D \in SUBSET (Held \ {v})
        BY <2>1
    <2>3. IsFiniteSet(Held \ {v}) /\ Cardinality(Held \ {v}) = Cardinality(Held) - 1
        BY HeldBound, FS_RemoveElement
    <2>4. IsFiniteSet(D) /\ Cardinality(D) <= Cardinality(Held) - 1
        BY <2>2, <2>3, FS_Subset
    <2>5. Cardinality(D) \in Nat
        BY <2>4, FS_CardinalityType
    <2>6. Aged(v) = 1 + Cardinality(D)
        BY <1>2 DEF Aged
    <2> QED
        BY <2>4, <2>5, <2>6, HeldBound DEF Baselines
<1> QED
    BY <1>1, <1>2

\* A tick more, up to a limit.
LEMMA OlderTyped ==
    ASSUME NEW n \in Nat, NEW a \in 0 .. n
    PROVE  Older(a, n) \in 0 .. n /\ (a < n => Older(a, n) = a + 1)
BY DEF Older

-----------------------------------------------------------------------------
(* Steps of Immich. *)

\* Files, assets and lookups are no part of a claim.
LEMMA FilesKeep ==
    ASSUME Inv, NEW f \in Files, Link(f) \/ LookUp(f)
    PROVE  Inv'
BY DEF Link, LookUp, immich, Inv, TypeOK, NothingToHold, ClaimIsHeld, AckIsHeld, Current

\* A crawl that starts, or is lost, refreshes nothing.
LEMMA CrawlKeeps ==
    ASSUME Inv, StartCrawl \/ LoseScans
    PROVE  Inv'
BY LeaseAssumption DEF StartCrawl, LoseScans, Fails, CanFail, immich, Inv, TypeOK,
   NothingToHold, ClaimIsHeld, AckIsHeld, Current

\* After a refresh nobody knows the library, and nothing is outstanding.
LEMMA RefreshKeeps == ASSUME Inv, FinishCrawl PROVE Inv'
<1> USE DEF Inv
<1>1. CASE refreshed = None
    <2>1. UNCHANGED <<read, row>> /\ refreshed' = 0
        BY <1>1 DEF FinishCrawl
    <2>2. TypeOK'
        BY <2>1 DEF FinishCrawl, TypeOK
    <2>3. NothingToHold' /\ ClaimIsHeld' /\ AckIsHeld'
        BY <1>1, <2>1, NoneAssumption
        DEF FinishCrawl, NothingToHold, ClaimIsHeld, AckIsHeld, Current
    <2> QED
        BY <2>2, <2>3
<1>2. CASE refreshed # None
    <2>1. /\ read' = [p \in Processes |-> Aged(read[p])]
          /\ row' = IF row = None THEN None ELSE [row EXCEPT !.base = Aged(@)]
        BY <1>2 DEF FinishCrawl
    <2>2. \A p \in Processes : Aged(read[p]) \in Baselines \ {0}
        BY AgedTyped DEF Held
    <2>3. row # None => Aged(row.base) \in Baselines
        BY AgedTyped DEF Held
    <2>4. row' = None \/ row' \in Rows
        BY <2>1, <2>3 DEF TypeOK, Rows
    <2>5. TypeOK'
        BY <2>1, <2>2, <2>4 DEF FinishCrawl, TypeOK
    <2>6. NothingToHold' /\ ClaimIsHeld' /\ AckIsHeld'
        BY <2>1, <2>2, NoneAssumption
        DEF FinishCrawl, NothingToHold, ClaimIsHeld, AckIsHeld, Current
    <2> QED
        BY <2>5, <2>6
<1> QED
    BY <1>1, <1>2

-----------------------------------------------------------------------------
(* Steps of a call. *)

\* A call starts, and reads refreshedAt.
LEMMA ReadKeeps ==
    ASSUME Inv, NEW p \in Processes, StartRequest(p) \/ ReadLibrary(p)
    PROVE  Inv'
<1> USE DEF Inv
<1>1. CASE StartRequest(p)
    BY <1>1, LeaseAssumption
    DEF StartRequest, immich, TypeOK, NothingToHold, ClaimIsHeld, AckIsHeld, Current
<1>2. CASE ReadLibrary(p)
    <2>1. TypeOK'
        BY <1>2, HeldBound, LeaseAssumption
        DEF ReadLibrary, Fails, CanFail, immich, TypeOK, Baselines
    <2>2. NothingToHold' /\ ClaimIsHeld' /\ AckIsHeld'
        BY <1>2 DEF ReadLibrary, immich, TypeOK, NothingToHold, ClaimIsHeld, AckIsHeld,
           Current
    <2> QED
        BY <2>1, <2>2
<1> QED
    BY <1>1, <1>2

\* Only a call that read an older refreshedAt gets the claim of another one that is
\* younger than the lease; it makes the claim stale.
LEMMA ClaimKeeps == ASSUME Inv, NEW p \in Processes, Claim(p) PROVE Inv'
<1> USE DEF Inv
<1>1. row' \in Rows /\ row' # None
    <2>1. since[p] \in Ages
        BY LeaseAssumption DEF TypeOK, Ages, MaxAge
    <2> QED
        BY <2>1, NoneAssumption DEF Claim, TypeOK, Rows
<1>2. TypeOK'
    BY <1>1 DEF Claim, immich, TypeOK
<1>3. NothingToHold'
    BY DEF Claim, immich, NothingToHold
<1>4. ASSUME ~stale', row # None, row.base = refreshed, row.age < Lease
      PROVE  FALSE
    <2>1. read[p] = refreshed
        BY <1>4 DEF Claim
    <2>2. row.age - since[p] < Lease
        BY <1>4, LeaseAssumption DEF TypeOK, Rows, Ages
    <2> QED
        BY <1>4, <2>1, <2>2, LeaseAssumption DEF Claim, Claimable, Elapsed, TypeOK, Rows, Ages
<1>5. ClaimIsHeld'
    <2> SUFFICES ASSUME ~stale', NEW q \in Processes, Current(q)'
                 PROVE  row' # None /\ row'.by = q /\ row'.base = refreshed'
                        /\ row'.age = since'[q]
        BY DEF ClaimIsHeld
    <2>1. CASE q = p
        BY <1>1, <2>1 DEF Claim, immich, Current
    <2>2. CASE q # p
        <3>1. ~stale /\ Current(q)
            BY <2>2 DEF Claim, immich, Current, TypeOK
        <3>2. row # None /\ row.base = refreshed /\ row.age = since[q]
            BY <3>1 DEF ClaimIsHeld
        <3>3. since[q] < Lease
            BY LeaseAssumption DEF TypeOK
        <3> QED
            BY <1>4, <3>2, <3>3
    <2> QED
        BY <2>1, <2>2
<1>6. AckIsHeld'
    <2> SUFFICES ASSUME ~stale', ack # None, ack.known PROVE FALSE
        BY DEF Claim, AckIsHeld
    <2>1. row # None /\ row.base = refreshed /\ row.age = ack.age
        BY DEF Claim, AckIsHeld
    <2>2. ack.age < Lease
        BY LeaseAssumption DEF TypeOK, Acks
    <2> QED
        BY <1>4, <2>1, <2>2
<1> QED
    BY <1>2, <1>3, <1>5, <1>6

\* A call that ends hands its claim to nobody and leaves the others' alone.
LEMMA ReturnedTyped ==
    ASSUME TypeOK, NEW p \in Processes, NEW r \in Rows \cup {None}, Returned(p, r)
    PROVE  /\ at' \in [Processes -> {"idle", "reading", "claiming", "requesting", "releasing"}]
           /\ since' \in [Processes -> 0..MaxCall]
           /\ read' \in [Processes -> Baselines]
           /\ row' \in Rows \cup {None}
           /\ row' = None <=> r = None
           /\ r # None => /\ row'.base = r.base /\ row'.age = r.age
                          /\ row'.by = IF r.by = p THEN None ELSE r.by
<1>1. /\ at' \in [Processes -> {"idle", "reading", "claiming", "requesting", "releasing"}]
      /\ since' \in [Processes -> 0..MaxCall]
      /\ read' \in [Processes -> Baselines]
    BY LeaseAssumption DEF Returned, TypeOK, Baselines
<1>2. CASE r # None /\ r.by = p
    <2>1. row' = [r EXCEPT !.by = None] /\ row' \in Rows
        BY <1>2 DEF Returned, Rows
    <2> QED
        BY <1>1, <1>2, <2>1, NoneAssumption DEF Rows
<1>3. CASE ~(r # None /\ r.by = p)
    BY <1>1, <1>3 DEF Returned
<1> QED
    BY <1>2, <1>3

\* A call that returns without an answer from Immich: no claim, a release, a crash.
LEMMA ReturnKeeps ==
    ASSUME Inv, NEW p \in Processes,
           NEW r, r = row \/ (r = None /\ row # None /\ row.by = p /\ at[p] = "releasing"),
           Returned(p, r),
           UNCHANGED <<immich, ready, ack, stale>>,
           last' \in [Processes -> 0..Interval], faults' \in 0..MaxFaults
    PROVE  Inv'
<1> USE DEF Inv
<1>1. r \in Rows \cup {None}
    BY DEF TypeOK
<1>2. TypeOK'
    BY <1>1, ReturnedTyped DEF immich, TypeOK
<1>3. NothingToHold'
    BY <1>1, ReturnedTyped DEF NothingToHold, Returned, immich, TypeOK
<1>4. ClaimIsHeld'
    <2> SUFFICES ASSUME ~stale', NEW q \in Processes, Current(q)'
                 PROVE  row' # None /\ row'.by = q /\ row'.base = refreshed'
                        /\ row'.age = since'[q]
        BY DEF ClaimIsHeld
    <2>1. q # p /\ Current(q) /\ since'[q] = since[q]
        BY DEF Returned, Current, TypeOK, immich
    <2>2. row # None /\ row.by = q /\ row.base = refreshed /\ row.age = since[q]
        BY <2>1 DEF ClaimIsHeld
    <2>3. r = row
        BY <2>1, <2>2
    <2> QED
        BY <1>1, <2>1, <2>2, <2>3, ReturnedTyped DEF immich
<1>5. AckIsHeld'
    <2> SUFFICES ASSUME ~stale, ack # None, ack.known
                 PROVE  row' # None /\ row'.by = None /\ row'.base = refreshed
                        /\ row'.age = ack.age
        BY DEF AckIsHeld, immich
    <2>1. row # None /\ row.by = None /\ row.base = refreshed /\ row.age = ack.age
        BY DEF AckIsHeld
    <2>2. r = row
        BY <2>1, NoneAssumption
    <2> QED
        BY <1>1, <2>1, <2>2, NoneAssumption, ReturnedTyped
<1> QED
    BY <1>2, <1>3, <1>4, <1>5

\* No claim, a release, a crash.
LEMMA GiveUpKeeps ==
    ASSUME Inv, NEW p \in Processes, NoClaim(p) \/ Release(p) \/ Crash(p)
    PROVE  Inv'
<1>1. UNCHANGED <<immich, ready, ack, stale>>
    BY DEF NoClaim, Release, Crash
<1>2. last' \in [Processes -> 0..Interval]
    BY LeaseAssumption DEF Inv, TypeOK, NoClaim, Release, Crash
<1>3. faults' \in 0..MaxFaults
    BY LeaseAssumption DEF Inv, TypeOK, NoClaim, Release, Crash, Fails, CanFail
<1>4. \/ Returned(p, row)
      \/ Returned(p, None) /\ row # None /\ row.by = p /\ at[p] = "releasing"
    BY DEF NoClaim, Release, Crash
<1> QED
    BY <1>1, <1>2, <1>3, <1>4, ReturnKeeps

\* Immich acknowledges a scan: the caller's claim, if it knows the library, is the row.
LEMMA RequestKeeps == ASSUME Inv, NEW p \in Processes, RequestScan(p) PROVE Inv'
<1> USE DEF Inv
<1>1. row \in Rows \cup {None} /\ Returned(p, row)
    BY DEF TypeOK, RequestScan
<1>2. ack' \in Acks /\ ack' # None
    <2>1. since[p] \in 0 .. Lease - 1
        BY LeaseAssumption DEF TypeOK
    <2>2. ack' \in Acks
        BY <2>1, Zenon DEF RequestScan, Acks
    <2> QED
        BY <2>2, NoneAssumption
<1>3. TypeOK'
    <2>1. queued' \in 0..2
        BY DEF RequestScan, Enqueue, TypeOK
    <2>2. last' \in [Processes -> 0..Interval]
        BY LeaseAssumption DEF RequestScan, TypeOK
    <2> QED
        BY <1>1, <1>2, <2>1, <2>2, ReturnedTyped DEF RequestScan, TypeOK
<1>4. NothingToHold'
    BY <1>1, ReturnedTyped DEF NothingToHold, RequestScan, Returned, TypeOK
<1>5. ClaimIsHeld'
    <2> SUFFICES ASSUME ~stale', NEW q \in Processes, Current(q)'
                 PROVE  row' # None /\ row'.by = q /\ row'.base = refreshed'
                        /\ row'.age = since'[q]
        BY DEF ClaimIsHeld
    <2>1. q # p /\ Current(q) /\ since'[q] = since[q]
        BY DEF RequestScan, Returned, Current, TypeOK
    <2>2. row # None /\ row.by = q /\ row.base = refreshed /\ row.age = since[q]
        BY <2>1 DEF ClaimIsHeld, RequestScan
    <2> QED
        BY <1>1, <2>1, <2>2, ReturnedTyped DEF RequestScan
<1>6. AckIsHeld'
    <2> SUFFICES ASSUME ~stale', ack'.known
                 PROVE  row' # None /\ row'.by = None /\ row'.base = refreshed'
                        /\ row'.age = ack'.age
        BY DEF AckIsHeld
    <2>1. Current(p) /\ ~stale /\ ack'.age = since[p]
        BY DEF RequestScan, Current
    <2>2. row # None /\ row.by = p /\ row.base = refreshed /\ row.age = since[p]
        BY <2>1 DEF ClaimIsHeld
    <2> QED
        BY <1>1, <2>1, <2>2, ReturnedTyped DEF RequestScan
<1> QED
    BY <1>3, <1>4, <1>5, <1>6

\* A failed request keeps its claim until the release.
LEMMA FailureKeeps == ASSUME Inv, NEW p \in Processes, RequestFails(p) PROVE Inv'
<1> USE DEF Inv
<1>1. TypeOK'
    BY LeaseAssumption DEF RequestFails, Enqueue, Fails, CanFail, TypeOK, Baselines
<1>2. NothingToHold' /\ ClaimIsHeld' /\ AckIsHeld'
    BY DEF RequestFails, TypeOK, NothingToHold, ClaimIsHeld, AckIsHeld, Current
<1> QED
    BY <1>1, <1>2

\* Claims, acknowledgements and calls grow old together.
LEMMA TickKeeps == ASSUME Inv, Tick PROVE Inv'
<1> USE DEF Inv
<1>1. row # None => /\ row.age \in 0..MaxAge /\ MaxAge \in Nat
                    /\ row' = [row EXCEPT !.age = Older(row.age, MaxAge)]
                    /\ Older(row.age, MaxAge) \in 0..MaxAge
    BY OlderTyped, LeaseAssumption DEF Tick, TypeOK, Rows, Ages, MaxAge
<1>2. row' \in Rows \cup {None} /\ (row # None => row' # None)
    BY <1>1, NoneAssumption DEF Tick, TypeOK, Rows, Ages
<1>3. ack' = None \/ (ack # None /\ ack'.age = ack.age + 1 /\ ack'.known = ack.known)
    BY DEF Tick, TypeOK, Acks
<1>4. ack' = None \/ ack' \in Acks
    BY LeaseAssumption DEF Tick, TypeOK, Acks
<1>5. since' \in [Processes -> 0..MaxCall]
    BY LeaseAssumption DEF Tick, TypeOK
<1>6. last' \in [Processes -> 0..Interval]
    BY OlderTyped, LeaseAssumption DEF Tick, TypeOK
<1>7. TypeOK'
    BY <1>2, <1>4, <1>5, <1>6 DEF Tick, immich, TypeOK
<1>8. NothingToHold'
    BY <1>1, <1>2 DEF Tick, immich, NothingToHold, TypeOK, Rows
<1>9. ClaimIsHeld'
    <2> SUFFICES ASSUME ~stale', NEW q \in Processes, Current(q)'
                 PROVE  row' # None /\ row'.by = q /\ row'.base = refreshed'
                        /\ row'.age = since'[q]
        BY DEF ClaimIsHeld
    <2>1. Current(q) /\ since'[q] = since[q] + 1 /\ since[q] < MaxCall
        BY DEF Tick, immich, Current
    <2>2. row # None /\ row.by = q /\ row.base = refreshed /\ row.age = since[q]
        BY <2>1 DEF ClaimIsHeld, Tick
    <2>3. Older(row.age, MaxAge) = row.age + 1
        BY <1>1, <2>1, <2>2, OlderTyped, LeaseAssumption DEF MaxAge, TypeOK
    <2> QED
        BY <1>1, <1>2, <2>1, <2>2, <2>3 DEF Tick, immich, TypeOK, Rows
<1>10. AckIsHeld'
    <2> SUFFICES ASSUME ~stale', ack' # None, ack'.known
                 PROVE  row' # None /\ row'.by = None /\ row'.base = refreshed'
                        /\ row'.age = ack'.age
        BY DEF AckIsHeld
    <2>1. row # None /\ row.by = None /\ row.base = refreshed /\ row.age = ack.age
        BY <1>3 DEF AckIsHeld, Tick
    <2>2. ack.age < Lease
        <3>1. ack # None
            BY <1>3
        <3> QED
            BY <3>1, LeaseAssumption DEF TypeOK, Acks
    <2>3. Older(row.age, MaxAge) = row.age + 1
        BY <1>1, <2>1, <2>2, OlderTyped, LeaseAssumption DEF MaxAge
    <2> QED
        BY <1>1, <1>2, <1>3, <2>1, <2>3 DEF Tick, immich, TypeOK, Rows
<1> QED
    BY <1>7, <1>8, <1>9, <1>10

-----------------------------------------------------------------------------
(* The specification. *)

\* At first nothing is linked, and nobody has asked for a scan.
LEMMA InitKeeps == Init => Inv
<1> SUFFICES ASSUME Init PROVE Inv
    OBVIOUS
<1>1. TypeOK
    <2>1. since \in [Processes -> 0..MaxCall] /\ last \in [Processes -> 0..Interval]
        BY LeaseAssumption DEF Init
    <2>2. read \in [Processes -> Baselines]
        BY DEF Init, Baselines
    <2>3. at \in [Processes -> {"idle", "reading", "claiming", "requesting", "releasing"}]
        BY DEF Init
    <2>4. /\ {imported, ready} \subseteq SUBSET linked /\ linked \subseteq Files
          /\ stale \in BOOLEAN
        BY Zenon DEF Init
    <2>5. queued \in 0..2 /\ faults \in 0..MaxFaults
        BY LeaseAssumption DEF Init
    <2> QED
        BY <2>1, <2>2, <2>3, <2>4, <2>5 DEF Init, TypeOK
<1>2. NothingToHold /\ ClaimIsHeld /\ AckIsHeld
    BY DEF Init, NothingToHold, ClaimIsHeld, AckIsHeld, Current
<1> QED
    BY <1>1, <1>2 DEF Inv

\* Every step keeps the invariant.
LEMMA NextKeeps == Inv /\ [Next]_vars => Inv'
<1> SUFFICES ASSUME Inv, [Next]_vars PROVE Inv'
    OBVIOUS
<1>1. CASE UNCHANGED vars
    BY <1>1 DEF vars, immich, Inv, TypeOK, NothingToHold, ClaimIsHeld, AckIsHeld, Current
<1>2. ASSUME NEW f \in Files, Link(f) \/ LookUp(f) PROVE Inv'
    BY <1>2, FilesKeep
<1>3. ASSUME NEW p \in Processes, Step(p) \/ Crash(p) PROVE Inv'
    BY <1>3, ReadKeeps, ClaimKeeps, GiveUpKeeps, RequestKeeps, FailureKeeps DEF Step
<1> QED
    BY <1>1, <1>2, <1>3, CrawlKeeps, RefreshKeeps, TickKeeps DEF Next

\* Library, claim and calls keep their types, and so do the ages of refreshedAt that a
\* refresh renames, for any number of processes.
THEOREM TypeCorrect == Spec => []TypeOK
<1>1. Inv => TypeOK
    BY DEF Inv
<1> QED
    BY InitKeeps, NextKeeps, <1>1, PTL DEF Spec

\* reconcile.go:69-71: scan requests are single-flight across restarts and processes,
\* among the calls that know the current refreshedAt: while an acknowledged scan has
\* neither changed it nor run out of its lease, no such call asks for another.
THEOREM SingleFlight == Spec => SingleFlightWhenKnown
<1>1. ASSUME Inv, NEW p \in Processes, RequestScan(p), read[p] = refreshed, ~stale
      PROVE  ack = None \/ ~ack.known
    <2>1. row # None /\ row.by = p
        BY <1>1 DEF Inv, ClaimIsHeld, Current, RequestScan
    <2> QED
        BY <1>1, <2>1, NoneAssumption DEF Inv, AckIsHeld
<1>2. Inv => [\A p \in Processes :
                 RequestScan(p) /\ read[p] = refreshed /\ ~stale =>
                    ack = None \/ ~ack.known]_vars
    BY <1>1
<1> QED
    BY InitKeeps, NextKeeps, <1>2, PTL DEF Spec, SingleFlightWhenKnown
=============================================================================
