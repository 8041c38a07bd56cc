----------------------------- MODULE TrackedCopy -----------------------------
(***************************************************************************)
(* What the bridge promises about the files it places in a recipient's     *)
(* library, whatever Immich, the users and crashes do: it claims a copy    *)
(* before it places a file of it, and it gives the claim up last, when the *)
(* media file and every companion it knows of are gone. What it placed can *)
(* thus be found again and removed. Replica implements it.                 *)
(***************************************************************************)
CONSTANT Kinds      \* "original" and its companions

VARIABLES
    claimed,        \* there is a record of the copy
    known,          \* the files that the record names
    placed,         \* the files that are in the recipient's library
    imported        \* Immich shows the copy

vars == <<claimed, known, placed, imported>>

TypeOK ==
    /\ claimed \in BOOLEAN /\ imported \in BOOLEAN
    /\ known \subseteq Kinds /\ placed \subseteq Kinds

Init == ~claimed /\ known = {} /\ placed = {} /\ ~imported

Claim ==
    /\ ~claimed
    /\ claimed' = TRUE
    /\ UNCHANGED <<known, placed, imported>>

Place(k) ==
    /\ claimed
    /\ placed' = placed \cup {k}
    /\ UNCHANGED <<claimed, known, imported>>

Learn(k) ==
    /\ claimed
    /\ known' = known \cup {k}
    /\ UNCHANGED <<claimed, placed, imported>>

Import ==
    /\ "original" \in placed
    /\ imported' = TRUE
    /\ UNCHANGED <<claimed, known, placed>>

\* Immich or a user deletes the copy.
Disappear ==
    /\ imported' = FALSE
    /\ UNCHANGED <<claimed, known, placed>>

\* The bridge unlinks a file, or Immich deletes it.
Remove(k) ==
    /\ placed' = placed \ {k}
    /\ UNCHANGED <<claimed, known, imported>>

Release ==
    /\ claimed
    /\ "original" \notin placed
    /\ known \cap placed = {}
    /\ claimed' = FALSE /\ known' = {}
    /\ UNCHANGED <<placed, imported>>

Next ==
    \/ Claim \/ Import \/ Disappear \/ Release
    \/ \E k \in Kinds : Place(k) \/ Learn(k) \/ Remove(k)

Spec == Init /\ [][Next]_vars

\* No media file is in a recipient's library without a record by which the bridge can
\* remove it, and the record never names a file it no longer claims.
Traceable ==
    /\ "original" \in placed => claimed
    /\ known # {} => claimed
=============================================================================
