-------------------------- MODULE MCAlbumLifecycle --------------------------
(* Constants for model checking AlbumLifecycle. *)
EXTENDS AlbumLifecycle, TLC

CONSTANTS ann, bob, together, trip, other, another, photo

TwoMembers == {ann, bob}
FourAlbums == {together, trip, other, another}
AnnFirst   == [m \in TwoMembers |-> IF m = ann THEN 0 ELSE 1]
InOrder    == together :> 3 @@ trip :> 0 @@ other :> 1 @@ another :> 2

\* Together and trip are mirrored; 5 is an album of Ann's own.
FiveRemotes   == 1..5
OwnerOfRemote == <<ann, bob, ann, bob, ann>>
Mirrors == together :> (ann :> 1 @@ bob :> 2) @@ trip :> (ann :> 3 @@ bob :> 4)
           @@ other :> (ann :> 0 @@ bob :> 0) @@ another :> (ann :> 0 @@ bob :> 0)

=============================================================================
