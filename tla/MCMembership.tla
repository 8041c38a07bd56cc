---------------------------- MODULE MCMembership ----------------------------
(* Instances of Membership for TLC: model values and the bounds of the runs. *)
EXTENDS Membership, TLC

CONSTANTS ann, bob, together, trip, photo

TwoMembers == {ann, bob}
TwoAlbums  == {together, trip}

\* Ann uploaded the photo.
OwnerPhoto == photo :> ann

TogetherLast  == together :> 2 @@ trip :> 1
TogetherFirst == together :> 1 @@ trip :> 2
AnnFirst == ann :> 1 @@ bob :> 2
BobFirst == ann :> 2 @@ bob :> 1

\* What is mirrored and settled when the behaviour starts.
NothingShared  == together :> {} @@ trip :> {}
PhotoShared    == together :> {photo} @@ trip :> {}
PhotoEverywhere == together :> {photo} @@ trip :> {photo}
=============================================================================
