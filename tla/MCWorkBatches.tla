--------------------------- MODULE MCWorkBatches ---------------------------
(* Constants for model checking WorkBatches. *)
EXTENDS WorkBatches

ThreeItems == 1..3
\* Two albums that overlap, before and after users moved an item.
TwoPlans == {<<{1, 2, 3}, {2}>>, <<{1, 3}>>}
PassLimits(a, p, l) == [k \in Kinds |-> CASE k = "audit" -> a [] k = "prepare" -> p [] OTHER -> l]
TwoPrepared == {PassLimits(1, 2, 1)}
=============================================================================
