------------------------------ MODULE MCStacks ------------------------------
(* Constants for model checking Stacks. *)
EXTENDS Stacks
=============================================================================
