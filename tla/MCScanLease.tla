---------------------------- MODULE MCScanLease ----------------------------
(* Constants for model checking ScanLease. *)
EXTENDS ScanLease
=============================================================================
