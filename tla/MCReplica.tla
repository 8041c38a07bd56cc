------------------------------ MODULE MCReplica ------------------------------
\* Instances of Replica for TLC: replica.cfg checks what holds of one copy.
EXTENDS Replica
=============================================================================
