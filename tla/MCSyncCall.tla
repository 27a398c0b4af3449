----------------------------- MODULE MCSyncCall -----------------------------
(* Small instances of SyncCall.                                             *)
EXTENDS SyncCall, TLC

CONSTANTS p1, p2

Symmetry == Permutations({p1, p2})
=============================================================================
