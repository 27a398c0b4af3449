----------------------------- MODULE MCServing -----------------------------
(* Small instances of Serving.                                              *)
EXTENDS Serving, TLC

CONSTANTS sv1, sv2, n1, n2, p1, p2, x1, x2

Symmetry ==
    Permutations({sv1, sv2}) \cup Permutations({n1, n2}) \cup Permutations({p1, p2})
        \cup Permutations({x1, x2})
=============================================================================
