--------------------------- MODULE MCLocalSignals ---------------------------
(* A small instance of LocalSignals.                                       *)
EXTENDS LocalSignals, TLC

CONSTANTS o1, o2, sig1, sig2, m1, m2, h1, h2, h3

MCSymmetry == Permutations({h1, h2, h3})
=============================================================================
