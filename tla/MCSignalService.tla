-------------------------- MODULE MCSignalService --------------------------
(* Small instances of SignalService.  Addresses are interchangeable.        *)
EXTENDS SignalService, TLC

CONSTANTS c1, c2, h1, h2, h3, id1, id2, s1, s2, s3

MCSymmetry == Permutations({c1, c2}) \cup Permutations({h1, h2})
MCSymmetry3 == Permutations({c1, c2}) \cup Permutations({h1, h2, h3})
=============================================================================
