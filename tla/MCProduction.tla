---------------------------- MODULE MCProduction ----------------------------
(* Model values and symmetry for Production.tla.                           *)
EXTENDS Production, TLC

CONSTANTS r1, r2, r3, a1, a2

MCRenders == {r1, r2, r3}
MCApprovals == {a1, a2}
MCSymmetry == Permutations(MCRenders) \cup Permutations(MCApprovals)
=============================================================================
