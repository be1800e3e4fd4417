----------------------------- MODULE MCRelease ------------------------------
(* What happens around the package of Production.tla: publications of its  *)
(* renders, and a timeline edit racing the creation of a render.  Each     *)
(* behaviour follows one of them.                                          *)
EXTENDS Publishing, EditRace, TLC

CONSTANTS r1, r2, a1, k1, p1

VARIABLE part

MCRenders == {r1, r2}
MCSymmetry == Permutations(MCRenders)

MCInit == part \in {"publishing", "race"} /\ PubInit /\ RInit

MCNext ==
    /\ UNCHANGED part
    /\ \/ part = "publishing" /\ PubNext /\ UNCHANGED <<edit, create>>
       \/ part = "race" /\ RNext /\ UNCHANGED pubVars

MCSpec == MCInit /\ [][MCNext]_<<part, vars, pubVars, edit, create>>
=============================================================================
