--------------------------- MODULE MCRenderWorker ---------------------------
(* Model values for RenderWorker.tla.                                      *)
EXTENDS RenderWorker, TLC

CONSTANTS r1, r2, a1, x, y

MCRenders == {r1, r2}
MCApprovals == {a1}
MCContents == {x, y}
MCSymmetry == Permutations(MCRenders) \cup Permutations(MCContents)
=============================================================================
