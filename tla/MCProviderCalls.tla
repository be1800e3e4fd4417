--------------------------- MODULE MCProviderCalls --------------------------
(* Model values for ProviderCalls.tla.                                     *)
EXTENDS ProviderCalls, TLC

CONSTANTS z1, z2, c1, c2, c3

\* Operation 3 is the single dispatch; it shares its circuit with operation 2.
MCCircuitOf == <<z1, z2, z2>>
MCEstimate == <<2, 1, 1>>
MCCalls == {c1, c2, c3}

MCSymmetry == Permutations(MCCalls)
=============================================================================
