-------------------------------- MODULE Orders --------------------------------
(***************************************************************************)
(* The members of a finite set in the order the program sorts them by: the *)
(* n-th is the one with n - 1 before it.                                   *)
(***************************************************************************)
EXTENDS Naturals, FiniteSets

InOrder(S, Before(_, _)) ==
    [n \in 1 .. Cardinality(S) |->
        CHOOSE x \in S : Cardinality({y \in S : Before(y, x)}) = n - 1]

\* Pairs: by their first, then by their second.
Earlier(v, w) == v[1] < w[1] \/ (v[1] = w[1] /\ v[2] < w[2])

\* The entries of a sequence that stand at the given positions.
Entries(s, I) ==
    LET order == InOrder(I, <)
    IN  [n \in DOMAIN order |-> s[order[n]]]
=============================================================================
