--------------------------- MODULE MC_MetaServer ---------------------------
(* Model values for checking MetaServer with TLC. *)
EXTENDS MetaServer, TLC

CONSTANTS c1, c2, c3, k1, v1

MCConns == {c1, c2, c3}
MCKeys == {k1}
MCValues == {v1}

MCConns2 == {c1, c2}

MCSymmetry == Permutations(MCConns)

=============================================================================
