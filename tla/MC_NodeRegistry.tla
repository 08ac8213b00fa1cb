--------------------------- MODULE MC_NodeRegistry ---------------------------
(* Model values for checking NodeRegistry with TLC. *)
EXTENDS NodeRegistry

CONSTANTS n1, n2, r0, k1, k2, k3

MCNames == {n1, n2}
MCFileKeys == {k1, k2, k3}
MCFileKeys2 == {k1, k2}

==============================================================================
