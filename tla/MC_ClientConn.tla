---------------------------- MODULE MC_ClientConn ----------------------------
(* Model values for checking ClientConn with TLC. *)
EXTENDS ClientConn, TLC

CONSTANTS s, r, c1, c2, c3, c4, c5, c6

MCConnIds == {c1, c2, c3, c4, c5, c6}
MCConnIds3 == {c1, c2, c3}

\* Connections are interchangeable; only for runs without liveness.
MCSymmetry == Permutations(MCConnIds)

==============================================================================
