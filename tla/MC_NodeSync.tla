---------------------------- MODULE MC_NodeSync ----------------------------
(* Two mounts sharing one file, three contents, two attribute values.     *)
EXTENDS NodeSync, TLC

CONSTANTS m1, m2, k1, a1, a2, x1, e, d1, d2

MCMounts == {m1, m2}
MCKeys   == {k1}
MCAttrs  == {a1, a2}
MCXVals  == {x1}
MCData   == {e, d1, d2}
MCData2  == {e, d1}

\* Mounts, attribute values and the two non-empty contents are
\* interchangeable (safety runs only).
MCSymmetry == Permutations(MCMounts) \cup Permutations(MCAttrs)
                \cup Permutations({d1, d2})

=============================================================================
