--------------------------- MODULE MC_BlobStores ---------------------------
(* Model values for checking BlobStores with TLC: three blobs in two shards. *)
EXTENDS BlobStores

CONSTANTS m1, m2, d1, d2, d3, s1, s2

MCMounts == {m1, m2}
MCData == {d1, d2, d3}
MCShards == {s1, s2}
MCShardOf(d) == IF d = d2 THEN s2 ELSE s1

=============================================================================
