------------------------------ MODULE MC_Codec ------------------------------
EXTENDS Codec

\* A 20-byte key, the length of the child keys a directory stores (spec 4.7.2).
MCKeys == {[i \in 1..20 |-> 97]}

\* The empty value, a short value, and the shortest value whose n+8 wraps
\* in uint16 (65528 bytes, a well-formed length).
MCValues == {<<>>, <<1, 2, 3>>, [i \in 1..(LenMod - 8) |-> 120]}

MCTags == {1}
MCVersions == {1}
=============================================================================
