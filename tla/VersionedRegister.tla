------------------------- MODULE VersionedRegister -------------------------
(***************************************************************************)
(* What the versioned metadata store promises (spec.md sections 3 and 4.2): *)
(* a map from key to (version, value) in which every accepted mutation of  *)
(* a key replaces its entry by the same key at exactly the next version;   *)
(* a key without an entry may be created at any version >= 1.  Nothing    *)
(* else ever changes an entry.                                             *)
(***************************************************************************)
EXTENDS Naturals

CONSTANTS
  Keys,     \* metadata keys
  Values,   \* the values a key may hold
  NoEntry   \* the entry of a key never put

VARIABLE reg

Entry == [version : Nat \ {0}, value : Values]

Init == reg \in [Keys -> Entry \cup {NoEntry}]

\* The successor entry of key k holding value v.
Advance(k, v) ==
  /\ reg' = [reg EXCEPT ![k] = [version |-> @.version + 1, value |-> v]]

\* First put of a key, at any version >= 1.  (Stated on reg' so that TLC,
\* which checks this module only as a property, never enumerates Entry.)
Create(k, v) ==
  /\ reg[k] = NoEntry
  /\ reg'[k] \in Entry
  /\ reg'[k].value = v
  /\ reg' = [reg EXCEPT ![k] = reg'[k]]

Next ==
  \E k \in Keys, v \in Values :
    IF reg[k] = NoEntry THEN Create(k, v) ELSE Advance(k, v)

Spec == Init /\ [][Next]_reg

=============================================================================
