------------------------------ MODULE MCKVCache ------------------------------
(* Instances of KVCache for TLC. *)
EXTENDS KVCache, TLC

CONSTANTS s1, s2, e1, v1, v2, v3

\* The second session's values are told from the first one's.
MCWrites(s) == IF s = s1 THEN {v1, v2} ELSE {v3}

MCSymmetry == Permutations({v1, v2})
=============================================================================
