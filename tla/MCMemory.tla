------------------------------ MODULE MCMemory -------------------------------
(* Small stores: one to four slots, with and without a byte limit (that     *)
(* admits none, one, two or three entries), with exact and sampled recency. *)
EXTENDS MemoryStore, TLC

CONSTANTS k1, k2, k3, k4, k5, plain, tagged, t

Symmetry == Permutations(Keys)

MCTagsOf(v) == IF v = tagged THEN {t} ELSE {}

MCOptions == [cap : 1..4, maxBytes : {0, 5, 10, 30}, sample : {0, 2}]
==============================================================================
