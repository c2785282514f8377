---------------------------- MODULE MCKeyCaches ----------------------------
(* KeyCaches with one public key, one API key, and two handlers of each    *)
(* kind: enough for two lookups around a revocation and for two PATCHes    *)
(* that overwrite each other.                                              *)
EXTENDS KeyCaches, TLC

CONSTANTS s1, k1, r1, r2, a1, a2

MCSiteKey == {s1}
MCApiKey == {k1}
MCRequest == {r1, r2}
MCAdmin == {a1, a2}

Symmetry == Permutations(MCRequest) \cup Permutations(MCAdmin)
=============================================================================
