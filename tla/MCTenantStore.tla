--------------------------- MODULE MCTenantStore ----------------------------
(* Small instances of TenantStore for TLC. *)
EXTENDS TenantStore, TLC

CONSTANTS x, y, z, r, w, k1, k2, vcpus, memory

Symmetry == Permutations(Name) \cup Permutations(Cap) \cup Permutations(Token)
=============================================================================
