--------------------------- MODULE MCPPingClocks ---------------------------
(* PPingClocks with CPUs and identifiers that are interchangeable. *)
EXTENDS PPingClocks, TLC

Symmetric == Permutations(CPUs) \union Permutations(Ids)
=============================================================================
