----------------------------- MODULE MCAggMaps -----------------------------
(* AggMaps with prefixes that are interchangeable. *)
EXTENDS AggMaps, TLC

Symmetric == Permutations(PrefixesV4)
=============================================================================
