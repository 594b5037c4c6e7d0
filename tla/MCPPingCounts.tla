---------------------------- MODULE MCPPingCounts ---------------------------
(* Instances of PPingCounts for TLC, without what no step can read any more. *)
EXTENDS PPingCounts, MCPPing

CountsView == << LiveView, unsampled, left, undisturbed >>
=============================================================================
