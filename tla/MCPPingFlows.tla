----------------------------- MODULE MCPPingFlows ---------------------------
(* Instances of PPingFlows for TLC, without what no step can read any more. *)
EXTENDS PPingFlows, MCPPing

FlowsView == << LiveView, opener >>
=============================================================================
