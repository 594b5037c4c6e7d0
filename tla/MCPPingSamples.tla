---------------------------- MODULE MCPPingSamples --------------------------
(* Instances of PPingSamples for TLC, without what no step can read any more. *)
EXTENDS PPingSamples, MCPPing

SamplesView == << LiveView, carried, first >>
=============================================================================
