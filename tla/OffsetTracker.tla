---------------------------- MODULE OffsetTracker ---------------------------
(***************************************************************************)
(* What offset_state promises, with no CPUs, no hash-map elements and no   *)
(* handler in progress: one entry per flow, which changes only when a      *)
(* packet of that flow is observed, in one step, as NextInfo says, and in  *)
(* the order in which the packets of the flow left the host.  A flow whose *)
(* first packet finds the map full stays untracked until a later one.      *)
(***************************************************************************)
EXTENDS OffsetInfo

CONSTANTS Flows,
          None      (* the value of an untracked flow *)

VARIABLE entry      (* offset_state: Flows -> OffsetInfo, or None *)

Init == entry = [f \in Flows |-> None]

(* The first observed packet of f: the entry is created from it. *)
Track(f, p) ==
  /\ entry[f] = None
  /\ entry' = [entry EXCEPT ![f] = FirstInfo(p)]

(* Any later packet: it left after the one the entry remembers. *)
Observe(f, p) ==
  /\ entry[f] # None
  /\ p.dequeued > entry[f].last.dequeued
  /\ entry' = [entry EXCEPT ![f] = NextInfo(entry[f], p)]

Next == \E f \in Flows, p \in Pair : Track(f, p) \/ Observe(f, p)

Spec == Init /\ [][Next]_entry
=============================================================================
