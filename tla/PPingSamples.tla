----------------------------- MODULE PPingSamples ---------------------------
(***************************************************************************)
(* Which packets PPing time-stamps.  The program is that of PPing; the     *)
(* variables added here only remember what has happened.                   *)
(***************************************************************************)
EXTENDS PPing

VARIABLES
  carried,    (* identifiers seen in each direction since the flow's creation *)
  first       (* whether the packet of each handler was the first with its own *)

sampleVars == <<vars, carried, first>>

(* The events the history is made from, as seen in one step. *)
Arrives(c) == At(c, "idle") /\ handler'[c].at = "lookup"
CreatesFlow(c) == At(c, "create") /\ handler'[c].at = "find"
Stamps(c) == At(c, "stamp") /\ handler'[c].at = "count"

(***************************************************************************)
(* What the network does: a segment with SYN, FIN or RST is not overtaken  *)
(* by newer data of its direction; plain data is reordered in any way.     *)
(***************************************************************************)
IsOrdered(d, p) ==
  p.event_type # "none" /\ p.pid # None =>
    \A i \in carried[d] : ~ IsAfter(i, p.pid)

RememberPackets ==
  /\ carried' = [d \in Dirs |->
       IF \E c \in CPUs : CreatesFlow(c)
         THEN {handler[c].pkt.pid : c \in {x \in CPUs : CreatesFlow(x) /\ Fw(x) = d}}
         ELSE carried[d] \union
                ({handler'[c].pkt.pid :
                    c \in {x \in CPUs : Arrives(x) /\ handler'[x].dir = d}} \ {None})]
  /\ first' = [c \in CPUs |->
       IF Arrives(c) THEN handler'[c].pkt.pid \notin carried[handler'[c].dir]
       ELSE handler'[c].at # "idle" /\ first[c]]

SamplesInit ==
  /\ Init
  /\ carried = [d \in Dirs |-> {}]
  /\ first = [c \in CPUs |-> FALSE]

SamplesNext ==
  /\ Next
  /\ \A c \in CPUs : Arrives(c) => IsOrdered(handler'[c].dir, handler'[c].pkt)
  /\ RememberPackets

SamplesSpec == SamplesInit /\ [][SamplesNext]_sampleVars

-----------------------------------------------------------------------------
(***************************************************************************)
(* A plain data packet is time-stamped only if it is the first of its      *)
(* direction, since the flow was created, to carry its identifier: an RTT  *)
(* never starts at a retransmission, at a later packet of the same TSval,  *)
(* or at one that came late (wait_first_edge, last_id, is_new_identifier). *)
(***************************************************************************)
FirstEdgeOnly ==
  [][\A c \in CPUs :
       Stamps(c) /\ wait_first_edge(handler[c].pkt) => first[c]]_sampleVars
=============================================================================
