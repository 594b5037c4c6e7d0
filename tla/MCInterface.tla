----------------------------- MODULE MCInterface ----------------------------
(***************************************************************************)
(* Instances of Interface for TLC: a croffset and a croffset-codel, and a  *)
(* flow of each kind: of the host, to port 8472, and to port 6081 with and *)
(* without a socket.                                                       *)
(***************************************************************************)
EXTENDS Interface

CONSTANTS a, b, host, vxlan, geneve, forwarded

OneOfEach == [i \in Instances |-> IF i = a THEN "croffset" ELSE "codel"]

OneOfEachKind ==
  [f \in Flows |-> CASE f = host -> "host" [] f = vxlan -> "vxlan"
                     [] OTHER -> "geneve"]
=============================================================================
