------------------------------ MODULE PPingFlows ----------------------------
(***************************************************************************)
(* What PPing reports over the lives of the flows that use one tuple, one  *)
(* after the other.  The program is that of PPing; the variable added here *)
(* only remembers what has happened.                                       *)
(***************************************************************************)
EXTENDS PPing

VARIABLE
  opener    (* when the packet came that made a direction wait for an answer *)

flowVars == <<vars, opener>>

(* With the packet of c's handler its direction begins to wait for an answer. *)
Initialises(c) ==
  \/ At(c, "create") /\ handler'[c].at = "find"
  \/ /\ At(c, "forward") /\ handler'[c].at # "forward"
     /\ State(c, Fw(c)).conn_state = "EMPTY" /\ handler[c].pkt.pid # None

(* c's handler has the first answer to the other direction. *)
Opens(c) == At(c, "open") /\ handler'[c].at = "match"

RememberOpener ==
  opener' = [d \in Dirs |->
    IF \E c \in CPUs : Initialises(c) /\ Fw(c) = d
      THEN handler[CHOOSE c \in CPUs : Initialises(c) /\ Fw(c) = d].time
    ELSE IF current' = None \/ \E c \in CPUs : Opens(c) /\ Rev(c) = d
      THEN None
    ELSE opener[d]]

FlowsInit ==
  /\ Init
  /\ opener = [d \in Dirs |-> None]

FlowsNext ==
  \/ Step /\ RememberOpener
  \/ Tick /\ opener' = [d \in Dirs |-> Older(opener[d])]

FlowsSpec == FlowsInit /\ [][FlowsNext]_flowVars

-----------------------------------------------------------------------------
(***************************************************************************)
(* Without overlaps, user space takes a direction for open exactly while   *)
(* its state is OPEN: openings and closings alternate in the events, none  *)
(* is lost when RST, FIN or a timeout ends the flow, none comes twice.     *)
(***************************************************************************)
ReportedIsOpen ==
  \A d \in Dirs :
    reported[d] <=> current # None /\ mem[current][d].conn_state = "OPEN"

(***************************************************************************)
(* The opening event carries last_timestamp of the direction that opens,   *)
(* which later time stamps may have moved: it is never older than the      *)
(* packet that opened this flow, though flows before it used the tuple.    *)
(***************************************************************************)
OpeningTimeIsOwn ==
  [][\A c \in CPUs :
       Opens(c) => State(c, Rev(c)).last_timestamp <= opener[Rev(c)]]_flowVars
=============================================================================
