------------------------------- MODULE Loader -------------------------------
(***************************************************************************)
(* The croffset loader (clean-slate/croffset/ihreo.c; croffset-codel has   *)
(* the same): main attaches the probe at fq_dequeue, tc_marker and         *)
(* xdp_marker to one interface, waits for a key, and ends.                 *)
(*                                                                         *)
(* Several instances may be started on the interface, one after the other  *)
(* or at once, and any of them may fail or be killed at every call.  A     *)
(* probe and an XDP link go with the process that holds them; a TC filter  *)
(* belongs to the interface.                                               *)
(***************************************************************************)
EXTENDS Integers

CONSTANTS
  Instances,
  MaxFilters,   (* bound: filters that the runs of the loader leave behind *)
  None

ASSUME LoaderAssumption == None \notin Instances /\ MaxFilters \in Nat

VARIABLES
  main,      (* the call that each instance makes next *)
  probes,    (* the instances whose probe is attached *)
  qdisc,     (* is there a clsact qdisc? *)
  filters,   (* the number of tc_marker filters of each instance *)
  xdp        (* the instance whose xdp_marker is attached *)

vars == <<main, probes, qdisc, filters, xdp>>

Calls == {"load", "attach", "hook_create", "tc_attach", "attach_xdp", "getchar",
          "destroy", "printf"}

(* Another program, such as cilium, may have made the qdisc. *)
Init ==
  /\ main = [i \in Instances |-> "ended"]
  /\ probes = {}
  /\ qdisc \in BOOLEAN
  /\ filters = [i \in Instances |-> 0]
  /\ xdp = None

-----------------------------------------------------------------------------
Goto(i, l) == main' = [main EXCEPT ![i] = l]

(* The process ends: the kernel closes its links. *)
End(i) ==
  /\ Goto(i, "ended")
  /\ probes' = probes \ {i}
  /\ xdp' = IF xdp = i THEN None ELSE xdp

start(i) ==
  /\ main[i] = "ended"
  /\ Goto(i, "load")
  /\ UNCHANGED <<probes, qdisc, filters, xdp>>

load(i) ==
  /\ main[i] = "load"
  /\ Goto(i, "attach")
  /\ UNCHANGED <<probes, qdisc, filters, xdp>>

(* ihreo_bpf__attach attaches the probe only. *)
attach(i) ==
  /\ main[i] = "attach"
  /\ probes' = probes \union {i}
  /\ Goto(i, "hook_create")
  /\ UNCHANGED <<qdisc, filters, xdp>>

(* EEXIST will do. *)
hook_create(i) ==
  /\ main[i] = "hook_create"
  /\ qdisc' = TRUE
  /\ Goto(i, "tc_attach")
  /\ UNCHANGED <<probes, filters, xdp>>

(* No handle or priority is given, so the filter is always a new one. *)
tc_attach(i) ==
  /\ main[i] = "tc_attach"
  /\ filters[i] < MaxFilters
  /\ filters' = [filters EXCEPT ![i] = @ + 1]
  /\ Goto(i, "attach_xdp")
  /\ UNCHANGED <<probes, qdisc, xdp>>

(* Slip: a link that replaces the one of another process. *)
attach_xdp_Replaces(i) ==
  /\ main[i] = "attach_xdp"
  /\ xdp' = i
  /\ Goto(i, "getchar")
  /\ UNCHANGED <<probes, qdisc, filters>>

(* Two links cannot be attached to one interface (EBUSY). *)
attach_xdp(i) ==
  /\ main[i] = "attach_xdp"
  /\ xdp = None
  /\ xdp' = i
  /\ Goto(i, "getchar")
  /\ UNCHANGED <<probes, qdisc, filters>>

(* Any of these calls may fail: a message, and EXIT_FAILURE. *)
fail(i) ==
  /\ main[i] \in {"load", "attach", "hook_create", "tc_attach", "attach_xdp"}
  /\ End(i)
  /\ UNCHANGED <<qdisc, filters>>

press_key(i) ==
  /\ main[i] = "getchar"
  /\ Goto(i, "destroy")
  /\ UNCHANGED <<probes, qdisc, filters, xdp>>

(* The links of the skeleton are destroyed; that of XDP is not one of them. *)
destroy(i) ==
  /\ main[i] = "destroy"
  /\ probes' = probes \ {i}
  /\ Goto(i, "printf")
  /\ UNCHANGED <<qdisc, filters, xdp>>

(* "Removed" *)
finish(i) ==
  /\ main[i] = "printf"
  /\ End(i)
  /\ UNCHANGED <<qdisc, filters>>

(* No signal is handled. *)
kill(i) ==
  /\ main[i] # "ended"
  /\ End(i)
  /\ UNCHANGED <<qdisc, filters>>

Next ==
  \E i \in Instances :
    \/ start(i) \/ load(i) \/ attach(i) \/ hook_create(i) \/ tc_attach(i)
    \/ attach_xdp(i) \/ fail(i)
    \/ press_key(i) \/ destroy(i) \/ finish(i)
    \/ kill(i)

Spec == Init /\ [][Next]_vars

-----------------------------------------------------------------------------
(* Every variable holds a value of its kind. *)
TypeOK ==
  /\ main \in [Instances -> Calls \union {"ended"}]
  /\ probes \subseteq Instances
  /\ qdisc \in BOOLEAN
  /\ filters \in [Instances -> 0..MaxFilters]
  /\ xdp \in Instances \union {None}

(***************************************************************************)
(* Whoever waits for a key has all it takes to mark ACKs: its own probe,   *)
(* which fills the map that its own XDP program looks into, and a filter.  *)
(* No other instance that starts, fails or ends takes any of them away.    *)
(***************************************************************************)
WaitingIsComplete ==
  \A i \in Instances : main[i] = "getchar" =>
    i \in probes /\ xdp = i /\ filters[i] > 0 /\ qdisc
=============================================================================
