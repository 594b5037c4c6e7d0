------------------------------ MODULE Interface -----------------------------
(***************************************************************************)
(* Programs on one interface: instances of the loader, each of which has   *)
(* loaded either croffset (clean-slate/croffset) or croffset-codel, and    *)
(* the flows that leave while the instances come and go.                   *)
(*                                                                         *)
(* Every attached probe records, in the map of its instance, the flows     *)
(* that it can tell; the one XDP program looks the flow of an ACK up in    *)
(* the map of its own instance.  The two must agree on the key, and the    *)
(* map may be full.                                                        *)
(*                                                                         *)
(* What the probes compute is in OffsetInfo and Ihreo (the body of the two *)
(* is the same).                                                           *)
(***************************************************************************)
EXTENDS Loader, FiniteSets

CONSTANTS
  Program,  (* what each instance has loaded: "croffset" or "codel" *)
  Flows,    (* flows of TCP packets, told apart by addresses and ports *)
  Kind,     (* plain TCP, or carried in UDP to port 8472 or 6081 *)
  Sockets,  (* the flows whose packets leave with their socket *)
  MapSize   (* MAP_OFFSETSTATE_SIZE *)

ASSUME InterfaceAssumption ==
  /\ Program \in [Instances -> {"croffset", "codel"}]
  /\ Kind \in [Flows -> {"host", "vxlan", "geneve"}]
  /\ Sockets \subseteq Flows
  /\ MapSize \in Nat

VARIABLES
  offset_state,  (* the keys in the map of each instance *)
  sent           (* history: the flows each instance had room for as they left *)

interfaceVars == <<vars, offset_state, sent>>

(* struct flow_id: valid tells where the addresses come from. *)
Keys == Flows \X {0, 1, 2}

(* The queueing discipline whose dequeue function an instance probes. *)
Discipline(i) == IF Program[i] = "croffset" THEN "fq" ELSE "fq_codel"

-----------------------------------------------------------------------------
(* The probe. *)

(* Slip: nothing without a socket, as in croffset-codel. *)
IsRecorded_Socket(i, f) == f \in Sockets

(***************************************************************************)
(* Addresses and ports come from the socket.  Without one croffset takes   *)
(* them from the packet, if its outer port is 8472; croffset-codel leaves  *)
(* the packet alone.                                                       *)
(***************************************************************************)
IsRecorded(i, f) == f \in Sockets \/ (Program[i] = "croffset" /\ Kind[f] = "vxlan")

(* croffset takes every flow for an encapsulated one. *)
DequeueKey(i, f) == <<f, IF Program[i] = "croffset" THEN 2 ELSE 0>>

HasRoom(keys, key) == key \in keys \/ Cardinality(keys) < MapSize

(* Slip: the kind of map that makes room for the new by dropping the old. *)
Inserted_Evicts(keys, key) ==
  IF HasRoom(keys, key) THEN keys \union {key}
  ELSE (keys \ {CHOOSE k \in keys : TRUE}) \union {key}

(* A hash map takes nothing new when it is full; nobody looks at the error. *)
Inserted(keys, key) == IF HasRoom(keys, key) THEN keys \union {key} ELSE keys

(***************************************************************************)
(* A packet of f leaves through a discipline; the probes see it go.  One   *)
(* that has no skb_mstamp_ns they leave alone: it changes nothing.         *)
(***************************************************************************)
transmit(f, q) ==
  /\ offset_state' = [i \in Instances |->
       IF i \in probes /\ Discipline(i) = q /\ IsRecorded(i, f)
         THEN Inserted(offset_state[i], DequeueKey(i, f)) ELSE offset_state[i]]
  /\ sent' = [i \in Instances |->
       IF /\ main[i] = "getchar" /\ Discipline(i) = q
          /\ HasRoom(offset_state[i], DequeueKey(i, f))
         THEN sent[i] \union {f} ELSE sent[i]]
  /\ UNCHANGED vars

-----------------------------------------------------------------------------
(***************************************************************************)
(* What the XDP program of an instance finds for an ACK of f.  croffset    *)
(* looks only for encapsulated ones, on either port, with valid = 2;       *)
(* croffset-codel for plain TCP and port 8472, both with valid = 1.        *)
(***************************************************************************)
IsLookedUp(i, f) ==
  IF Program[i] = "croffset" THEN Kind[f] # "host" ELSE Kind[f] # "geneve"

AckKey(i, f) == <<f, IF Program[i] = "croffset" THEN 2 ELSE 1>>

IsFound(i, f) == IsLookedUp(i, f) /\ AckKey(i, f) \in offset_state[i]

-----------------------------------------------------------------------------
InterfaceInit ==
  /\ Init
  /\ offset_state = [i \in Instances |-> {}]
  /\ sent = [i \in Instances |-> {}]

(* A map is there from load until its process ends. *)
Loading ==
  /\ Next
  /\ offset_state' = [i \in Instances |->
       IF main'[i] = "ended" THEN {} ELSE offset_state[i]]
  /\ sent' = [i \in Instances |-> IF main'[i] = "getchar" THEN sent[i] ELSE {}]

InterfaceNext ==
  \/ Loading
  \/ \E f \in Flows : \E q \in {"fq", "fq_codel"} : transmit(f, q)

InterfaceSpec == InterfaceInit /\ [][InterfaceNext]_interfaceVars

-----------------------------------------------------------------------------
(* The maps hold keys. *)
InterfaceTypeOK ==
  /\ TypeOK
  /\ offset_state \in [Instances -> SUBSET Keys]
  /\ sent \in [Instances -> SUBSET Flows]

(* The encapsulated flows for which croffset is made. *)
Encapsulated(f) == Kind[f] = "vxlan" \/ (Kind[f] = "geneve" /\ f \in Sockets)

(***************************************************************************)
(* While croffset waits for a key, the XDP program on the interface finds  *)
(* every encapsulated flow that has left since, if it had room for it at   *)
(* the time, and whatever has left or come up afterwards: it is its own    *)
(* program, the probe and the program agree on map and key, and the map    *)
(* drops nothing, however many flows of the host fill it.  (A flow to port *)
(* 6081 without a socket is looked up but never recorded.)                 *)
(***************************************************************************)
AckFindsFlow ==
  \A i \in Instances :
    main[i] = "getchar" /\ Program[i] = "croffset" =>
      xdp = i /\ \A f \in sent[i] : Encapsulated(f) => IsFound(xdp, f)
=============================================================================
