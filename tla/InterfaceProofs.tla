--------------------------- MODULE InterfaceProofs --------------------------
(***************************************************************************)
(* Theorems about Loader and Interface, for any number of instances on one *)
(* interface.  Every step of Interface is a step of the loader or leaves   *)
(* the loader's variables alone, so the loader's invariant holds there     *)
(* too.  What is added: an instance keeps what it had room for while it    *)
(* waits, under the key of its own program.                                *)
(***************************************************************************)
EXTENDS Interface, TLAPS

-----------------------------------------------------------------------------
(* The loader. *)

(* From which call on an instance has its probe, its qdisc and its filter. *)
HasProbe == {"hook_create", "tc_attach", "attach_xdp", "getchar", "destroy"}
HasQdisc == {"tc_attach", "attach_xdp", "getchar"}
HasFilter == {"attach_xdp", "getchar"}

Complete ==
  \A i \in Instances :
    /\ main[i] \in HasProbe => i \in probes
    /\ main[i] \in HasQdisc => qdisc
    /\ main[i] \in HasFilter => filters[i] > 0
    /\ main[i] = "getchar" => xdp = i

LInv == TypeOK /\ Complete

LEMMA InitLInv == Init => LInv
BY LoaderAssumption DEF Init, LInv, TypeOK, Complete, HasProbe, HasQdisc, HasFilter

LEMMA EndKeepsLInv ==
  ASSUME LInv, NEW i \in Instances, End(i), UNCHANGED <<qdisc, filters>>
  PROVE  LInv'
<1>1. TypeOK'
  BY DEF LInv, TypeOK, End, Goto
<1>2. ASSUME NEW j \in Instances
      PROVE  /\ main'[j] \in HasProbe => j \in probes'
             /\ main'[j] \in HasQdisc => qdisc'
             /\ main'[j] \in HasFilter => filters'[j] > 0
             /\ main'[j] = "getchar" => xdp' = j
  <2>1. CASE j = i
    BY <2>1 DEF LInv, TypeOK, End, Goto, HasProbe, HasQdisc, HasFilter
  <2>2. CASE j # i
    <3>1. main'[j] = main[j] /\ (xdp = j => xdp' = j)
      BY <2>2 DEF LInv, TypeOK, End, Goto
    <3> QED
      BY <2>2, <3>1 DEF LInv, Complete, End
  <2> QED
    BY <2>1, <2>2
<1> QED
  BY <1>1, <1>2 DEF LInv, Complete

(* Every step but the end of an instance. *)
LEMMA StepKeepsLInv ==
  ASSUME LInv, NEW i \in Instances,
         \/ start(i) \/ load(i) \/ attach(i) \/ hook_create(i) \/ tc_attach(i)
         \/ attach_xdp(i) \/ press_key(i) \/ destroy(i)
  PROVE  LInv'
<1> USE DEF LInv, TypeOK, Complete, Goto, Calls, HasProbe, HasQdisc, HasFilter
<1>1. CASE start(i)
  BY <1>1 DEF start
<1>2. CASE load(i)
  BY <1>2 DEF load
<1>3. CASE attach(i)
  BY <1>3 DEF attach
<1>4. CASE hook_create(i)
  BY <1>4 DEF hook_create
<1>5. CASE tc_attach(i)
  <2>1. filters' \in [Instances -> 0..MaxFilters] /\ filters'[i] > 0
    BY <1>5, LoaderAssumption DEF tc_attach
  <2> QED
    BY <1>5, <2>1 DEF tc_attach
<1>6. CASE attach_xdp(i)
  BY <1>6, LoaderAssumption DEF attach_xdp
<1>7. CASE press_key(i)
  BY <1>7 DEF press_key
<1>8. CASE destroy(i)
  BY <1>8 DEF destroy
<1> QED
  BY <1>1, <1>2, <1>3, <1>4, <1>5, <1>6, <1>7, <1>8

LEMMA NextLInv == LInv /\ [Next]_vars => LInv'
<1> SUFFICES ASSUME LInv, [Next]_vars PROVE LInv'
  OBVIOUS
<1>1. ASSUME NEW i \in Instances, fail(i) \/ finish(i) \/ kill(i)
      PROVE  LInv'
  BY <1>1, EndKeepsLInv DEF fail, finish, kill, LInv, TypeOK
<1>2. CASE UNCHANGED vars
  BY <1>2 DEF vars, LInv, TypeOK, Complete
<1> QED
  BY <1>1, <1>2, StepKeepsLInv DEF Next

LEMMA LInvHolds == Spec => []LInv
BY InitLInv, NextLInv, PTL DEF Spec

(***************************************************************************)
(* An instance that waits for a key has its probe, its XDP program and a   *)
(* filter, whatever other instances do.                                    *)
(***************************************************************************)
THEOREM Completeness == Spec => []WaitingIsComplete
<1>1. LInv => WaitingIsComplete
  BY DEF LInv, Complete, WaitingIsComplete, HasProbe, HasQdisc, HasFilter
<1> QED
  BY <1>1, LInvHolds, PTL

-----------------------------------------------------------------------------
(* The maps. *)

Recorded ==
  /\ offset_state \in [Instances -> SUBSET Keys]
  /\ sent \in [Instances -> SUBSET Flows]
  /\ \A i \in Instances : main[i] # "getchar" => sent[i] = {}
  /\ \A i \in Instances : \A f \in sent[i] :
       IsRecorded(i, f) => DequeueKey(i, f) \in offset_state[i]

InterfaceInv == LInv /\ Recorded

LEMMA InitInterfaceInv == InterfaceInit => InterfaceInv
BY InitLInv DEF InterfaceInit, InterfaceInv, Recorded

(* The map takes a key it has room for, and drops none. *)
LEMMA InsertedKeeps ==
  ASSUME NEW keys, NEW key
  PROVE  /\ keys \subseteq Inserted(keys, key)
         /\ Inserted(keys, key) \subseteq keys \union {key}
         /\ HasRoom(keys, key) => key \in Inserted(keys, key)
BY DEF Inserted

LEMMA DequeueKeyIsKey ==
  ASSUME NEW i \in Instances, NEW f \in Flows
  PROVE  DequeueKey(i, f) \in Keys
BY DEF DequeueKey, Keys

(* The loader's part: a process that ends takes its map with it. *)
LEMMA LoadingKeepsInv ==
  ASSUME InterfaceInv, Loading
  PROVE  InterfaceInv'
<1>1. LInv'
  BY NextLInv DEF InterfaceInv, Loading
<1>2. ASSUME NEW i \in Instances
      PROVE  /\ main'[i] # "getchar" => sent'[i] = {}
             /\ main'[i] = "getchar" => /\ sent'[i] = sent[i]
                                        /\ offset_state'[i] = offset_state[i]
  BY DEF Loading
<1>3. offset_state' \in [Instances -> SUBSET Keys]
      /\ sent' \in [Instances -> SUBSET Flows]
  BY DEF InterfaceInv, Recorded, Loading
<1>4. ASSUME NEW i \in Instances, NEW f \in sent'[i], IsRecorded(i, f)
      PROVE  DequeueKey(i, f) \in offset_state'[i]
  BY <1>2, <1>4 DEF InterfaceInv, Recorded
<1> QED
  BY <1>1, <1>2, <1>3, <1>4
  DEF InterfaceInv, Recorded, DequeueKey, IsRecorded

(* Whoever waits for a key has its probe attached, which sees the packet. *)
LEMMA TransmitKeepsInv ==
  ASSUME InterfaceInv, NEW f \in Flows, NEW q \in {"fq", "fq_codel"},
         transmit(f, q)
  PROVE  InterfaceInv'
<1>1. LInv' /\ main' = main
  BY NextLInv DEF InterfaceInv, transmit, vars
<1>2. ASSUME NEW i \in Instances
      PROVE  /\ offset_state[i] \subseteq offset_state'[i]
             /\ offset_state'[i] \subseteq Keys
  BY InsertedKeeps, DequeueKeyIsKey DEF InterfaceInv, Recorded, transmit
<1>3. offset_state' \in [Instances -> SUBSET Keys]
      /\ sent' \in [Instances -> SUBSET Flows]
  BY <1>2 DEF InterfaceInv, Recorded, transmit
<1>4. ASSUME NEW i \in Instances, main[i] # "getchar"
      PROVE  sent'[i] = {}
  BY <1>4 DEF InterfaceInv, Recorded, transmit
<1>5. ASSUME NEW i \in Instances, NEW g \in sent'[i], IsRecorded(i, g)
      PROVE  DequeueKey(i, g) \in offset_state'[i]
  <2>1. CASE g \in sent[i]
    BY <1>2, <1>5, <2>1 DEF InterfaceInv, Recorded
  <2>2. CASE g \notin sent[i]
    <3>1. /\ g = f /\ main[i] = "getchar" /\ Discipline(i) = q
          /\ HasRoom(offset_state[i], DequeueKey(i, f))
      BY <1>5, <2>2 DEF transmit, InterfaceInv, Recorded
    <3>2. i \in probes
      BY <3>1 DEF InterfaceInv, LInv, Complete, HasProbe
    <3>3. offset_state'[i] = Inserted(offset_state[i], DequeueKey(i, f))
      BY <1>5, <3>1, <3>2 DEF transmit
    <3> QED
      BY <3>1, <3>3, InsertedKeeps
  <2> QED
    BY <2>1, <2>2
<1> QED
  BY <1>1, <1>3, <1>4, <1>5
  DEF InterfaceInv, Recorded, DequeueKey, IsRecorded

LEMMA NextInterfaceInv ==
  InterfaceInv /\ [InterfaceNext]_interfaceVars => InterfaceInv'
<1> SUFFICES ASSUME InterfaceInv, [InterfaceNext]_interfaceVars
             PROVE  InterfaceInv'
  OBVIOUS
<1>1. CASE UNCHANGED interfaceVars
  <2>1. LInv' /\ main' = main
    BY <1>1, NextLInv DEF InterfaceInv, interfaceVars, vars
  <2> QED
    BY <1>1, <2>1
    DEF InterfaceInv, Recorded, DequeueKey, IsRecorded, interfaceVars
<1> QED
  BY <1>1, LoadingKeepsInv, TransmitKeepsInv DEF InterfaceNext

(***************************************************************************)
(* Any number of instances of the two programs, started, failing and       *)
(* killed at will, any flows, and maps of any size: while a croffset       *)
(* waits, the XDP program on the interface finds every encapsulated flow   *)
(* that has left since and for which there was room.                       *)
(***************************************************************************)
THEOREM AcksFindFlows == InterfaceSpec => []AckFindsFlow
<1>1. InterfaceInv => AckFindsFlow
  <2> SUFFICES ASSUME InterfaceInv, NEW i \in Instances, main[i] = "getchar",
                      Program[i] = "croffset"
               PROVE  xdp = i /\ \A f \in sent[i] : Encapsulated(f) => IsFound(xdp, f)
    BY DEF AckFindsFlow
  <2>1. xdp = i
    BY DEF InterfaceInv, LInv, Complete
  <2>2. ASSUME NEW f \in sent[i], Encapsulated(f)
        PROVE  IsFound(i, f)
    <3>1. IsRecorded(i, f) /\ IsLookedUp(i, f)
      BY <2>2 DEF Encapsulated, IsRecorded, IsLookedUp
    <3>2. AckKey(i, f) = DequeueKey(i, f)
      BY DEF AckKey, DequeueKey
    <3> QED
      BY <3>1, <3>2 DEF InterfaceInv, Recorded, IsFound
  <2> QED
    BY <2>1, <2>2
<1> QED
  BY <1>1, InitInterfaceInv, NextInterfaceInv, PTL DEF InterfaceSpec

(***************************************************************************)
(* Type correctness: the maps hold keys of flows, for any instances, flows *)
(* and sizes.                                                              *)
(***************************************************************************)
THEOREM InterfaceTypes == InterfaceSpec => []InterfaceTypeOK
<1>1. InterfaceInv => InterfaceTypeOK
  BY DEF InterfaceInv, LInv, Recorded, InterfaceTypeOK
<1> QED
  BY <1>1, InitInterfaceInv, NextInterfaceInv, PTL DEF InterfaceSpec
=============================================================================
