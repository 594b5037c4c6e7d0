-------------------------------- MODULE Ihreo -------------------------------
(***************************************************************************)
(* The kernel side of croffset (clean-slate/croffset/ihreo.bpf.c): the     *)
(* kretprobe on fq_dequeue, which keeps one offset_info per flow in the    *)
(* hash map offset_state, and the XDP program, which writes the            *)
(* compensation of a flow into the TCP option of its ACKs.                 *)
(*                                                                         *)
(* Every CPU runs at most one of the two handlers at a time, and a handler *)
(* is the sequence of its accesses to shared state: the clock, the lookup, *)
(* the read through the pointer the lookup returned, the update.           *)
(*                                                                         *)
(* The hash map is the kernel's preallocated one.  An update never writes  *)
(* into the element a reader may hold: it fills a spare element of the     *)
(* CPU, puts it in place of the old one, and the old one becomes the next  *)
(* spare of that CPU.  A pointer from a lookup therefore keeps showing the *)
(* old value, until the element is used again, perhaps for another flow,   *)
(* and perhaps between two loads of the reader.                            *)
(***************************************************************************)
EXTENDS OffsetInfo

CONSTANTS
  Flows,      (* TCP flows, named by the key flow_id with valid = 2 *)
  HostFlows,  (* flows whose packets still carry their socket at fq_dequeue *)
  CPUs,
  Slots,      (* the elements of the map: MAP_OFFSETSTATE_SIZE and the spares *)
  None,
  Unit,       (* ns per step of the mark: 1000 *)
  Cap,        (* the largest adaptive mark: 200 *)
  Byte,       (* 256: "<< 24" keeps one byte of a u32 *)
  Adaptive,   (* cvalue == -1: marks follow the measured offset *)
  Cvalue      (* the constant given with -c when not Adaptive, in us *)

ASSUME IhreoAssumption ==
  /\ HostFlows \subseteq Flows
  /\ None \notin Slots /\ None \notin OffsetInfo
  /\ Unit \in Nat \ {0}
  /\ Cap \in Nat
  /\ Byte \in Nat \ {0}
  /\ Cap < Byte
  /\ Adaptive \in BOOLEAN
  /\ Cvalue \in Nat

VARIABLES
  clock,      (* bpf_ktime_get_ns *)
  slot,       (* offset_state: the element that holds the flow's entry *)
  mem,        (* offset_state: the value each element holds *)
  spare,      (* offset_state: each CPU's spare element *)
  handler,    (* what each CPU is doing *)
  mark,       (* the mark on the last ACK of the flow that was rewritten *)
  dequeued    (* history: the packets of each flow the kretprobe tracked *)

map == <<slot, mem, spare>>
vars == <<clock, slot, mem, spare, handler, mark, dequeued>>

-----------------------------------------------------------------------------
(* The states of a handler, with the locals that are live in each. *)

Idle == [at |-> "idle"]

(* kretprobe_fq_dequeue: the packet is known, the map not yet consulted. *)
AtLookup(f, p) == [at |-> "lookup", flow |-> f, pkt |-> p]

(* The lookup returned s, which has held the values seen since then. *)
AtRead(f, p, s, seen) ==
  [at |-> "read", flow |-> f, pkt |-> p, ptr |-> s, seen |-> seen]

(* The lookup returned NULL. *)
AtInsert(f, p) == [at |-> "insert", flow |-> f, pkt |-> p]

(* ninfo is filled in. *)
AtUpdate(f, p, n) == [at |-> "update", flow |-> f, pkt |-> p, ninfo |-> n]

(* parse_flow_id_mark_to: the lookup for an ACK of f returned s. *)
AtMark(f, s) == [at |-> "mark", flow |-> f, ptr |-> s]

Handler ==
  [at : {"idle"}]
  \union [at : {"lookup", "insert"}, flow : Flows, pkt : Pair]
  \union [at : {"read"}, flow : Flows, pkt : Pair, ptr : Slots,
          seen : SUBSET OffsetInfo]
  \union [at : {"update"}, flow : Flows, pkt : Pair, ninfo : OffsetInfo]
  \union [at : {"mark"}, flow : Flows, ptr : Slots]

Move(c, from, to) ==
  /\ handler[c].at = from
  /\ handler' = [handler EXCEPT ![c] = to]

Free == Slots \ ({slot[f] : f \in Flows} \union {spare[c] : c \in CPUs})

-----------------------------------------------------------------------------
(* kretprobe_fq_dequeue *)

(***************************************************************************)
(* What fq_dequeue returned: a packet of f on the VXLAN port (0x2118),     *)
(* another port, and an EDT, where 0 stands for no time stamp.             *)
(***************************************************************************)
Ports == {"vxlan", "other"}

(***************************************************************************)
(* The packets the handler goes on with.  A packet that has its socket is  *)
(* keyed by it; one that crossed a veth has lost it and is keyed by the    *)
(* inner header, if its outer header is VXLAN's.                           *)
(***************************************************************************)
IsTracked(f, port, edt) ==
  /\ f \in HostFlows \/ port = "vxlan"
  /\ edt # 0

(***************************************************************************)
(* fq hands a packet over when its EDT has come, which is before the probe *)
(* reads the clock.  No two readings of the clock are taken to be equal.   *)
(***************************************************************************)
Dequeue(c, f, port, p) ==
  /\ p.dequeued > clock /\ p.edt <= p.dequeued
  /\ clock' = p.dequeued
  /\ IF IsTracked(f, port, p.edt)
       THEN /\ Move(c, "idle", AtLookup(f, p))
            /\ dequeued' = [dequeued EXCEPT ![f] = @ \union {p}]
       ELSE /\ Move(c, "idle", Idle)
            /\ UNCHANGED dequeued
  /\ UNCHANGED <<map, mark>>

Lookup(c) ==
  LET h == handler[c] IN
  /\ h.at = "lookup"
  /\ \/ /\ slot[h.flow] = None
        /\ Move(c, "lookup", AtInsert(h.flow, h.pkt))
     \/ /\ slot[h.flow] # None
        /\ Move(c, "lookup",
                AtRead(h.flow, h.pkt, slot[h.flow], {mem[slot[h.flow]]}))
  /\ UNCHANGED <<clock, map, mark, dequeued>>

(***************************************************************************)
(* The loads through oinfo.  They race with whoever fills the element      *)
(* again: each of the five words may come from any value it has held.      *)
(***************************************************************************)
Loads(seen) ==
  { [ last   |-> [dequeued |-> v1.last.dequeued, edt |-> v2.last.edt],
      ooo    |-> [dequeued |-> v3.ooo.dequeued, edt |-> v4.ooo.edt],
      cvalue |-> v5.cvalue ] :
    v1 \in seen, v2 \in seen, v3 \in seen, v4 \in seen, v5 \in seen }

(* A slip: the comparison that finds an inversion is left out. *)
Read_AllInOrder(c) ==
  LET h == handler[c] IN
  /\ h.at = "read"
  /\ \E o \in Loads(h.seen) :
       Move(c, "read", AtUpdate(h.flow, h.pkt, InOrderInfo(o, h.pkt)))
  /\ UNCHANGED <<clock, map, mark, dequeued>>

Read(c) ==
  LET h == handler[c] IN
  /\ h.at = "read"
  /\ \E o \in Loads(h.seen) :
       Move(c, "read", AtUpdate(h.flow, h.pkt, NextInfo(o, h.pkt)))
  /\ UNCHANGED <<clock, map, mark, dequeued>>

(***************************************************************************)
(* bpf_map_update_elem(BPF_NOEXIST), whose result is not looked at: it     *)
(* does nothing when another CPU has created the entry, or the map is full.*)
(***************************************************************************)
Insert(c) ==
  LET h == handler[c] IN
  /\ Move(c, "insert", Idle)
  /\ \/ /\ slot[h.flow] = None
        /\ \E s \in Free :
             /\ slot' = [slot EXCEPT ![h.flow] = s]
             /\ mem' = [mem EXCEPT ![s] = FirstInfo(h.pkt)]
     \/ /\ slot[h.flow] # None \/ Free = {}
        /\ UNCHANGED <<slot, mem>>
  /\ UNCHANGED <<clock, spare, mark, dequeued>>

(* What filling s with v means for a handler that is reading an element. *)
Refilled(h, s, v) ==
  IF h.at = "read" /\ h.ptr = s THEN [h EXCEPT !.seen = @ \union {v}] ELSE h

(* bpf_map_update_elem(BPF_EXIST): entries are never deleted. *)
Update(c) ==
  LET h == handler[c] IN
  /\ h.at = "update"
  /\ handler' = [d \in CPUs |-> IF d = c THEN Idle
                                 ELSE Refilled(handler[d], spare[c], h.ninfo)]
  /\ mem' = [mem EXCEPT ![spare[c]] = h.ninfo]
  /\ slot' = [slot EXCEPT ![h.flow] = spare[c]]
  /\ spare' = [spare EXCEPT ![c] = slot[h.flow]]
  /\ UNCHANGED <<clock, mark, dequeued>>

-----------------------------------------------------------------------------
(* xdp_marker and parse_flow_id_mark_to *)

(***************************************************************************)
(* An ACK as the XDP program meets it: the port of the outer UDP header,   *)
(* none for plain TCP, and whether the inner TCP header starts its options *)
(* with NOP NOP TS and the frame has the 116 bytes of an ACK without data. *)
(***************************************************************************)
Ack == [outer : {"tcp", "vxlan", "geneve", "udp"}, bare : BOOLEAN]

IsMarkable(a) == a.outer \in {"vxlan", "geneve"} /\ a.bare

(* The ACKs of a host flow come back as plain TCP, others encapsulated. *)
Arrives(f, a) == a.outer = "tcp" <=> f \in HostFlows

(* The value of the option that replaces TSval's last byte. *)
MarkOf(cvalue) ==
  IF Adaptive
    THEN IF cvalue >= Cap * Unit THEN Cap ELSE (cvalue \div Unit) % Byte
    ELSE Cvalue % Byte

(* An ACK that is not markable, or whose flow has no entry, passes as it is. *)
LookupAck(c, f, a) ==
  /\ Arrives(f, a) /\ IsMarkable(a)
  /\ slot[f] # None
  /\ Move(c, "idle", AtMark(f, slot[f]))
  /\ UNCHANGED <<clock, map, mark, dequeued>>

MarkAck(c) ==
  LET h == handler[c] IN
  /\ Move(c, "mark", Idle)
  /\ mark' = [mark EXCEPT ![h.flow] = MarkOf(mem[h.ptr].cvalue)]
  /\ UNCHANGED <<clock, map, dequeued>>

-----------------------------------------------------------------------------
Init ==
  /\ clock = 0
  /\ slot = [f \in Flows |-> None]
  /\ mem = [s \in Slots |-> FirstInfo(NoPair)]
  /\ spare \in [CPUs -> Slots]
  /\ \A c, d \in CPUs : spare[c] = spare[d] => c = d
  /\ handler = [c \in CPUs |-> Idle]
  /\ mark = [f \in Flows |-> None]
  /\ dequeued = [f \in Flows |-> {}]

Next ==
  \E c \in CPUs :
    \/ \E f \in Flows, port \in Ports, p \in Pair : Dequeue(c, f, port, p)
    \/ Lookup(c)
    \/ Read(c)
    \/ Insert(c)
    \/ Update(c)
    \/ \E f \in Flows, a \in Ack : LookupAck(c, f, a)
    \/ MarkAck(c)

Spec == Init /\ [][Next]_vars

(***************************************************************************)
(* The same program on a host where the packets of a flow never leave by   *)
(* two transmit queues at once, so that its handlers do not overlap.       *)
(***************************************************************************)
Tracking(c) == handler[c].at \in {"lookup", "read", "insert", "update"}

NoOverlap ==
  \A c, d \in CPUs :
    Tracking(c) /\ Tracking(d) /\ handler[c].flow = handler[d].flow => c = d

SerialNext == Next /\ NoOverlap'

SerialSpec == Init /\ [][SerialNext]_vars

-----------------------------------------------------------------------------
Tracked(f) == slot[f] # None

Entry(f) == mem[slot[f]]

MarkRange == 0 .. Byte - 1

(* Every variable holds a value of its kind. *)
TypeOK ==
  /\ clock \in Time
  /\ slot \in [Flows -> Slots \union {None}]
  /\ mem \in [Slots -> OffsetInfo]
  /\ spare \in [CPUs -> Slots]
  /\ handler \in [CPUs -> Handler]
  /\ mark \in [Flows -> MarkRange \union {None}]
  /\ dequeued \in [Flows -> SUBSET Pair]

(***************************************************************************)
(* Whatever the interleaving, the last packet an entry remembers is one    *)
(* packet of its own flow: the update writes last_dequeued and last_edt    *)
(* from the locals of one handler, in one element, under its flow's key.   *)
(***************************************************************************)
LastPairIsOneDequeue ==
  \A f \in Flows : Tracked(f) => Entry(f).last \in dequeued[f]

(***************************************************************************)
(* Each flow has an element of its own, which is no CPU's spare, and no    *)
(* two CPUs share a spare: an update of one flow, or on one CPU, never     *)
(* overwrites the current entry of another.                                *)
(***************************************************************************)
ElementsAreApart ==
  /\ \A f, g \in Flows : Tracked(f) /\ slot[f] = slot[g] => f = g
  /\ \A c, d \in CPUs : spare[c] = spare[d] => c = d
  /\ \A f \in Flows, c \in CPUs : slot[f] # spare[c]

(***************************************************************************)
(* With one flow in the map, however its handlers overlap and tear their   *)
(* loads: the EDT recorded as out of order is one of a packet of the flow, *)
(* and a packet with an earlier EDT was dequeued as well.                  *)
(***************************************************************************)
OooEdtWasUndercut ==
  \A f \in Flows :
    Tracked(f) /\ Entry(f).ooo.edt # 0 =>
      /\ \E p \in dequeued[f] : p.edt = Entry(f).ooo.edt
      /\ \E p \in dequeued[f] : p.edt < Entry(f).ooo.edt

(***************************************************************************)
(* "The last transmission is OOO" (ihreo.bpf.c): the packet recorded as    *)
(* out of order left the host before one with an earlier EDT.              *)
(***************************************************************************)
InversionsAreReal ==
  \A f \in Flows :
    Tracked(f) /\ Entry(f).ooo # NoPair =>
      /\ Entry(f).ooo \in dequeued[f]
      /\ \E p \in dequeued[f] : /\ p.dequeued > Entry(f).ooo.dequeued
                                /\ p.edt < Entry(f).ooo.edt

(***************************************************************************)
(* An entry never asks for compensation unless packets of its flow did     *)
(* leave out of order, and an ACK is never marked with one unless those of *)
(* some flow did: the marker may read an element after it was recycled.    *)
(***************************************************************************)
LeftOutOfOrder(f) ==
  \E p, q \in dequeued[f] : p.dequeued < q.dequeued /\ p.edt > q.edt

CompensationNeedsInversion ==
  /\ \A f \in Flows : Tracked(f) /\ Entry(f).cvalue # 0 => LeftOutOfOrder(f)
  /\ Adaptive =>
       \A f \in Flows :
         mark[f] \notin {None, 0} => \E g \in Flows : LeftOutOfOrder(g)

(***************************************************************************)
(* The compensation of a flow changes only when an inversion is recorded:  *)
(* packets that leave in order, and other flows, leave it as it is.        *)
(***************************************************************************)
CompensationIsSticky ==
  [][\A f \in Flows :
       Tracked(f) /\ Entry(f)'.cvalue # Entry(f).cvalue =>
         /\ Entry(f)'.ooo = Entry(f).last
         /\ Entry(f)'.last.edt < Entry(f).last.edt]_vars

(***************************************************************************)
(* The comment above the computation: "Calculate the cvalue as             *)
(* theta_tx(now) - theta_tx(ooo) [...] If the calculated value is          *)
(* negative, bound it to zero", ooo being the pair the entry records.      *)
(***************************************************************************)
CvalueIsOffsetDifference ==
  [][\A f \in Flows :
       Tracked(f) /\ Entry(f)'.ooo # Entry(f).ooo =>
         LET d == Theta(Entry(f)'.last) - Theta(Entry(f)'.ooo)
         IN  Entry(f)'.cvalue = IF d > 0 THEN d ELSE 0]_vars

-----------------------------------------------------------------------------
(* The atomic view of the map: what Ihreo implements when serial. *)
Tracker ==
  INSTANCE OffsetTracker WITH
    entry <- [f \in Flows |-> IF Tracked(f) THEN Entry(f) ELSE None]

(***************************************************************************)
(* Serial handlers, though made of several steps over recycled elements,   *)
(* act on each flow's entry in one step and in the order of its packets.   *)
(***************************************************************************)
ImplementsTracker == Tracker!Spec
=============================================================================
