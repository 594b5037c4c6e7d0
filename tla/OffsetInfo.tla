----------------------------- MODULE OffsetInfo -----------------------------
(***************************************************************************)
(* What croffset computes from the dequeues of one flow: the value of type *)
(* struct offset_info (clean-slate/croffset/ihreo.h) and the three ways    *)
(* kretprobe_fq_dequeue fills one in.  Nothing here changes state; both    *)
(* the handler (Ihreo) and its atomic view (OffsetTracker) use it.         *)
(*                                                                         *)
(* A pair stands for one dequeued packet: the time fq handed it to the     *)
(* driver (now_ns) and its earliest departure time (skb_mstamp_ns).  The   *)
(* struct keeps two of them, last_{dequeued,edt} and ooo_{dequeued,edt}.   *)
(***************************************************************************)
EXTENDS Integers

CONSTANTS
  Time,     (* the values of the monotonic clock, in ns *)
  U32,      (* 2^32: cvalue is a __u32 *)
  U64       (* 2^64: times and their differences are __u64 *)

ASSUME OffsetInfoAssumption ==
  /\ U32 \in Nat \ {0} /\ U64 \in Nat \ {0}
  /\ Time \subseteq 0 .. U64 - 1 /\ 0 \in Time

Pair == [dequeued : Time, edt : Time]

(* A zeroed pair, "no packet yet". *)
NoPair == [dequeued |-> 0, edt |-> 0]

OffsetInfo == [last : Pair, ooo : Pair, cvalue : 0 .. U32 - 1]

(* theta_tx: how long the packet stayed in the host after its EDT. *)
Theta(p) == (p.dequeued - p.edt) % U64

(***************************************************************************)
(* Slips, each a variant of the definition named before the underscore.    *)
(* No specification uses them; the runs are shown to tell them apart.      *)
(***************************************************************************)
FirstInfo_OffsetAsCvalue(p) ==
  [last |-> p, ooo |-> NoPair, cvalue |-> Theta(p) % U32]

OooInfo_NoTruncation(o, p) ==
  [ last   |-> p,
    ooo    |-> o.last,
    cvalue |-> IF Theta(p) > Theta(o.last)
                 THEN (Theta(p) - Theta(o.ooo)) % U64
                 ELSE 0 ]

InOrderInfo_KeepsEdt(o, p) == [o EXCEPT !.last.dequeued = p.dequeued]

InOrderInfo_DropsCvalue(o, p) == [last |-> p, ooo |-> o.ooo, cvalue |-> 0]

IsInversion_EqualEdt(o, p) == o.last.edt >= p.edt

(* "Initial packet for a given flow". *)
FirstInfo(p) == [last |-> p, ooo |-> NoPair, cvalue |-> 0]

(***************************************************************************)
(* "The last transmission is OOO": the packet the entry remembers left     *)
(* although its EDT is later than this one's.  The guard compares with the *)
(* pair that is being recorded (ninfo.ooo), the subtraction uses the pair  *)
(* the entry held before (oinfo->ooo); the u64 result is cut to 32 bits.   *)
(***************************************************************************)
OooInfo(o, p) ==
  [ last   |-> p,
    ooo    |-> o.last,
    cvalue |-> IF Theta(p) > Theta(o.last)
                 THEN ((Theta(p) - Theta(o.ooo)) % U64) % U32
                 ELSE 0 ]

(* "The last transmission is in-order (normal case)". *)
InOrderInfo(o, p) == [o EXCEPT !.last = p]

IsInversion(o, p) == o.last.edt > p.edt

NextInfo(o, p) == IF IsInversion(o, p) THEN OooInfo(o, p) ELSE InOrderInfo(o, p)
=============================================================================
