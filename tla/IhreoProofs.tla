----------------------------- MODULE IhreoProofs ----------------------------
(***************************************************************************)
(* Theorems about Ihreo, for any number of flows, CPUs and elements and    *)
(* any clock.  Part 1 is about every interleaving, and what is left of the *)
(* inversions then; part 2 about hosts on which the handlers of one flow   *)
(* do not overlap: the refinement, the inversions, the compensation.       *)
(***************************************************************************)
EXTENDS Ihreo, TLAPS

(***************************************************************************)
(* What the update relies on: its flow has an entry, the value it stores   *)
(* ends in its own packet, and that packet is one of its flow.             *)
(***************************************************************************)
HandlersAreSound ==
  \A c \in CPUs :
    LET h == handler[c] IN
    /\ h.at \in {"read", "update"} => Tracked(h.flow)
    /\ h.at \in {"lookup", "read", "insert", "update"} =>
         h.pkt \in dequeued[h.flow]
    /\ h.at = "update" => h.ninfo.last = h.pkt

IInv ==
  /\ TypeOK
  /\ ElementsAreApart
  /\ HandlersAreSound
  /\ LastPairIsOneDequeue

-----------------------------------------------------------------------------
(* The computed values are of the right kind, torn loads included. *)

LEMMA ModuloInRange ==
  ASSUME NEW i \in Int, NEW n \in Nat \ {0}
  PROVE  i % n \in 0 .. n - 1
OBVIOUS

LEMMA PairIsNat ==
  ASSUME NEW p \in Pair
  PROVE  p.dequeued \in Nat /\ p.edt \in Nat
<1>1. \A t \in Time : t \in Nat
  BY OffsetInfoAssumption
<1> QED
  BY <1>1 DEF Pair

LEMMA ThetaType ==
  ASSUME NEW p \in Pair
  PROVE  Theta(p) \in Int
<1>1. p.dequeued - p.edt \in Int
  BY PairIsNat
<1> QED
  BY <1>1, ModuloInRange, OffsetInfoAssumption DEF Theta

LEMMA FirstInfoType ==
  ASSUME NEW p \in Pair
  PROVE  FirstInfo(p) \in OffsetInfo
BY OffsetInfoAssumption DEF FirstInfo, OffsetInfo, Pair, NoPair

LEMMA NextInfoType ==
  ASSUME NEW o \in OffsetInfo, NEW p \in Pair
  PROVE  NextInfo(o, p) \in OffsetInfo /\ NextInfo(o, p).last = p
<1>1. InOrderInfo(o, p) \in OffsetInfo /\ InOrderInfo(o, p).last = p
  BY DEF InOrderInfo, OffsetInfo
<1>2. OooInfo(o, p) \in OffsetInfo /\ OooInfo(o, p).last = p
  <2> DEFINE d == Theta(p) - Theta(o.ooo)
  <2>1. o.ooo \in Pair /\ o.last \in Pair
    BY DEF OffsetInfo
  <2>2. d \in Int
    BY <2>1, ThetaType
  <2>3. d % U64 \in Int
    BY <2>2, ModuloInRange, OffsetInfoAssumption
  <2>4. (d % U64) % U32 \in 0 .. U32 - 1
    BY <2>3, ModuloInRange, OffsetInfoAssumption
  <2>5. 0 \in 0 .. U32 - 1
    BY OffsetInfoAssumption
  <2> QED
    BY <2>1, <2>4, <2>5 DEF OooInfo, OffsetInfo
<1> QED
  BY <1>1, <1>2 DEF NextInfo

LEMMA LoadsType ==
  ASSUME NEW seen \in SUBSET OffsetInfo, NEW o \in Loads(seen)
  PROVE  o \in OffsetInfo
BY DEF Loads, OffsetInfo, Pair

LEMMA MarkOfType ==
  ASSUME NEW v \in Nat
  PROVE  MarkOf(v) \in MarkRange
<1>1. v \div Unit \in Int
  BY IhreoAssumption
<1>2. (v \div Unit) % Byte \in 0 .. Byte - 1 /\ Cvalue % Byte \in 0 .. Byte - 1
  BY <1>1, ModuloInRange, IhreoAssumption
<1>3. Cap \in 0 .. Byte - 1
  BY IhreoAssumption
<1> QED
  BY <1>2, <1>3 DEF MarkOf, MarkRange

-----------------------------------------------------------------------------
(* Part 1: every interleaving. *)

LEMMA InitIInv == Init => IInv
<1> SUFFICES ASSUME Init PROVE IInv
  OBVIOUS
<1>1. NoPair \in Pair
  BY OffsetInfoAssumption DEF NoPair, Pair
<1>2. TypeOK
  <2>1. FirstInfo(NoPair) \in OffsetInfo
    BY <1>1, FirstInfoType
  <2>2. Idle \in Handler
    BY DEF Idle, Handler
  <2> QED
    BY <2>1, <2>2, OffsetInfoAssumption DEF Init, TypeOK
<1>3. ElementsAreApart
  BY <1>2, IhreoAssumption DEF Init, ElementsAreApart, Tracked, TypeOK
<1>4. HandlersAreSound
  BY DEF Init, HandlersAreSound, Idle
<1>5. LastPairIsOneDequeue
  BY DEF Init, LastPairIsOneDequeue, Tracked
<1> QED
  BY <1>2, <1>3, <1>4, <1>5 DEF IInv

(***************************************************************************)
(* What a handler that is not idle holds. *)
(***************************************************************************)
LEMMA HandlerFields ==
  ASSUME NEW h \in Handler, h.at # "idle"
  PROVE  /\ h.flow \in Flows
         /\ h.at \in {"lookup", "read", "insert", "update"} => h.pkt \in Pair
         /\ h.at = "read" => h.ptr \in Slots /\ h.seen \in SUBSET OffsetInfo
         /\ h.at = "update" => h.ninfo \in OffsetInfo
         /\ h.at = "mark" => h.ptr \in Slots
BY DEF Handler

(***************************************************************************)
(* A step that leaves the map and the history alone, and moves one CPU to  *)
(* a sound state, preserves the invariant.                                 *)
(***************************************************************************)
LEMMA MoveIInv ==
  ASSUME IInv, NEW c \in CPUs, NEW from, NEW to \in Handler,
         Move(c, from, to), UNCHANGED <<map, mark, dequeued>>, clock' \in Time,
         to.at \in {"read", "update"} => Tracked(to.flow),
         to.at \in {"lookup", "read", "insert", "update"} =>
           to.pkt \in dequeued[to.flow],
         to.at = "update" => to.ninfo.last = to.pkt
  PROVE  IInv'
<1> USE DEF IInv, Move, map
<1>1. TypeOK'
  BY DEF TypeOK, MarkRange
<1>2. ElementsAreApart'
  BY DEF ElementsAreApart, Tracked
<1>3. HandlersAreSound'
  BY DEF HandlersAreSound, Tracked, TypeOK
<1>4. LastPairIsOneDequeue'
  BY DEF LastPairIsOneDequeue, Tracked, Entry
<1> QED
  BY <1>1, <1>2, <1>3, <1>4

LEMMA DequeueIInv ==
  ASSUME IInv, NEW c \in CPUs, NEW f \in Flows, NEW port \in Ports,
         NEW p \in Pair, Dequeue(c, f, port, p)
  PROVE  IInv'
<1>1. clock' \in Time
  BY DEF Dequeue, Pair
<1>2. CASE ~ IsTracked(f, port, p.edt)
  <2>1. Move(c, "idle", Idle) /\ UNCHANGED <<map, mark, dequeued>>
    BY <1>2 DEF Dequeue
  <2> QED
    BY <1>1, <2>1, MoveIInv DEF Idle, Handler
<1>3. CASE IsTracked(f, port, p.edt)
  <2> USE <1>3 DEF Dequeue, IInv, Move, map, AtLookup
  <2>1. TypeOK'
    <3>1. AtLookup(f, p) \in Handler
      BY DEF Handler
    <3> QED
      BY <1>1, <3>1 DEF TypeOK, MarkRange
  <2>2. ElementsAreApart'
    BY DEF ElementsAreApart, Tracked
  <2>3. HandlersAreSound'
    <3>1. dequeued \in [Flows -> SUBSET Pair] /\ handler \in [CPUs -> Handler]
      BY DEF TypeOK
    <3>2. \A g \in Flows : dequeued[g] \subseteq dequeued'[g]
      BY <3>1
    <3>3. p \in dequeued'[f]
      BY <3>1
    <3>4. ASSUME NEW d \in CPUs, d # c PROVE handler'[d] = handler[d]
      BY <3>1, <3>4
    <3>5. handler'[c] = AtLookup(f, p)
      BY <3>1
    <3> QED
      BY <3>1, <3>2, <3>3, <3>4, <3>5, HandlerFields DEF HandlersAreSound, Tracked
  <2>4. LastPairIsOneDequeue'
    BY DEF LastPairIsOneDequeue, Tracked, Entry, TypeOK
  <2> QED
    BY <2>1, <2>2, <2>3, <2>4
<1> QED
  BY <1>2, <1>3

LEMMA LookupIInv ==
  ASSUME IInv, NEW c \in CPUs, Lookup(c)
  PROVE  IInv'
<1> DEFINE h == handler[c]
<1>1. h.at = "lookup" /\ h \in Handler
  BY DEF Lookup, IInv, TypeOK
<1>2. h.flow \in Flows /\ h.pkt \in Pair /\ h.pkt \in dequeued[h.flow]
  BY <1>1 DEF Handler, IInv, HandlersAreSound
<1>3. clock' \in Time /\ UNCHANGED <<map, mark, dequeued>>
  BY DEF Lookup, IInv, TypeOK
<1>4. CASE slot[h.flow] = None
  <2>1. Move(c, "lookup", AtInsert(h.flow, h.pkt))
    BY <1>4 DEF Lookup
  <2>2. AtInsert(h.flow, h.pkt) \in Handler
    BY <1>2 DEF AtInsert, Handler
  <2> HIDE DEF h
  <2> QED
    BY <1>2, <1>3, <2>1, <2>2, MoveIInv DEF AtInsert
<1>5. CASE slot[h.flow] # None
  <2> DEFINE to == AtRead(h.flow, h.pkt, slot[h.flow], {mem[slot[h.flow]]})
  <2>1. Move(c, "lookup", to)
    BY <1>5 DEF Lookup
  <2>2. to \in Handler
    BY <1>2, <1>5 DEF AtRead, Handler, IInv, TypeOK
  <2>3. to.at = "read" /\ Tracked(to.flow) /\ to.pkt \in dequeued[to.flow]
    BY <1>2, <1>5 DEF AtRead, Tracked
  <2> HIDE DEF h, to
  <2> QED
    BY <1>3, <2>1, <2>2, <2>3, MoveIInv
<1> QED
  BY <1>4, <1>5

LEMMA ReadIInv ==
  ASSUME IInv, NEW c \in CPUs, Read(c)
  PROVE  IInv'
<1> DEFINE h == handler[c]
<1>1. h.at = "read" /\ h \in Handler
  BY DEF Read, IInv, TypeOK
<1>2. /\ h.flow \in Flows /\ h.pkt \in Pair /\ h.seen \in SUBSET OffsetInfo
      /\ h.pkt \in dequeued[h.flow] /\ Tracked(h.flow)
  BY <1>1 DEF Handler, IInv, HandlersAreSound
<1>3. PICK o \in Loads(h.seen) :
        Move(c, "read", AtUpdate(h.flow, h.pkt, NextInfo(o, h.pkt)))
  BY DEF Read
<1> DEFINE to == AtUpdate(h.flow, h.pkt, NextInfo(o, h.pkt))
<1>4. NextInfo(o, h.pkt) \in OffsetInfo /\ NextInfo(o, h.pkt).last = h.pkt
  BY <1>2, LoadsType, NextInfoType
<1>5. to \in Handler
  BY <1>2, <1>4 DEF AtUpdate, Handler
<1>6. /\ to.at = "update" /\ Tracked(to.flow)
      /\ to.pkt \in dequeued[to.flow] /\ to.ninfo.last = to.pkt
  BY <1>2, <1>4 DEF AtUpdate
<1>7. clock' \in Time /\ UNCHANGED <<map, mark, dequeued>>
  BY DEF Read, IInv, TypeOK
<1> HIDE DEF h, to
<1> QED
  BY <1>3, <1>5, <1>6, <1>7, MoveIInv DEF to

(* A handler of another flow's entry, or of no entry, is left as it is. *)
LEMMA InsertIInv ==
  ASSUME IInv, NEW c \in CPUs, Insert(c)
  PROVE  IInv'
<1> DEFINE h == handler[c]
<1>1. h.at = "insert" /\ h \in Handler /\ Move(c, "insert", Idle)
  BY DEF Insert, Move, IInv, TypeOK
<1>2. h.flow \in Flows /\ h.pkt \in Pair /\ h.pkt \in dequeued[h.flow]
  BY <1>1, HandlerFields DEF IInv, HandlersAreSound
<1>3. UNCHANGED <<clock, spare, mark, dequeued>>
  BY DEF Insert
<1>4. CASE UNCHANGED <<slot, mem>>
  <2>1. UNCHANGED <<map, mark, dequeued>> /\ clock' \in Time
    BY <1>3, <1>4 DEF map, IInv, TypeOK
  <2> QED
    BY <1>1, <2>1, MoveIInv DEF Idle, Handler
<1>5. ASSUME slot[h.flow] = None, NEW s \in Free,
             slot' = [slot EXCEPT ![h.flow] = s],
             mem' = [mem EXCEPT ![s] = FirstInfo(h.pkt)]
      PROVE  IInv'
  <2>1. s \in Slots /\ s # None
        /\ (\A f \in Flows : slot[f] # s) /\ (\A d \in CPUs : spare[d] # s)
    BY IhreoAssumption DEF Free
  <2>2. FirstInfo(h.pkt) \in OffsetInfo /\ FirstInfo(h.pkt).last = h.pkt
    BY <1>2, FirstInfoType DEF FirstInfo
  <2>3. TypeOK
    BY DEF IInv
  <2>4. TypeOK'
    <3>1. Idle \in Handler
      BY DEF Idle, Handler
    <3> QED
      BY <1>1, <1>2, <1>3, <1>5, <2>1, <2>2, <2>3, <3>1
         DEF TypeOK, MarkRange, Move
  <2>5. ElementsAreApart'
    BY <1>2, <1>3, <1>5, <2>1, <2>3 DEF ElementsAreApart, Tracked, TypeOK, IInv
  <2>6. HandlersAreSound'
    <3>1. \A f \in Flows : Tracked(f) => Tracked(f)'
      BY <1>2, <1>5, <2>1, <2>3 DEF Tracked, TypeOK
    <3>2. \A d \in CPUs : handler'[d] = handler[d] \/ handler'[d] = Idle
      BY <1>1, <2>3 DEF Move, TypeOK
    <3> QED
      BY <1>3, <2>3, <3>1, <3>2, HandlerFields
         DEF HandlersAreSound, IInv, TypeOK, Idle
  <2>7. LastPairIsOneDequeue'
    BY <1>2, <1>3, <1>5, <2>1, <2>2, <2>3
       DEF LastPairIsOneDequeue, Tracked, Entry, TypeOK, IInv
  <2> QED
    BY <2>4, <2>5, <2>6, <2>7 DEF IInv
<1> QED
  BY <1>4, <1>5 DEF Insert

(***************************************************************************)
(* The handlers after an update: the updating CPU is idle, the others are  *)
(* where they were, having perhaps seen one more value.                    *)
(***************************************************************************)
LEMMA RefilledType ==
  ASSUME NEW h \in Handler, NEW s \in Slots, NEW v \in OffsetInfo
  PROVE  /\ Refilled(h, s, v) \in Handler
         /\ Refilled(h, s, v).at = h.at
         /\ h.at # "idle" => Refilled(h, s, v).flow = h.flow
         /\ h.at \in {"lookup", "read", "insert", "update"} =>
              Refilled(h, s, v).pkt = h.pkt
         /\ h.at = "update" => Refilled(h, s, v) = h
<1>1. CASE h.at = "read" /\ h.ptr = s
  <2>1. /\ h \in [at : {"read"}, flow : Flows, pkt : Pair, ptr : Slots,
                  seen : SUBSET OffsetInfo]
        /\ Refilled(h, s, v) = [h EXCEPT !.seen = @ \union {v}]
    BY <1>1 DEF Handler, Refilled
  <2>2. Refilled(h, s, v) \in
          [at : {"read"}, flow : Flows, pkt : Pair, ptr : Slots,
           seen : SUBSET OffsetInfo]
    BY <2>1
  <2> QED
    BY <1>1, <2>1, <2>2 DEF Handler
<1>2. CASE ~ (h.at = "read" /\ h.ptr = s)
  BY <1>2 DEF Refilled
<1> QED
  BY <1>1, <1>2

LEMMA UpdateIInv ==
  ASSUME IInv, NEW c \in CPUs, Update(c)
  PROVE  IInv'
<1> DEFINE h == handler[c]
<1>1. h.at = "update" /\ h \in Handler /\ TypeOK
  BY DEF Update, IInv, TypeOK
<1>2. /\ h.flow \in Flows /\ h.pkt \in Pair /\ h.ninfo \in OffsetInfo
      /\ h.pkt \in dequeued[h.flow] /\ h.ninfo.last = h.pkt
      /\ Tracked(h.flow)
  BY <1>1, HandlerFields DEF IInv, HandlersAreSound
<1>3. /\ UNCHANGED <<clock, mark, dequeued>>
      /\ mem' = [mem EXCEPT ![spare[c]] = h.ninfo]
      /\ slot' = [slot EXCEPT ![h.flow] = spare[c]]
      /\ spare' = [spare EXCEPT ![c] = slot[h.flow]]
      /\ handler' = [d \in CPUs |-> IF d = c THEN Idle
                                    ELSE Refilled(handler[d], spare[c], h.ninfo)]
  BY DEF Update
<1>4. spare[c] \in Slots /\ spare[c] # None /\ slot[h.flow] \in Slots
  BY <1>1, <1>2, IhreoAssumption DEF TypeOK, Tracked
<1> HIDE DEF h
<1>5. TypeOK'
  <2>1. handler' \in [CPUs -> Handler]
    <3>1. Idle \in Handler
      BY DEF Idle, Handler
    <3>2. \A d \in CPUs : Refilled(handler[d], spare[c], h.ninfo) \in Handler
      BY <1>1, <1>2, <1>4, RefilledType DEF TypeOK
    <3> QED
      BY <1>3, <3>1, <3>2
  <2> QED
    BY <1>1, <1>2, <1>3, <1>4, <2>1 DEF TypeOK, MarkRange
<1>6. ElementsAreApart'
  BY <1>1, <1>2, <1>3, <1>4 DEF ElementsAreApart, Tracked, TypeOK, IInv
<1>7. HandlersAreSound'
  <2>1. \A f \in Flows : Tracked(f) => Tracked(f)'
    BY <1>1, <1>2, <1>3, <1>4 DEF Tracked, TypeOK
  <2>2. handler'[c].at = "idle"
    BY <1>3 DEF Idle
  <2>3. ASSUME NEW d \in CPUs, d # c
        PROVE  handler'[d] = Refilled(handler[d], spare[c], h.ninfo)
    BY <1>3, <2>3
  <2>4. ASSUME NEW d \in CPUs, d # c
        PROVE  /\ handler'[d].at \in {"read", "update"} =>
                    slot'[handler'[d].flow] # None
               /\ handler'[d].at \in {"lookup", "read", "insert", "update"} =>
                    handler'[d].pkt \in dequeued'[handler'[d].flow]
               /\ handler'[d].at = "update" =>
                    handler'[d].ninfo.last = handler'[d].pkt
    <3> DEFINE k == handler[d]
               r == Refilled(k, spare[c], h.ninfo)
    <3>1. k \in Handler
      BY <1>1 DEF TypeOK
    <3>2. /\ k.at \in {"read", "update"} => Tracked(k.flow)
          /\ k.at \in {"lookup", "read", "insert", "update"} =>
               k.pkt \in dequeued[k.flow]
          /\ k.at = "update" => k.ninfo.last = k.pkt
      BY DEF IInv, HandlersAreSound
    <3>3. /\ r.at = k.at
          /\ k.at # "idle" => r.flow = k.flow /\ k.flow \in Flows
          /\ k.at \in {"lookup", "read", "insert", "update"} => r.pkt = k.pkt
          /\ k.at = "update" => r = k
      BY <1>2, <1>4, <3>1, RefilledType, HandlerFields
    <3>4. handler'[d] = r
      BY <2>3, <2>4
    <3> HIDE DEF k, r
    <3> QED
      BY <1>3, <2>1, <3>2, <3>3, <3>4 DEF Tracked
  <2> QED
    BY <2>2, <2>4 DEF HandlersAreSound, Tracked
<1>8. LastPairIsOneDequeue'
  BY <1>1, <1>2, <1>3, <1>4
     DEF LastPairIsOneDequeue, ElementsAreApart, Tracked, Entry, TypeOK, IInv
<1> QED
  BY <1>5, <1>6, <1>7, <1>8 DEF IInv

LEMMA NextIInv == IInv /\ [Next]_vars => IInv'
<1> SUFFICES ASSUME IInv, [Next]_vars PROVE IInv'
  OBVIOUS
<1>1. CASE UNCHANGED vars
  BY <1>1 DEF vars, map, IInv, TypeOK, ElementsAreApart, HandlersAreSound,
              LastPairIsOneDequeue, Tracked, Entry, MarkRange
<1>2. ASSUME NEW c \in CPUs, NEW f \in Flows, NEW a \in Ack,
             LookupAck(c, f, a)
      PROVE  IInv'
  <2>1. Move(c, "idle", AtMark(f, slot[f])) /\ slot[f] # None
        /\ UNCHANGED <<map, mark, dequeued>> /\ clock' \in Time
    BY <1>2 DEF LookupAck, IInv, TypeOK
  <2>2. AtMark(f, slot[f]) \in Handler
    BY <2>1 DEF AtMark, Handler, IInv, TypeOK
  <2> QED
    BY <2>1, <2>2, MoveIInv DEF AtMark
<1>3. ASSUME NEW c \in CPUs, MarkAck(c)
      PROVE  IInv'
  <2> DEFINE h == handler[c]
             m == MarkOf(mem[h.ptr].cvalue)
  <2>1. h \in Handler /\ h.at = "mark" /\ TypeOK
    BY <1>3 DEF MarkAck, Move, IInv, TypeOK
  <2>2. h.flow \in Flows /\ mem[h.ptr] \in OffsetInfo
    BY <2>1, HandlerFields DEF TypeOK
  <2>3. mem[h.ptr].cvalue \in Nat
    BY <2>2, OffsetInfoAssumption DEF OffsetInfo
  <2>4. m \in MarkRange
    BY <2>3, MarkOfType
  <2>5. /\ Move(c, "mark", Idle) /\ UNCHANGED <<clock, map, dequeued>>
        /\ mark' = [mark EXCEPT ![h.flow] = m]
    BY <1>3 DEF MarkAck
  <2>6. Idle \in Handler
    BY DEF Idle, Handler
  <2> HIDE DEF h, m
  <2>7. TypeOK'
    BY <2>1, <2>2, <2>4, <2>5, <2>6 DEF TypeOK, Move, map, MarkRange
  <2>8. ElementsAreApart'
    BY <2>5 DEF ElementsAreApart, Tracked, map, IInv
  <2>9. HandlersAreSound'
    BY <2>1, <2>5 DEF HandlersAreSound, Tracked, map, IInv, TypeOK, Move, Idle
  <2>10. LastPairIsOneDequeue'
    BY <2>5 DEF LastPairIsOneDequeue, Tracked, Entry, map, IInv
  <2> QED
    BY <2>7, <2>8, <2>9, <2>10 DEF IInv
<1> QED
  BY <1>1, <1>2, <1>3, DequeueIInv, LookupIInv, ReadIInv, InsertIInv, UpdateIInv
     DEF Next

(***************************************************************************)
(* Every variable keeps a value of its kind: marks fit their byte and      *)
(* compensations their 32 bits whatever a torn load returned, and a CPU's  *)
(* spare is always an element, since no entry is ever deleted.             *)
(***************************************************************************)
THEOREM TypeCorrect == Spec => []TypeOK
<1>1. IInv => TypeOK
  BY DEF IInv
<1> QED
  BY <1>1, InitIInv, NextIInv, PTL DEF Spec

(***************************************************************************)
(* In every interleaving the last packet an entry remembers is one packet  *)
(* of its own flow, its two times never being mixed with another's.        *)
(***************************************************************************)
THEOREM LastPairCorrect == Spec => []LastPairIsOneDequeue
<1>1. IInv => LastPairIsOneDequeue
  BY DEF IInv
<1> QED
  BY <1>1, InitIInv, NextIInv, PTL DEF Spec

-----------------------------------------------------------------------------
(* One flow in the map: handlers that overlap, and loads that tear. *)

(***************************************************************************)
(* What holds of every word of an offset_info of a flow, whichever of its  *)
(* five words were loaded together, ps being the flow's packets: the last  *)
(* EDT is one of theirs, and so is the EDT recorded as out of order, which *)
(* that of another packet undercuts.                                       *)
(***************************************************************************)
Fits(ps, v) ==
  /\ \E p \in ps : p.edt = v.last.edt
  /\ v.ooo.edt # 0 =>
       /\ \E p \in ps : p.edt = v.ooo.edt
       /\ \E p \in ps : p.edt < v.ooo.edt

UndercutInv ==
  /\ \A f \in Flows : Tracked(f) => Fits(dequeued[f], Entry(f))
  /\ \A c \in CPUs :
       LET h == handler[c] IN
       /\ h.at = "read" => \A v \in h.seen : Fits(dequeued[h.flow], v)
       /\ h.at = "update" => Fits(dequeued[h.flow], h.ninfo)

OneTracked == \A f, g \in Flows : Tracked(f) /\ Tracked(g) => f = g

LEMMA FirstInfoFits ==
  ASSUME NEW ps, NEW p \in ps
  PROVE  Fits(ps, FirstInfo(p))
BY DEF Fits, FirstInfo, NoPair

(* A torn load of values that fit is a value that fits. *)
LEMMA LoadsFit ==
  ASSUME NEW ps, NEW seen, \A v \in seen : Fits(ps, v),
         NEW o \in Loads(seen)
  PROVE  Fits(ps, o)
<1>1. PICK v2 \in seen, v4 \in seen :
        o.last.edt = v2.last.edt /\ o.ooo.edt = v4.ooo.edt
  BY DEF Loads
<1> QED
  BY <1>1 DEF Fits

LEMMA NextInfoFits ==
  ASSUME NEW ps \in SUBSET Pair, NEW o \in OffsetInfo, Fits(ps, o),
         NEW p \in ps
  PROVE  Fits(ps, NextInfo(o, p))
<1>1. CASE IsInversion(o, p)
  <2>1. NextInfo(o, p).last = p /\ NextInfo(o, p).ooo = o.last
    BY <1>1 DEF NextInfo, OooInfo
  <2>2. o.last.edt > p.edt
    BY <1>1 DEF IsInversion
  <2>3. p.edt \in Nat /\ o.last.edt \in Nat
    BY PairIsNat DEF OffsetInfo
  <2>4. p.edt < o.last.edt
    BY <2>2, <2>3
  <2> QED
    BY <2>1, <2>4 DEF Fits
<1>2. CASE ~ IsInversion(o, p)
  <2>1. NextInfo(o, p).last = p /\ NextInfo(o, p).ooo = o.ooo
    BY <1>2 DEF NextInfo, InOrderInfo, OffsetInfo
  <2> QED
    BY <2>1 DEF Fits
<1> QED
  BY <1>1, <1>2

LEMMA FitsStays ==
  ASSUME NEW ps, NEW qs, ps \subseteq qs, NEW v, Fits(ps, v)
  PROVE  Fits(qs, v)
BY DEF Fits

LEMMA InitUndercut == Init => UndercutInv
BY DEF Init, UndercutInv, Tracked, Idle

(***************************************************************************)
(* A step that leaves the map alone and moves one CPU to a handler whose   *)
(* values fit.                                                             *)
(***************************************************************************)
LEMMA MoveUndercut ==
  ASSUME IInv, UndercutInv, NEW c \in CPUs, NEW from, NEW to \in Handler,
         Move(c, from, to), UNCHANGED map,
         \A f \in Flows : dequeued[f] \subseteq dequeued'[f],
         to.at = "read" => \A v \in to.seen : Fits(dequeued[to.flow], v),
         to.at = "update" => Fits(dequeued[to.flow], to.ninfo)
  PROVE  UndercutInv'
<1>1. ASSUME NEW f \in Flows, Tracked(f)'
      PROVE  Fits(dequeued[f], Entry(f))'
  <2>1. Tracked(f) /\ Entry(f)' = Entry(f)
    BY <1>1 DEF Tracked, Entry, map
  <2>2. Fits(dequeued[f], Entry(f))
    BY <2>1 DEF UndercutInv
  <2> QED
    BY <2>1, <2>2 DEF Fits
<1>2. ASSUME NEW d \in CPUs
      PROVE  /\ handler'[d].at = "read" =>
                  \A v \in handler'[d].seen : Fits(dequeued'[handler'[d].flow], v)
             /\ handler'[d].at = "update" =>
                  Fits(dequeued'[handler'[d].flow], handler'[d].ninfo)
  <2> DEFINE k == handler'[d]
  <2>1. k \in Handler /\ (k = to \/ k = handler[d])
    BY DEF Move, IInv, TypeOK
  <2>2. /\ k.at = "read" => \A v \in k.seen : Fits(dequeued[k.flow], v)
        /\ k.at = "update" => Fits(dequeued[k.flow], k.ninfo)
    BY <2>1 DEF UndercutInv
  <2>3. k.at # "idle" => k.flow \in Flows
    BY <2>1, HandlerFields
  <2> HIDE DEF k
  <2>4. /\ k.at = "read" => \A v \in k.seen : Fits(dequeued'[k.flow], v)
        /\ k.at = "update" => Fits(dequeued'[k.flow], k.ninfo)
    BY <2>2, <2>3, FitsStays
  <2> QED
    BY <2>4 DEF k
<1> QED
  BY <1>1, <1>2 DEF UndercutInv

LEMMA ReadUndercut ==
  ASSUME IInv, UndercutInv, NEW c \in CPUs, Read(c)
  PROVE  UndercutInv'
<1> DEFINE h == handler[c]
<1>1. h.at = "read" /\ h \in Handler /\ TypeOK
  BY DEF Read, IInv, TypeOK
<1>2. /\ h.flow \in Flows /\ h.pkt \in Pair /\ h.seen \in SUBSET OffsetInfo
      /\ h.pkt \in dequeued[h.flow] /\ (\A v \in h.seen : Fits(dequeued[h.flow], v))
  BY <1>1, HandlerFields DEF IInv, HandlersAreSound, UndercutInv
<1>3. PICK o \in Loads(h.seen) :
        Move(c, "read", AtUpdate(h.flow, h.pkt, NextInfo(o, h.pkt)))
  BY DEF Read
<1> DEFINE to == AtUpdate(h.flow, h.pkt, NextInfo(o, h.pkt))
<1>4. o \in OffsetInfo /\ NextInfo(o, h.pkt) \in OffsetInfo
  BY <1>2, LoadsType, NextInfoType
<1>5. Fits(dequeued[h.flow], NextInfo(o, h.pkt))
  <2>1. dequeued[h.flow] \in SUBSET Pair
    BY <1>1, <1>2 DEF TypeOK
  <2>2. Fits(dequeued[h.flow], o)
    BY <1>2, LoadsFit
  <2> QED
    BY <1>2, <1>4, <2>1, <2>2, NextInfoFits
<1>6. to \in Handler /\ to.at = "update" /\ Fits(dequeued[to.flow], to.ninfo)
  BY <1>2, <1>4, <1>5 DEF AtUpdate, Handler
<1>7. UNCHANGED map /\ dequeued' = dequeued
  BY DEF Read
<1>8. Move(c, "read", to)
  BY <1>3
<1> HIDE DEF h, to
<1> QED
  BY <1>6, <1>7, <1>8, MoveUndercut

(* The new entry holds one packet, and nobody reads its element yet. *)
LEMMA InsertUndercut ==
  ASSUME IInv, UndercutInv, NEW c \in CPUs, Insert(c)
  PROVE  UndercutInv'
<1> DEFINE h == handler[c]
<1>1. /\ h.at = "insert" /\ h \in Handler /\ Move(c, "insert", Idle)
      /\ TypeOK /\ Idle \in Handler /\ Idle.at = "idle" /\ dequeued' = dequeued
  BY DEF Insert, Move, IInv, TypeOK, Idle, Handler
<1>2. h.flow \in Flows /\ h.pkt \in dequeued[h.flow]
  BY <1>1, HandlerFields DEF IInv, HandlersAreSound
<1>3. CASE UNCHANGED <<slot, mem>>
  <2>1. UNCHANGED map
    BY <1>3 DEF Insert, map
  <2> QED
    BY <1>1, <2>1, MoveUndercut
<1>4. ASSUME NEW s \in Free,
             slot' = [slot EXCEPT ![h.flow] = s],
             mem' = [mem EXCEPT ![s] = FirstInfo(h.pkt)]
      PROVE  UndercutInv'
  <2>1. s \in Slots /\ \A f \in Flows : slot[f] # s
    BY DEF Free
  <2>2. Fits(dequeued[h.flow], FirstInfo(h.pkt))
    BY <1>2, FirstInfoFits
  <2> HIDE DEF h
  <2>3. ASSUME NEW f \in Flows, Tracked(f)'
        PROVE  Fits(dequeued[f], Entry(f))'
    <3>1. CASE f = h.flow
      <4>1. Entry(f)' = FirstInfo(h.pkt)
        BY <1>1, <1>2, <1>4, <2>1, <3>1 DEF Entry, TypeOK
      <4> QED
        BY <1>1, <2>2, <3>1, <4>1 DEF Fits
    <3>2. CASE f # h.flow
      <4>1. Tracked(f) /\ Entry(f)' = Entry(f)
        BY <1>1, <1>2, <1>4, <2>1, <2>3, <3>2 DEF Tracked, Entry, TypeOK
      <4>2. Fits(dequeued[f], Entry(f))
        BY <4>1 DEF UndercutInv
      <4> QED
        BY <1>1, <4>1, <4>2 DEF Fits
    <3> QED
      BY <3>1, <3>2
  <2>4. \A d \in CPUs : handler'[d] = handler[d] \/ handler'[d].at = "idle"
    BY <1>1 DEF Move, TypeOK
  <2> QED
    BY <1>1, <2>3, <2>4 DEF UndercutInv, Fits
<1> QED
  BY <1>3, <1>4 DEF Insert

(***************************************************************************)
(* An update shows its value to whoever is reading the element it fills;   *)
(* with one flow in the map the reader is one of the same flow.            *)
(***************************************************************************)
LEMMA UpdateUndercut ==
  ASSUME IInv, UndercutInv, OneTracked, NEW c \in CPUs, Update(c)
  PROVE  UndercutInv'
<1> DEFINE h == handler[c]
<1>1. h.at = "update" /\ h \in Handler /\ TypeOK /\ dequeued' = dequeued
  BY DEF Update, IInv, TypeOK
<1>2. /\ h.flow \in Flows /\ h.ninfo \in OffsetInfo /\ Tracked(h.flow)
      /\ Fits(dequeued[h.flow], h.ninfo)
  BY <1>1, HandlerFields DEF IInv, HandlersAreSound, UndercutInv
<1>3. /\ mem' = [mem EXCEPT ![spare[c]] = h.ninfo]
      /\ slot' = [slot EXCEPT ![h.flow] = spare[c]]
      /\ handler' = [d \in CPUs |-> IF d = c THEN Idle
                                    ELSE Refilled(handler[d], spare[c], h.ninfo)]
  BY DEF Update
<1>4. spare[c] \in Slots /\ \A f \in Flows : slot[f] # spare[c]
  BY <1>1 DEF IInv, TypeOK, ElementsAreApart
<1> HIDE DEF h
<1>5. ASSUME NEW f \in Flows, Tracked(f)'
      PROVE  Fits(dequeued[f], Entry(f))'
  <2>1. CASE f = h.flow
    <3>1. Entry(f)' = h.ninfo
      BY <1>1, <1>2, <1>3, <1>4, <2>1 DEF Entry, TypeOK
    <3> QED
      BY <1>1, <1>2, <2>1, <3>1 DEF Fits
  <2>2. CASE f # h.flow
    <3>1. Tracked(f)
      BY <1>1, <1>2, <1>3, <1>5, <2>2 DEF Tracked, TypeOK
    <3> QED
      BY <1>2, <2>2, <3>1 DEF OneTracked
  <2> QED
    BY <2>1, <2>2
<1>6. ASSUME NEW d \in CPUs
      PROVE  /\ handler'[d].at = "read" =>
                  \A v \in handler'[d].seen : Fits(dequeued'[handler'[d].flow], v)
             /\ handler'[d].at = "update" =>
                  Fits(dequeued'[handler'[d].flow], handler'[d].ninfo)
  <2> DEFINE k == handler[d]
             r == handler'[d]
  <2>1. CASE d = c
    <3>1. r.at = "idle"
      BY <1>3, <2>1 DEF Idle
    <3> QED
      BY <3>1
  <2>2. CASE d # c
    <3>1. r = Refilled(k, spare[c], h.ninfo) /\ k \in Handler
      BY <1>1, <1>3, <2>2 DEF TypeOK
    <3>2. /\ k.at = "read" => \A v \in k.seen : Fits(dequeued[k.flow], v)
          /\ k.at = "update" => Fits(dequeued[k.flow], k.ninfo)
          /\ k.at = "read" => Tracked(k.flow)
      BY DEF UndercutInv, IInv, HandlersAreSound
    <3>3. CASE k.at = "read" /\ k.ptr = spare[c]
      <4>1. k.flow = h.flow
        BY <1>2, <3>1, <3>2, <3>3, HandlerFields DEF OneTracked
      <4>2. k.seen \in SUBSET OffsetInfo
            /\ k \in [at : {"read"}, flow : Flows, pkt : Pair, ptr : Slots,
                      seen : SUBSET OffsetInfo]
        BY <3>1, <3>3 DEF Handler
      <4>3. r.at = "read" /\ r.flow = k.flow /\ r.seen = k.seen \union {h.ninfo}
        BY <3>1, <3>3, <4>2 DEF Refilled
      <4> HIDE DEF k, r
      <4>4. \A v \in r.seen : Fits(dequeued[r.flow], v)
        BY <1>2, <3>2, <3>3, <4>1, <4>3
      <4>5. \A v \in r.seen : Fits(dequeued'[r.flow], v)
        BY <1>1, <4>4 DEF Fits
      <4> QED
        BY <4>3, <4>5 DEF r
    <3>4. CASE ~ (k.at = "read" /\ k.ptr = spare[c])
      <4>1. r = k
        BY <3>1, <3>4 DEF Refilled
      <4> HIDE DEF k, r
      <4>2. /\ r.at = "read" => \A v \in r.seen : Fits(dequeued'[r.flow], v)
            /\ r.at = "update" => Fits(dequeued'[r.flow], r.ninfo)
        BY <1>1, <3>2, <4>1 DEF Fits
      <4> QED
        BY <4>2 DEF r
    <3> QED
      BY <3>3, <3>4
  <2> QED
    BY <2>1, <2>2
<1> QED
  BY <1>5, <1>6 DEF UndercutInv

LEMMA NextUndercut ==
  IInv /\ UndercutInv /\ OneTracked /\ [Next]_vars => UndercutInv'
<1> SUFFICES ASSUME IInv, UndercutInv, OneTracked, [Next]_vars
             PROVE  UndercutInv'
  OBVIOUS
<1>1. CASE UNCHANGED vars
  BY <1>1 DEF vars, map, UndercutInv, Fits, Tracked, Entry
<1>2. ASSUME NEW c \in CPUs, NEW f \in Flows, NEW port \in Ports,
             NEW p \in Pair, Dequeue(c, f, port, p)
      PROVE  UndercutInv'
  <2>1. PICK to \in {Idle, AtLookup(f, p)} : Move(c, "idle", to)
    BY <1>2 DEF Dequeue
  <2>2. to \in Handler /\ to.at \notin {"read", "update"}
    BY DEF Idle, AtLookup, Handler
  <2>3. UNCHANGED map /\ \A g \in Flows : dequeued[g] \subseteq dequeued'[g]
    BY <1>2 DEF Dequeue, IInv, TypeOK
  <2> QED
    BY <2>1, <2>2, <2>3, MoveUndercut
<1>3. ASSUME NEW c \in CPUs, Lookup(c)
      PROVE  UndercutInv'
  <2> DEFINE h == handler[c]
             found == AtRead(h.flow, h.pkt, slot[h.flow], {mem[slot[h.flow]]})
  <2>1. h \in Handler /\ h.at = "lookup" /\ TypeOK
    BY <1>3 DEF Lookup, IInv, TypeOK
  <2>2. h.flow \in Flows /\ h.pkt \in Pair
    BY <2>1, HandlerFields
  <2>3. UNCHANGED map /\ dequeued' = dequeued
    BY <1>3 DEF Lookup
  <2>4. CASE slot[h.flow] = None
    <3>1. Move(c, "lookup", AtInsert(h.flow, h.pkt))
      BY <1>3, <2>4 DEF Lookup
    <3>2. /\ AtInsert(h.flow, h.pkt) \in Handler
          /\ AtInsert(h.flow, h.pkt).at = "insert"
      BY <2>2 DEF AtInsert, Handler
    <3> QED
      BY <2>3, <3>1, <3>2, MoveUndercut
  <2>5. CASE slot[h.flow] # None
    <3>1. Move(c, "lookup", found)
      BY <1>3, <2>5 DEF Lookup
    <3>2. found \in Handler /\ found.at = "read"
      BY <2>1, <2>2, <2>5 DEF AtRead, Handler, TypeOK
    <3>3. \A v \in found.seen : Fits(dequeued[found.flow], v)
      BY <2>2, <2>5 DEF AtRead, UndercutInv, Tracked, Entry
    <3> HIDE DEF found
    <3> QED
      BY <2>3, <3>1, <3>2, <3>3, MoveUndercut
  <2> QED
    BY <2>4, <2>5
<1>4. ASSUME NEW c \in CPUs, NEW f \in Flows, NEW a \in Ack,
             LookupAck(c, f, a)
      PROVE  UndercutInv'
  <2>1. /\ Move(c, "idle", AtMark(f, slot[f])) /\ slot[f] # None
        /\ UNCHANGED map /\ dequeued' = dequeued
    BY <1>4 DEF LookupAck
  <2>2. AtMark(f, slot[f]) \in Handler /\ AtMark(f, slot[f]).at = "mark"
    BY <2>1 DEF AtMark, Handler, IInv, TypeOK
  <2> QED
    BY <2>1, <2>2, MoveUndercut
<1>5. ASSUME NEW c \in CPUs, MarkAck(c)
      PROVE  UndercutInv'
  <2>1. Move(c, "mark", Idle) /\ UNCHANGED map /\ dequeued' = dequeued
    BY <1>5 DEF MarkAck
  <2>2. Idle \in Handler /\ Idle.at = "idle"
    BY DEF Idle, Handler
  <2> QED
    BY <2>1, <2>2, MoveUndercut
<1> QED
  BY <1>1, <1>2, <1>3, <1>4, <1>5, ReadUndercut, InsertUndercut, UpdateUndercut
     DEF Next

(***************************************************************************)
(* While one flow is in the map, its handlers overlapping as they may and  *)
(* their loads torn: the EDT recorded as out of order is one of a packet   *)
(* of the flow, and a packet with an earlier EDT was dequeued as well.     *)
(***************************************************************************)
THEOREM OooEdtIsUndercut == Spec /\ []OneTracked => []OooEdtWasUndercut
<1>1. UndercutInv => OooEdtWasUndercut
  BY DEF UndercutInv, OooEdtWasUndercut, Fits
<1> QED
  BY <1>1, InitIInv, NextIInv, InitUndercut, NextUndercut, PTL DEF Spec

-----------------------------------------------------------------------------
(* Part 2: the handlers of one flow do not overlap. *)

(***************************************************************************)
(* What a handler knows about the map between its steps: the entry it read *)
(* is still the current one, its element was not filled again, and its     *)
(* packet left the host after the one the entry remembers.                 *)
(***************************************************************************)
SerialHandler(c) ==
  LET h == handler[c] IN
  /\ h.at = "read" => h.ptr = slot[h.flow] /\ h.seen = {Entry(h.flow)}
  /\ h.at = "insert" => slot[h.flow] = None
  /\ h.at = "update" => h.ninfo = NextInfo(Entry(h.flow), h.pkt)
  /\ Tracking(c) =>
       /\ h.pkt.dequeued <= clock
       /\ Tracked(h.flow) => h.pkt.dequeued > Entry(h.flow).last.dequeued

EntryIsReal(f) ==
  Tracked(f) =>
    /\ Entry(f).last.dequeued <= clock
    /\ Entry(f).ooo # NoPair =>
         /\ Entry(f).ooo \in dequeued[f]
         /\ \E p \in dequeued[f] : /\ p.dequeued > Entry(f).ooo.dequeued
                                   /\ p.edt < Entry(f).ooo.edt

SInv ==
  /\ IInv
  /\ NoOverlap
  /\ \A c \in CPUs : SerialHandler(c)
  /\ \A f \in Flows : EntryIsReal(f)

(* The entry of f in the atomic view of the map. *)
Abstract == [f \in Flows |-> IF Tracked(f) THEN Entry(f) ELSE None]

LEMMA ClockIsNat ==
  ASSUME TypeOK
  PROVE  clock \in Nat
BY OffsetInfoAssumption DEF TypeOK

LEMMA EntryType ==
  ASSUME IInv, NEW f \in Flows, Tracked(f)
  PROVE  /\ slot[f] \in Slots
         /\ Entry(f) \in OffsetInfo
         /\ Entry(f).last \in Pair /\ Entry(f).ooo \in Pair
BY DEF IInv, TypeOK, Tracked, Entry, OffsetInfo

LEMMA NoPairType == NoPair \in Pair
BY OffsetInfoAssumption DEF NoPair, Pair

LEMMA InitSInv == Init => SInv
<1> SUFFICES ASSUME Init PROVE SInv
  OBVIOUS
<1>1. IInv
  BY InitIInv
<1>2. NoOverlap
  BY DEF Init, NoOverlap, Tracking, Idle
<1>3. \A c \in CPUs : SerialHandler(c)
  BY DEF Init, SerialHandler, Tracking, Idle
<1>4. \A f \in Flows : EntryIsReal(f)
  BY DEF Init, EntryIsReal, Tracked
<1> QED
  BY <1>1, <1>2, <1>3, <1>4 DEF SInv

(***************************************************************************)
(* The frame of a step of c: a flow whose entry stays as it is keeps being *)
(* real, and a handler of such a flow that does not move stays right.      *)
(***************************************************************************)
Kept(f) ==
  /\ slot'[f] = slot[f]
  /\ Tracked(f) => mem'[slot[f]] = mem[slot[f]]

LEMMA EntryFrame ==
  ASSUME SInv, IInv', NEW f \in Flows, Kept(f), clock' >= clock,
         dequeued[f] \subseteq dequeued'[f]
  PROVE  EntryIsReal(f)'
<1>1. CASE ~ Tracked(f)
  BY <1>1 DEF Kept, EntryIsReal, Tracked
<1>2. CASE Tracked(f)
  <2>1. slot'[f] = slot[f] /\ mem'[slot'[f]] = mem[slot[f]]
    BY <1>2 DEF Kept
  <2>2. EntryIsReal(f)
    BY DEF SInv
  <2>3. clock \in Nat /\ clock' \in Nat
    BY ClockIsNat, OffsetInfoAssumption DEF SInv, IInv, TypeOK
  <2>4. mem[slot[f]].last.dequeued \in Nat
    BY <1>2, EntryType, PairIsNat DEF SInv, Entry
  <2> QED
    BY <1>2, <2>1, <2>2, <2>3, <2>4 DEF EntryIsReal, Tracked, Entry
<1> QED
  BY <1>1, <1>2

LEMMA HandlerFrame ==
  ASSUME SInv, IInv', NEW c \in CPUs, handler'[c] = handler[c], clock' >= clock,
         Tracking(c) => Kept(handler[c].flow)
  PROVE  SerialHandler(c)'
<1> DEFINE h == handler[c]
<1>1. SerialHandler(c)
  BY DEF SInv
<1>2. CASE ~ Tracking(c)
  BY <1>2 DEF SerialHandler, Tracking
<1>3. CASE Tracking(c)
  <2>1. h \in Handler /\ h.at # "idle" /\ h.flow \in Flows /\ h.pkt \in Pair
    BY <1>3, HandlerFields DEF SInv, IInv, TypeOK, Tracking
  <2>2. slot'[h.flow] = slot[h.flow]
        /\ (Tracked(h.flow) => mem'[slot[h.flow]] = mem[slot[h.flow]])
    BY <1>3 DEF Kept
  <2>3. clock \in Nat /\ clock' \in Nat /\ h.pkt.dequeued \in Nat
    BY <2>1, ClockIsNat, PairIsNat, OffsetInfoAssumption DEF SInv, IInv, TypeOK
  <2>4. h.at \in {"read", "update"} => Tracked(h.flow)
    BY DEF SInv, IInv, HandlersAreSound
  <2> QED
    BY <1>1, <1>3, <2>2, <2>3, <2>4 DEF SerialHandler, Tracking, Tracked, Entry
<1> QED
  BY <1>2, <1>3

(* A move of c that leaves the map alone is a stutter of the atomic view. *)
LEMMA SerialMove ==
  ASSUME SInv, IInv', NoOverlap', NEW c \in CPUs, NEW from, NEW to,
         Move(c, from, to), UNCHANGED map, clock' >= clock,
         \A f \in Flows : dequeued[f] \subseteq dequeued'[f],
         SerialHandler(c)'
  PROVE  SInv' /\ UNCHANGED Abstract
<1>1. \A f \in Flows : Kept(f)
  BY DEF Kept, map
<1>2. \A f \in Flows : EntryIsReal(f)'
  BY <1>1, EntryFrame
<1>3. ASSUME NEW d \in CPUs PROVE SerialHandler(d)'
  <2>1. CASE d = c
    BY <2>1
  <2>2. CASE d # c
    <3>1. handler'[d] = handler[d]
      BY <2>2 DEF Move, SInv, IInv, TypeOK
    <3>2. Tracking(d) => Kept(handler[d].flow)
      BY <1>1, HandlerFields DEF SInv, IInv, TypeOK, Tracking
    <3> QED
      BY <3>1, <3>2, HandlerFrame
  <2> QED
    BY <2>1, <2>2
<1>4. UNCHANGED Abstract
  BY DEF Abstract, Tracked, Entry, map
<1> QED
  BY <1>2, <1>3, <1>4 DEF SInv

LEMMA SerialDequeue ==
  ASSUME SInv, IInv', NoOverlap', NEW c \in CPUs, NEW f \in Flows,
         NEW port \in Ports, NEW p \in Pair, Dequeue(c, f, port, p)
  PROVE  SInv' /\ UNCHANGED Abstract
<1>1. clock \in Nat /\ clock' = p.dequeued /\ p.dequeued \in Nat /\ clock' >= clock
  BY ClockIsNat, PairIsNat DEF SInv, IInv, Dequeue
<1>2. \A g \in Flows : dequeued[g] \subseteq dequeued'[g]
  BY DEF Dequeue, SInv, IInv, TypeOK
<1>3. UNCHANGED map /\ handler \in [CPUs -> Handler]
  BY DEF Dequeue, SInv, IInv, TypeOK
<1>4. CASE ~ IsTracked(f, port, p.edt)
  <2>1. Move(c, "idle", Idle)
    BY <1>4 DEF Dequeue
  <2>2. SerialHandler(c)'
    BY <1>3, <2>1 DEF Move, SerialHandler, Tracking, Idle
  <2> QED
    BY <1>1, <1>2, <1>3, <2>1, <2>2, SerialMove
<1>5. CASE IsTracked(f, port, p.edt)
  <2>1. Move(c, "idle", AtLookup(f, p))
    BY <1>5 DEF Dequeue
  <2>2. handler'[c] = AtLookup(f, p)
    BY <1>3, <2>1 DEF Move
  <2>3. Tracked(f) => p.dequeued > Entry(f).last.dequeued
    <3>1. p.dequeued > clock
      BY DEF Dequeue
    <3>2. Tracked(f) => Entry(f).last.dequeued \in Nat
      BY EntryType, PairIsNat DEF SInv
    <3>3. Tracked(f) => Entry(f).last.dequeued <= clock
      BY DEF SInv, EntryIsReal
    <3> QED
      BY <1>1, <3>1, <3>2, <3>3
  <2>4. SerialHandler(c)'
    BY <1>1, <1>3, <2>2, <2>3
       DEF SerialHandler, Tracking, AtLookup, Tracked, Entry, map
  <2> QED
    BY <1>1, <1>2, <1>3, <2>1, <2>4, SerialMove
<1> QED
  BY <1>4, <1>5

LEMMA SerialLookup ==
  ASSUME SInv, IInv', NoOverlap', NEW c \in CPUs, Lookup(c)
  PROVE  SInv' /\ UNCHANGED Abstract
<1> DEFINE h == handler[c]
<1>1. h.at = "lookup" /\ SerialHandler(c) /\ handler \in [CPUs -> Handler]
  BY DEF Lookup, SInv, IInv, TypeOK
<1>2. UNCHANGED <<clock, map, dequeued>> /\ clock' >= clock
  BY ClockIsNat DEF Lookup, SInv, IInv
<1>3. PICK to : Move(c, "lookup", to)
               /\ \/ slot[h.flow] = None /\ to = AtInsert(h.flow, h.pkt)
                  \/ /\ slot[h.flow] # None
                     /\ to = AtRead(h.flow, h.pkt, slot[h.flow],
                                    {mem[slot[h.flow]]})
  BY DEF Lookup
<1>4. handler'[c] = to
  BY <1>1, <1>3 DEF Move
<1>5. SerialHandler(c)'
  BY <1>1, <1>2, <1>3, <1>4
     DEF SerialHandler, Tracking, AtInsert, AtRead, Tracked, Entry, map
<1> QED
  BY <1>2, <1>3, <1>5, SerialMove

LEMMA LoadsOfOne ==
  ASSUME NEW v \in OffsetInfo, NEW o \in Loads({v})
  PROVE  o = v
<1>1. o = [ last   |-> [dequeued |-> v.last.dequeued, edt |-> v.last.edt],
            ooo    |-> [dequeued |-> v.ooo.dequeued, edt |-> v.ooo.edt],
            cvalue |-> v.cvalue ]
  BY DEF Loads
<1> QED
  BY <1>1 DEF OffsetInfo, Pair

LEMMA SerialRead ==
  ASSUME SInv, IInv', NoOverlap', NEW c \in CPUs, Read(c)
  PROVE  SInv' /\ UNCHANGED Abstract
<1> DEFINE h == handler[c]
<1>1. h.at = "read" /\ SerialHandler(c) /\ handler \in [CPUs -> Handler]
  BY DEF Read, SInv, IInv, TypeOK
<1>2. UNCHANGED <<clock, map, dequeued>> /\ clock' >= clock
  BY ClockIsNat DEF Read, SInv, IInv
<1>3. PICK o \in Loads(h.seen) :
        Move(c, "read", AtUpdate(h.flow, h.pkt, NextInfo(o, h.pkt)))
  BY DEF Read
<1>4. h.seen = {Entry(h.flow)} /\ Tracked(h.flow) /\ h.flow \in Flows
  BY <1>1, HandlerFields
     DEF SerialHandler, SInv, IInv, HandlersAreSound, TypeOK
<1>5. o = Entry(h.flow)
  BY <1>3, <1>4, EntryType, LoadsOfOne DEF SInv
<1>6. handler'[c] = AtUpdate(h.flow, h.pkt, NextInfo(Entry(h.flow), h.pkt))
  BY <1>1, <1>3, <1>5 DEF Move
<1>7. SerialHandler(c)'
  BY <1>1, <1>2, <1>6
     DEF SerialHandler, Tracking, AtUpdate, Tracked, Entry, map
<1> QED
  BY <1>2, <1>3, <1>7, SerialMove

(***************************************************************************)
(* The two steps that change the map.  Other flows keep their entries, and *)
(* the atomic view takes the step of the flow.                             *)
(***************************************************************************)
LEMMA TrackerTerms ==
  /\ Tracker!Pair = Pair
  /\ \A p : Tracker!FirstInfo(p) = FirstInfo(p)
  /\ \A o, p : Tracker!NextInfo(o, p) = NextInfo(o, p)
BY DEF Tracker!Pair, Pair, Tracker!FirstInfo, FirstInfo, Tracker!NoPair, NoPair,
       Tracker!NextInfo, NextInfo, Tracker!IsInversion, IsInversion,
       Tracker!OooInfo, OooInfo, Tracker!InOrderInfo, InOrderInfo,
       Tracker!Theta, Theta

LEMMA TrackStep ==
  ASSUME NEW f \in Flows, NEW p \in Pair, Abstract[f] = None,
         Abstract' = [Abstract EXCEPT ![f] = FirstInfo(p)]
  PROVE  Tracker!Next
<1>1. Tracker!Track(f, p)
  BY TrackerTerms DEF Tracker!Track, Abstract
<1> QED
  BY <1>1, TrackerTerms DEF Tracker!Next

LEMMA ObserveStep ==
  ASSUME NEW f \in Flows, NEW p \in Pair, Abstract[f] # None,
         p.dequeued > Abstract[f].last.dequeued,
         Abstract' = [Abstract EXCEPT ![f] = NextInfo(Abstract[f], p)]
  PROVE  Tracker!Next
<1>1. Tracker!Observe(f, p)
  BY TrackerTerms DEF Tracker!Observe, Abstract
<1> QED
  BY <1>1, TrackerTerms DEF Tracker!Next

LEMMA SerialInsert ==
  ASSUME SInv, IInv', NoOverlap', NEW c \in CPUs, Insert(c)
  PROVE  SInv' /\ (Tracker!Next \/ UNCHANGED Abstract)
<1>1. /\ handler[c].at = "insert" /\ SerialHandler(c) /\ TypeOK
      /\ Move(c, "insert", Idle) /\ handler'[c] = Idle
  BY DEF Insert, Move, SInv, IInv, TypeOK
<1> PICK f \in Flows, p \in Pair : f = handler[c].flow /\ p = handler[c].pkt
  BY <1>1, HandlerFields DEF TypeOK
<1>2. Tracking(c) /\ p.dequeued <= clock /\ slot[f] = None
  BY <1>1 DEF Tracking, SerialHandler
<1>3. UNCHANGED <<clock, spare, mark, dequeued>> /\ clock' >= clock
  BY ClockIsNat, <1>1 DEF Insert
<1>4. SerialHandler(c)'
  BY <1>1 DEF SerialHandler, Tracking, Idle
<1>5. CASE UNCHANGED <<slot, mem>>
  BY <1>1, <1>3, <1>4, <1>5, SerialMove DEF map
<1>6. ASSUME NEW s \in Free,
             slot' = [slot EXCEPT ![f] = s],
             mem' = [mem EXCEPT ![s] = FirstInfo(p)]
      PROVE  SInv' /\ Tracker!Next
  <2>1. /\ s \in Slots /\ s # None /\ \A g \in Flows : slot[g] # s
        /\ slot \in [Flows -> Slots \union {None}] /\ mem \in [Slots -> OffsetInfo]
        /\ handler \in [CPUs -> Handler]
    BY <1>1, IhreoAssumption DEF Free, TypeOK
  <2>2. /\ \A g \in Flows : g # f => Kept(g)
        /\ slot'[f] = s /\ mem'[s] = FirstInfo(p)
    BY <1>2, <1>6, <2>1 DEF Kept
  <2>3. ASSUME NEW d \in CPUs PROVE SerialHandler(d)'
    <3>1. CASE d = c
      BY <1>4, <3>1
    <3>2. CASE d # c
      <4>1. handler'[d] = handler[d]
        BY <1>1, <2>1, <3>2 DEF Move
      <4>2. Tracking(d) => handler[d].flow \in Flows /\ handler[d].flow # f
        BY <1>2, <2>1, <3>2, HandlerFields DEF Tracking, SInv, NoOverlap
      <4> QED
        BY <1>3, <2>2, <4>1, <4>2, HandlerFrame
    <3> QED
      BY <3>1, <3>2
  <2>4. ASSUME NEW g \in Flows PROVE EntryIsReal(g)'
    <3>1. CASE g = f
      <4>1. Entry(g)' = FirstInfo(p)
        BY <2>2, <3>1 DEF Entry
      <4> QED
        BY <1>2, <1>3, <4>1 DEF EntryIsReal, FirstInfo
    <3>2. CASE g # f
      BY <1>3, <2>2, <3>2, EntryFrame
    <3> QED
      BY <3>1, <3>2
  <2>5. Abstract[f] = None
    BY <1>2 DEF Abstract, Tracked
  <2>6. Abstract' = [Abstract EXCEPT ![f] = FirstInfo(p)]
    <3>1. Tracked(f)' /\ Entry(f)' = FirstInfo(p)
      BY <2>1, <2>2 DEF Tracked, Entry
    <3>2. \A g \in Flows : g # f =>
            /\ Tracked(g)' = Tracked(g)
            /\ Tracked(g) => Entry(g)' = Entry(g)
      BY <2>2 DEF Kept, Tracked, Entry
    <3> QED
      BY <1>2, <3>1, <3>2 DEF Abstract
  <2>7. Tracker!Next
    BY <1>2, <2>5, <2>6, TrackStep
  <2> QED
    BY <2>3, <2>4, <2>7 DEF SInv
<1> QED
  BY <1>5, <1>6 DEF Insert

(* An entry that was real stays so when the flow's next packet is recorded. *)
LEMMA NextInfoIsReal ==
  ASSUME SInv, NEW f \in Flows, Tracked(f), NEW p \in dequeued[f],
         p \in Pair, p.dequeued > Entry(f).last.dequeued
  PROVE  LET n == NextInfo(Entry(f), p) IN
         n.ooo # NoPair =>
           /\ n.ooo \in dequeued[f]
           /\ \E q \in dequeued[f] : /\ q.dequeued > n.ooo.dequeued
                                     /\ q.edt < n.ooo.edt
<1> DEFINE o == Entry(f)
<1>1. o \in OffsetInfo /\ o.last \in dequeued[f] /\ EntryIsReal(f)
  BY EntryType DEF SInv, IInv, LastPairIsOneDequeue
<1>2. CASE IsInversion(o, p)
  <2>1. NextInfo(o, p).ooo = o.last
    BY <1>2 DEF NextInfo, OooInfo
  <2>2. p.edt < o.last.edt
    BY <1>2, EntryType, PairIsNat DEF IsInversion, SInv
  <2> QED
    BY <1>1, <2>1, <2>2
<1>3. CASE ~ IsInversion(o, p)
  <2>1. NextInfo(o, p).ooo = o.ooo
    BY <1>1, <1>3 DEF NextInfo, InOrderInfo, OffsetInfo
  <2> QED
    BY <1>1, <2>1 DEF EntryIsReal
<1> QED
  BY <1>2, <1>3

LEMMA SerialUpdate ==
  ASSUME SInv, IInv', NoOverlap', NEW c \in CPUs, Update(c)
  PROVE  SInv' /\ Tracker!Next
<1>1. /\ handler[c].at = "update" /\ SerialHandler(c) /\ TypeOK
      /\ handler \in [CPUs -> Handler]
  BY DEF Update, SInv, IInv, TypeOK
<1> PICK f \in Flows, p \in Pair : f = handler[c].flow /\ p = handler[c].pkt
  BY <1>1, HandlerFields
<1>2. PICK n \in OffsetInfo : n = handler[c].ninfo
  BY <1>1, HandlerFields
<1>3. /\ Tracking(c) /\ p.dequeued <= clock /\ Tracked(f) /\ p \in dequeued[f]
      /\ p.dequeued > Entry(f).last.dequeued /\ n = NextInfo(Entry(f), p)
  BY <1>1, <1>2 DEF Tracking, SerialHandler, SInv, IInv, HandlersAreSound
<1>4. /\ UNCHANGED <<clock, mark, dequeued>> /\ clock' >= clock
      /\ mem' = [mem EXCEPT ![spare[c]] = n]
      /\ slot' = [slot EXCEPT ![f] = spare[c]]
      /\ handler' = [d \in CPUs |-> IF d = c THEN Idle
                                    ELSE Refilled(handler[d], spare[c], n)]
  BY <1>1, <1>2, ClockIsNat DEF Update
<1>5. /\ spare[c] \in Slots /\ spare[c] # None
      /\ \A g \in Flows : slot[g] # spare[c]
      /\ slot \in [Flows -> Slots \union {None}] /\ mem \in [Slots -> OffsetInfo]
  BY <1>1, IhreoAssumption DEF TypeOK, SInv, IInv, ElementsAreApart
<1>6. /\ \A g \in Flows : g # f => Kept(g)
      /\ slot'[f] = spare[c] /\ mem'[spare[c]] = n
  BY <1>4, <1>5 DEF Kept
<1>7. ASSUME NEW d \in CPUs PROVE SerialHandler(d)'
  <2>1. CASE d = c
    <3>1. handler'[d] = Idle
      BY <1>4, <2>1
    <3> QED
      BY <3>1 DEF SerialHandler, Tracking, Idle
  <2>2. CASE d # c
    <3>1. handler'[d] = Refilled(handler[d], spare[c], n)
      BY <1>4, <2>2
    <3>2. Tracking(d) => handler[d].flow \in Flows /\ handler[d].flow # f
      BY <1>1, <1>3, <2>2, HandlerFields DEF Tracking, SInv, NoOverlap
    <3>3. handler[d].at = "read" => handler[d].ptr = slot[handler[d].flow]
      BY DEF SInv, SerialHandler
    <3>4. handler[d].at = "read" => handler[d].ptr # spare[c]
      BY <1>5, <3>2, <3>3 DEF Tracking
    <3>5. handler'[d] = handler[d]
      BY <3>1, <3>4 DEF Refilled
    <3> QED
      BY <1>4, <1>6, <3>2, <3>5, HandlerFrame
  <2> QED
    BY <2>1, <2>2
<1>8. ASSUME NEW g \in Flows PROVE EntryIsReal(g)'
  <2>1. CASE g = f
    <3>1. Entry(g)' = n
      BY <1>6, <2>1 DEF Entry
    <3>2. n.last = p
      BY <1>3, EntryType, NextInfoType DEF SInv
    <3>3. n.ooo # NoPair =>
            /\ n.ooo \in dequeued[f]
            /\ \E q \in dequeued[f] : /\ q.dequeued > n.ooo.dequeued
                                      /\ q.edt < n.ooo.edt
      BY <1>3, NextInfoIsReal
    <3> QED
      BY <1>3, <1>4, <2>1, <3>1, <3>2, <3>3 DEF EntryIsReal
  <2>2. CASE g # f
    BY <1>4, <1>6, <2>2, EntryFrame
  <2> QED
    BY <2>1, <2>2
<1>9. Tracker!Next
  <2>1. Abstract[f] = Entry(f) /\ Abstract[f] # None
    BY <1>3, EntryType, IhreoAssumption DEF Abstract, SInv
  <2>2. Tracked(f)' /\ Entry(f)' = n
    BY <1>5, <1>6 DEF Tracked, Entry
  <2>3. \A g \in Flows : g # f =>
          /\ Tracked(g)' = Tracked(g)
          /\ Tracked(g) => Entry(g)' = Entry(g)
    BY <1>6 DEF Kept, Tracked, Entry
  <2>4. Abstract' = [Abstract EXCEPT ![f] = n]
    BY <2>2, <2>3 DEF Abstract
  <2> QED
    BY <1>3, <2>1, <2>4, ObserveStep
<1> QED
  BY <1>7, <1>8, <1>9 DEF SInv

LEMMA SerialStep == SInv /\ [SerialNext]_vars =>
                      SInv' /\ (Tracker!Next \/ UNCHANGED Abstract)
<1> SUFFICES ASSUME SInv, [SerialNext]_vars
             PROVE  SInv' /\ (Tracker!Next \/ UNCHANGED Abstract)
  OBVIOUS
<1>1. IInv'
  BY NextIInv DEF SInv, SerialNext, vars
<1>2. CASE UNCHANGED vars
  <2>1. UNCHANGED <<clock, slot, mem, spare, handler, mark, dequeued>>
    BY <1>2 DEF vars, map
  <2>2. NoOverlap'
    BY <2>1 DEF SInv, NoOverlap, Tracking
  <2>3. \A c \in CPUs : SerialHandler(c)'
    BY <2>1 DEF SInv, SerialHandler, Tracking, Tracked, Entry
  <2>4. \A f \in Flows : EntryIsReal(f)'
    BY <2>1 DEF SInv, EntryIsReal, Tracked, Entry
  <2>5. UNCHANGED Abstract
    BY <2>1 DEF Abstract, Tracked, Entry
  <2> QED
    BY <1>1, <2>2, <2>3, <2>4, <2>5 DEF SInv
<1>3. CASE Next /\ NoOverlap'
  <2> USE <1>1, <1>3
  <2>1. ASSUME NEW c \in CPUs, NEW f \in Flows, NEW a \in Ack, LookupAck(c, f, a)
        PROVE  SInv' /\ UNCHANGED Abstract
    <3>1. /\ Move(c, "idle", AtMark(f, slot[f])) /\ UNCHANGED <<map, clock, dequeued>>
          /\ clock' >= clock /\ handler \in [CPUs -> Handler]
      BY <2>1, ClockIsNat DEF LookupAck, SInv, IInv, TypeOK
    <3>2. SerialHandler(c)'
      BY <3>1 DEF Move, SerialHandler, Tracking, AtMark
    <3> QED
      BY <3>1, <3>2, SerialMove
  <2>2. ASSUME NEW c \in CPUs, MarkAck(c)
        PROVE  SInv' /\ UNCHANGED Abstract
    <3>1. /\ Move(c, "mark", Idle) /\ UNCHANGED <<map, clock, dequeued>>
          /\ clock' >= clock /\ handler \in [CPUs -> Handler]
      BY <2>2, ClockIsNat DEF MarkAck, SInv, IInv, TypeOK
    <3>2. SerialHandler(c)'
      BY <3>1 DEF Move, SerialHandler, Tracking, Idle
    <3> QED
      BY <3>1, <3>2, SerialMove
  <2> QED
    BY <2>1, <2>2, SerialDequeue, SerialLookup, SerialRead, SerialInsert,
       SerialUpdate DEF Next
<1> QED
  BY <1>2, <1>3 DEF SerialNext

(***************************************************************************)
(* When the handlers of a flow do not overlap, a packet recorded as out of *)
(* order did leave the host before one with an earlier EDT, on any number  *)
(* of CPUs and with any recycling of the map's elements.                   *)
(***************************************************************************)
THEOREM InversionsCorrect == SerialSpec => []InversionsAreReal
<1>1. SInv => InversionsAreReal
  BY DEF SInv, EntryIsReal, InversionsAreReal
<1>2. SInv /\ [SerialNext]_vars => SInv'
  BY SerialStep
<1> QED
  BY <1>1, <1>2, InitSInv, PTL DEF SerialSpec

(***************************************************************************)
(* ... and the handlers, with their separate lookups, loads and updates,   *)
(* implement the map that changes one entry at a time in one step.         *)
(***************************************************************************)
THEOREM Implementation == SerialSpec => ImplementsTracker
<1>1. Init => Tracker!Init
  BY DEF Init, Tracker!Init, Tracked
<1>2. SInv /\ [SerialNext]_vars => SInv'
  BY SerialStep
<1>3. SInv /\ [SerialNext]_vars =>
        [Tracker!Next]_([f \in Flows |-> IF Tracked(f) THEN Entry(f) ELSE None])
  BY SerialStep DEF Abstract
<1> QED
  BY <1>1, <1>2, <1>3, InitSInv, PTL
     DEF SerialSpec, ImplementsTracker, Tracker!Spec

-----------------------------------------------------------------------------
(* When a compensation is asked for, on hosts on which the handlers of one *)
(* flow do not overlap.                                                    *)

(***************************************************************************)
(* The compensation of a flow changes only in the step that records an     *)
(* inversion: such a step is one of the atomic tracker, which looks at one *)
(* entry and one packet.                                                   *)
(***************************************************************************)
LEMMA StickyStep ==
  ASSUME SInv, [SerialNext]_vars, NEW f \in Flows, Tracked(f),
         Entry(f)'.cvalue # Entry(f).cvalue
  PROVE  /\ Entry(f)'.ooo = Entry(f).last
         /\ Entry(f)'.last.edt < Entry(f).last.edt
<1>1. Abstract[f] = Entry(f) /\ Entry(f) \in OffsetInfo /\ Abstract[f] # None
  BY EntryType, IhreoAssumption DEF Abstract, SInv
<1>2. Abstract'[f] # None => Abstract'[f] = Entry(f)'
  BY DEF Abstract
<1>3. CASE UNCHANGED Abstract
  BY <1>1, <1>2, <1>3
<1>4. CASE Tracker!Next
  <2>1. PICK g \in Flows, p \in Pair : Tracker!Track(g, p) \/ Tracker!Observe(g, p)
    BY <1>4, TrackerTerms DEF Tracker!Next
  <2>2. CASE g # f \/ Tracker!Track(g, p)
    <3>1. Abstract'[f] = Abstract[f]
      BY <1>1, <2>1, <2>2 DEF Tracker!Track, Tracker!Observe, Abstract
    <3> QED
      BY <1>1, <1>2, <3>1
  <2>3. CASE g = f /\ Tracker!Observe(f, p)
    <3>1. Abstract' = [Abstract EXCEPT ![f] = NextInfo(Entry(f), p)]
      BY <1>1, <2>3, TrackerTerms DEF Tracker!Observe, Abstract
    <3>2. Abstract'[f] = NextInfo(Entry(f), p)
      BY <3>1 DEF Abstract
    <3>3. NextInfo(Entry(f), p) # None
      BY <1>1, NextInfoType, IhreoAssumption
    <3>4. Entry(f)' = NextInfo(Entry(f), p)
      BY <1>2, <3>2, <3>3
    <3>5. IsInversion(Entry(f), p)
      BY <1>1, <3>4 DEF NextInfo, InOrderInfo, OffsetInfo
    <3>6. p.edt < Entry(f).last.edt
      BY <3>5, EntryType, PairIsNat DEF IsInversion, SInv
    <3> QED
      BY <3>4, <3>5, <3>6 DEF NextInfo, OooInfo
  <2> QED
    BY <2>1, <2>2, <2>3
<1> QED
  BY <1>3, <1>4, SerialStep

(***************************************************************************)
(* When the handlers of a flow do not overlap, packets that leave in order *)
(* and packets of other flows never change the compensation of a flow.     *)
(***************************************************************************)
THEOREM CompensationSticks == SerialSpec => CompensationIsSticky
<1>1. SInv /\ [SerialNext]_vars => SInv'
  BY SerialStep
<1>2. SInv /\ [SerialNext]_vars =>
        [\A f \in Flows :
           Tracked(f) /\ Entry(f)'.cvalue # Entry(f).cvalue =>
             /\ Entry(f)'.ooo = Entry(f).last
             /\ Entry(f)'.last.edt < Entry(f).last.edt]_vars
  BY StickyStep
<1> QED
  BY <1>1, <1>2, InitSInv, PTL DEF SerialSpec, CompensationIsSticky

-----------------------------------------------------------------------------
(***************************************************************************)
(* CompensationNeedsInversion is about the entries, but the marker may     *)
(* read an element that has left the map: whatever any element holds, it   *)
(* asks for compensation only after an inversion.                          *)
(***************************************************************************)
SomeLeftOutOfOrder == \E f \in Flows : LeftOutOfOrder(f)

ElementsNeedInversion ==
  \A s \in Slots : mem[s].cvalue # 0 => SomeLeftOutOfOrder

CInv == SInv /\ CompensationNeedsInversion /\ ElementsNeedInversion

LEMMA HistoryGrows ==
  ASSUME SInv, SerialNext, NEW f \in Flows
  PROVE  dequeued[f] \subseteq dequeued'[f]
BY DEF SerialNext, Next, Dequeue, Lookup, Read, Insert, Update, LookupAck,
       MarkAck, SInv, IInv, TypeOK

LEMMA InversionsStay ==
  ASSUME SInv, SerialNext
  PROVE  /\ \A f \in Flows : LeftOutOfOrder(f) => LeftOutOfOrder(f)'
         /\ SomeLeftOutOfOrder => SomeLeftOutOfOrder'
BY HistoryGrows DEF LeftOutOfOrder, SomeLeftOutOfOrder

LEMMA NoMarkWithoutCompensation == Adaptive => MarkOf(0) = 0
<1>1. Adaptive /\ 0 >= Cap * Unit => Cap = 0
  BY IhreoAssumption
<1>2. (0 \div Unit) % Byte = 0
  BY IhreoAssumption
<1> QED
  BY <1>1, <1>2 DEF MarkOf

LEMMA InitCInv == Init => CInv
<1> SUFFICES ASSUME Init PROVE CInv
  OBVIOUS
<1>1. CompensationNeedsInversion
  BY DEF Init, CompensationNeedsInversion, Tracked
<1>2. ElementsNeedInversion
  BY DEF Init, ElementsNeedInversion, FirstInfo
<1> QED
  BY <1>1, <1>2, InitSInv DEF CInv

(* A step that leaves the map and the marks alone. *)
LEMMA CInvFrame ==
  ASSUME CInv, SerialNext, SInv', UNCHANGED <<slot, mem, mark>>
  PROVE  CInv'
BY InversionsStay
   DEF CInv, CompensationNeedsInversion, ElementsNeedInversion,
       SomeLeftOutOfOrder, Tracked, Entry

(***************************************************************************)
(* A step that stores v for flow f in an element that is not in the map,   *)
(* where a compensation in v is justified by the packets of f.             *)
(***************************************************************************)
LEMMA CInvStore ==
  ASSUME CInv, SerialNext, SInv', NEW f \in Flows, NEW s \in Slots, NEW v,
         \A g \in Flows : slot[g] # s,
         slot' = [slot EXCEPT ![f] = s], mem' = [mem EXCEPT ![s] = v],
         mark' = mark, v.cvalue # 0 => LeftOutOfOrder(f)'
  PROVE  CInv'
<1>1. /\ slot \in [Flows -> Slots \union {None}] /\ mem \in [Slots -> OffsetInfo]
      /\ CompensationNeedsInversion /\ ElementsNeedInversion
  BY DEF CInv, SInv, IInv, TypeOK
<1>2. ASSUME NEW g \in Flows, Tracked(g)', Entry(g)'.cvalue # 0
      PROVE  LeftOutOfOrder(g)'
  <2>1. CASE g = f
    <3>1. Entry(g)' = v
      BY <1>1, <2>1 DEF Entry
    <3> QED
      BY <1>2, <2>1, <3>1
  <2>2. CASE g # f
    <3>1. slot'[g] = slot[g] /\ mem'[slot[g]] = mem[slot[g]] /\ Tracked(g)
      BY <1>1, <1>2, <2>2 DEF Tracked
    <3>2. LeftOutOfOrder(g)
      BY <1>1, <1>2, <3>1 DEF CompensationNeedsInversion, Entry
    <3> QED
      BY <3>2, InversionsStay DEF CInv
  <2> QED
    BY <2>1, <2>2
<1>3. Adaptive => \A g \in Flows :
                    mark'[g] \notin {None, 0} => SomeLeftOutOfOrder'
  BY <1>1, InversionsStay DEF CompensationNeedsInversion, SomeLeftOutOfOrder, CInv
<1>4. CompensationNeedsInversion'
  BY <1>2, <1>3 DEF CompensationNeedsInversion, SomeLeftOutOfOrder
<1>5. ElementsNeedInversion'
  <2> SUFFICES ASSUME NEW t \in Slots, mem'[t].cvalue # 0
               PROVE  SomeLeftOutOfOrder'
    BY DEF ElementsNeedInversion
  <2>1. CASE t = s
    BY <1>1, <2>1 DEF SomeLeftOutOfOrder
  <2>2. CASE t # s
    BY <1>1, <2>2, InversionsStay DEF ElementsNeedInversion, CInv
  <2> QED
    BY <2>1, <2>2
<1> QED
  BY <1>4, <1>5 DEF CInv

LEMMA InsertCInv ==
  ASSUME CInv, SerialNext, SInv', NEW c \in CPUs, Insert(c)
  PROVE  CInv'
<1>1. mark' = mark /\ handler[c].at = "insert"
  BY DEF Insert, Move
<1> PICK f \in Flows, p \in Pair : f = handler[c].flow /\ p = handler[c].pkt
  BY <1>1, HandlerFields DEF CInv, SInv, IInv, TypeOK
<1>2. CASE UNCHANGED <<slot, mem>>
  BY <1>1, <1>2, CInvFrame
<1>3. ASSUME NEW s \in Free,
             slot' = [slot EXCEPT ![f] = s],
             mem' = [mem EXCEPT ![s] = FirstInfo(p)]
      PROVE  CInv'
  <2>1. s \in Slots /\ \A g \in Flows : slot[g] # s
    BY DEF Free
  <2>2. FirstInfo(p).cvalue = 0
    BY DEF FirstInfo
  <2> QED
    BY <1>1, <1>3, <2>1, <2>2, CInvStore
<1> QED
  BY <1>2, <1>3 DEF Insert

LEMMA UpdateCInv ==
  ASSUME CInv, SerialNext, SInv', NEW c \in CPUs, Update(c)
  PROVE  CInv'
<1>1. mark' = mark /\ handler[c].at = "update" /\ SerialHandler(c) /\ SInv
  BY DEF Update, CInv, SInv
<1> PICK f \in Flows, p \in Pair : f = handler[c].flow /\ p = handler[c].pkt
  BY <1>1, HandlerFields DEF CInv, SInv, IInv, TypeOK
<1> DEFINE n == NextInfo(Entry(f), p)
<1>2. /\ Tracked(f) /\ p \in dequeued[f] /\ handler[c].ninfo = n
      /\ p.dequeued > Entry(f).last.dequeued
  BY <1>1 DEF Tracking, SerialHandler, SInv, IInv, HandlersAreSound
<1>3. Entry(f) \in OffsetInfo /\ Entry(f).last \in dequeued[f]
      /\ Entry(f).last \in Pair
  BY <1>1, <1>2, EntryType DEF SInv, IInv, LastPairIsOneDequeue
<1>4. n.cvalue # 0 => LeftOutOfOrder(f)
  <2>1. CASE IsInversion(Entry(f), p)
    <3>1. Entry(f).last.dequeued < p.dequeued /\ Entry(f).last.edt > p.edt
      BY <1>2, <1>3, <2>1, PairIsNat DEF IsInversion
    <3> QED
      BY <1>2, <1>3, <3>1 DEF LeftOutOfOrder
  <2>2. CASE ~ IsInversion(Entry(f), p)
    <3>1. n.cvalue = Entry(f).cvalue
      BY <1>3, <2>2 DEF NextInfo, InOrderInfo, OffsetInfo
    <3> QED
      BY <1>2, <3>1 DEF CInv, CompensationNeedsInversion
  <2> QED
    BY <2>1, <2>2
<1>5. /\ spare[c] \in Slots /\ \A g \in Flows : slot[g] # spare[c]
  BY <1>1 DEF SInv, IInv, TypeOK, ElementsAreApart
<1>6. /\ slot' = [slot EXCEPT ![f] = spare[c]]
      /\ mem' = [mem EXCEPT ![spare[c]] = n]
  BY <1>2 DEF Update
<1>7. n.cvalue # 0 => LeftOutOfOrder(f)'
  BY <1>1, <1>4, InversionsStay
<1> HIDE DEF n
<1> QED
  BY <1>1, <1>5, <1>6, <1>7, CInvStore

LEMMA MarkAckCInv ==
  ASSUME CInv, SerialNext, SInv', NEW c \in CPUs, MarkAck(c)
  PROVE  CInv'
<1>1. /\ handler[c].at = "mark" /\ UNCHANGED <<slot, mem>>
      /\ handler[c].ptr \in Slots /\ handler[c].flow \in Flows
  BY HandlerFields DEF MarkAck, Move, map, CInv, SInv, IInv, TypeOK
<1>2. mark' = [mark EXCEPT ![handler[c].flow] = MarkOf(mem[handler[c].ptr].cvalue)]
  BY DEF MarkAck
<1>3. ASSUME Adaptive, NEW f \in Flows, mark'[f] \notin {None, 0}
      PROVE  SomeLeftOutOfOrder
  <2>1. CASE f = handler[c].flow
    <3>1. mark'[f] = MarkOf(mem[handler[c].ptr].cvalue)
      BY <1>1, <1>2, <2>1 DEF CInv, SInv, IInv, TypeOK
    <3>2. mem[handler[c].ptr].cvalue # 0
      BY <1>3, <3>1, NoMarkWithoutCompensation
    <3> QED
      BY <1>1, <3>2 DEF CInv, ElementsNeedInversion
  <2>2. CASE f # handler[c].flow
    <3>1. mark'[f] = mark[f]
      BY <1>1, <1>2, <2>2 DEF CInv, SInv, IInv, TypeOK
    <3> QED
      BY <1>3, <3>1 DEF CInv, CompensationNeedsInversion, SomeLeftOutOfOrder
  <2> QED
    BY <2>1, <2>2
<1>4. CompensationNeedsInversion'
  <2>1. \A f \in Flows : Tracked(f)' /\ Entry(f)'.cvalue # 0 => LeftOutOfOrder(f)'
    BY <1>1, InversionsStay DEF CInv, CompensationNeedsInversion, Tracked, Entry
  <2>2. Adaptive => \A f \in Flows :
                      mark'[f] \notin {None, 0} => SomeLeftOutOfOrder'
    BY <1>3, InversionsStay DEF CInv
  <2> QED
    BY <2>1, <2>2 DEF CompensationNeedsInversion, SomeLeftOutOfOrder
<1>5. ElementsNeedInversion'
  BY <1>1, InversionsStay DEF CInv, ElementsNeedInversion
<1> QED
  BY <1>4, <1>5 DEF CInv

LEMMA NextCInv == CInv /\ [SerialNext]_vars => CInv'
<1> SUFFICES ASSUME CInv, [SerialNext]_vars PROVE CInv'
  OBVIOUS
<1>1. SInv'
  BY SerialStep DEF CInv
<1>2. CASE UNCHANGED vars
  BY <1>1, <1>2
     DEF CInv, CompensationNeedsInversion, ElementsNeedInversion, LeftOutOfOrder,
         SomeLeftOutOfOrder, Tracked, Entry, vars, map
<1>3. CASE SerialNext
  <2> PICK c \in CPUs :
        \/ \E f \in Flows, port \in Ports, p \in Pair : Dequeue(c, f, port, p)
        \/ Lookup(c)
        \/ Read(c)
        \/ Insert(c)
        \/ Update(c)
        \/ \E f \in Flows, a \in Ack : LookupAck(c, f, a)
        \/ MarkAck(c)
    BY <1>3 DEF SerialNext, Next
  <2>1. CASE \/ \E f \in Flows, port \in Ports, p \in Pair : Dequeue(c, f, port, p)
             \/ Lookup(c)
             \/ Read(c)
             \/ \E f \in Flows, a \in Ack : LookupAck(c, f, a)
    <3>1. UNCHANGED <<slot, mem, mark>>
      BY <2>1 DEF Dequeue, Lookup, Read, LookupAck, map
    <3> QED
      BY <1>1, <1>3, <3>1, CInvFrame
  <2> QED
    BY <1>1, <1>3, <2>1, InsertCInv, UpdateCInv, MarkAckCInv
<1> QED
  BY <1>2, <1>3

(***************************************************************************)
(* When the handlers of a flow do not overlap, no entry asks for           *)
(* compensation before packets of its own flow left out of order, and no   *)
(* ACK is marked with one before those of some flow did.                   *)
(***************************************************************************)
THEOREM CompensationJustified == SerialSpec => []CompensationNeedsInversion
<1>1. CInv => CompensationNeedsInversion
  BY DEF CInv
<1> QED
  BY <1>1, InitCInv, NextCInv, PTL DEF SerialSpec
=============================================================================
