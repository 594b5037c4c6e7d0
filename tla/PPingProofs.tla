----------------------------- MODULE PPingProofs ----------------------------
(***************************************************************************)
(* Proofs about PPing, for all identifiers, elements, lifetimes and        *)
(* protocols: its types, however the programs overlap, and what holds of   *)
(* pointers when they do not.  HistoryProofs and CountProofs build on it.  *)
(***************************************************************************)
EXTENDS PPing, TLAPS

-----------------------------------------------------------------------------
(* The parts that the states are made of. *)

LEMMA DirsArePaired ==
  ASSUME NEW d \in Dirs
  PROVE  /\ Other(d) \in Dirs /\ Other(d) # d /\ Other(Other(d)) = d
         /\ \A x \in Dirs : x = d \/ x = Other(d)
<1>1. PICK a, b \in Dirs : a # b /\ Dirs = {a, b}
  BY PPingAssumption
<1>2. Other(a) = b
  <2>1. \E o \in Dirs : o # a
    BY <1>1
  <2> QED
    BY <1>1, <2>1 DEF Other
<1>3. Other(b) = a
  <2>1. \E o \in Dirs : o # b
    BY <1>1
  <2> QED
    BY <1>1, <2>1 DEF Other
<1> QED
  BY <1>1, <1>2, <1>3

LEMMA OldIsNat == Old \in Nat /\ 0 \in Age /\ Old \in Age
BY PPingAssumption DEF Age

LEMMA OlderType ==
  ASSUME NEW t \in Age \union {None}
  PROVE  /\ Older(t) \in Age \union {None}
         /\ t \in Age => Older(t) \in Age
         /\ t = None <=> Older(t) = None
BY PPingAssumption DEF Older, Age

LEMMA PacketFields ==
  ASSUME NEW p \in Packets
  PROVE  /\ p.pid \in OptionalId /\ p.reply_pid \in OptionalId
         /\ Proto = "icmp" => p.event_type = "none"
BY PPingAssumption DEF Packets, TcpPackets, VxlanPackets, IcmpPackets

(* A handler at work. *)
Busy ==
  [at : Labels, dir : Dirs, pkt : Packets, time : Age,
   elem : Elements \union {None}]

LEMMA HandlerIsBusy ==
  ASSUME NEW h \in Handler, h # Idle
  PROVE  h \in Busy
BY DEF Handler, Busy, Idle

LEMMA IdleIsNoLabel ==
  /\ Idle \in Handler /\ Busy \subseteq Handler
  /\ \A l \in Labels : l # "idle"
BY DEF Idle, Handler, Busy, Labels

LEMMA BusyFields ==
  ASSUME NEW h \in Busy
  PROVE  /\ h.pkt.pid \in OptionalId /\ h.pkt.reply_pid \in OptionalId
         /\ h.dir \in Dirs /\ h.time \in Age
         /\ h.elem \in Elements \union {None}
         /\ \A l \in Labels : [h EXCEPT !.at = l] \in Handler
         /\ \A l \in Labels, e \in Elements \union {None} :
              [h EXCEPT !.at = l, !.elem = e] \in Handler
         /\ \A t \in Age : [h EXCEPT !.time = t] \in Handler
BY PacketFields DEF Busy, Handler

LEMMA EmptyStateType == EmptyState \in FlowState
BY PPingAssumption, OldIsNat
   DEF EmptyState, FlowState, ConnectionStates, OptionalId

LEMMA CounterType ==
  ASSUME NEW s \in FlowState
  PROVE  Incremented(s) \in FlowState /\ Decremented(s) \in FlowState
<1>1. s.outstanding_timestamps \in Nat /\ CtrMod \in Nat \ {0}
  BY PPingAssumption DEF FlowState
<1>2. /\ (s.outstanding_timestamps + 1) % CtrMod \in 0 .. CtrMod - 1
      /\ (s.outstanding_timestamps - 1) % CtrMod \in 0 .. CtrMod - 1
  BY <1>1
<1> QED
  BY <1>2 DEF Incremented, Decremented, FlowState

LEMMA ForwardType ==
  ASSUME NEW s \in FlowState, NEW p \in Packets, NEW t \in Age
  PROVE  /\ init_flowstate(s, p, t) \in FlowState
         /\ update_forward_flowstate(s, p, t) \in FlowState
         /\ Limited(s, p) \in FlowState
         /\ [s EXCEPT !.last_id = p.pid, !.has_been_timestamped = TRUE,
                      !.last_timestamp = t] \in FlowState
BY PacketFields
   DEF init_flowstate, update_forward_flowstate, Limited, FlowState,
       ConnectionStates

-----------------------------------------------------------------------------
(* How the steps of a handler change the state. *)

LEMMA AtIsBusy ==
  ASSUME TypeOK, NEW c \in CPUs, NEW l \in Labels, At(c, l)
  PROVE  handler[c] \in Busy
<1>1. handler[c] # Idle
  BY IdleIsNoLabel DEF At, Idle
<1> QED
  BY <1>1, HandlerIsBusy DEF TypeOK

(* The directions of the packet that a handler works on. *)
LEMMA HandlerDirs ==
  ASSUME NEW c \in CPUs, handler[c] \in Busy
  PROVE  /\ Fw(c) \in Dirs /\ Rev(c) \in Dirs /\ Rev(c) # Fw(c)
         /\ Other(Fw(c)) = Rev(c) /\ Other(Rev(c)) = Fw(c)
         /\ \A x \in Dirs : x = Fw(c) \/ x = Rev(c)
<1>1. handler[c].dir \in Dirs
  BY DEF Busy
<1> QED
  BY <1>1, DirsArePaired DEF Fw, Rev

(* A step of c's handler to another label, or to its end. *)
LEMMA MoveType ==
  ASSUME TypeOK, NEW c \in CPUs, NEW l \in Labels, NEW m \in Labels,
         At(c, l), Goto(c, m) \/ Leave(c)
  PROVE  handler' \in [CPUs -> Handler]
<1>1. handler \in [CPUs -> Handler] /\ handler[c] \in Busy
  BY AtIsBusy DEF TypeOK
<1>2. CASE Goto(c, m)
  <2>1. [handler[c] EXCEPT !.at = m] \in Handler
    BY <1>1, BusyFields
  <2>2. handler' = [handler EXCEPT ![c] = [handler[c] EXCEPT !.at = m]]
    BY <1>2 DEF Goto
  <2> QED
    BY <1>1, <2>1, <2>2
<1>3. CASE Leave(c)
  BY <1>1, <1>3, IdleIsNoLabel DEF Leave
<1> QED
  BY <1>2, <1>3

(* The flow has been found: the handler goes on with its element. *)
LEMMA FoundType ==
  ASSUME TypeOK, NEW c \in CPUs, NEW l \in Labels, At(c, l),
         handler' = [handler EXCEPT ![c].at = "forward", ![c].elem = current]
  PROVE  handler' \in [CPUs -> Handler]
<1>1. handler \in [CPUs -> Handler] /\ handler[c] \in Busy
      /\ current \in Elements \union {None}
  BY AtIsBusy DEF TypeOK
<1>2. "forward" \in Labels
  BY DEF Labels
<1>3. [handler[c] EXCEPT !.at = "forward", !.elem = current] \in Handler
  BY <1>1, <1>2, BusyFields
<1>4. handler' = [handler EXCEPT ![c] =
                    [handler[c] EXCEPT !.at = "forward", !.elem = current]]
  BY <1>1
<1> QED
  BY <1>1, <1>3, <1>4

(* Stores through the pointer of a handler. *)
LEMMA SetStateType ==
  ASSUME TypeOK, NEW c \in CPUs, NEW x \in Dirs, NEW s, SetState(c, x, s),
         handler[c] \in Busy, handler[c].elem \in Elements => s \in FlowState
  PROVE  mem' \in [Elements -> [Dirs -> FlowState]]
<1>1. handler[c].elem \in Elements \/ handler[c].elem \notin Elements
  OBVIOUS
<1> QED
  BY <1>1 DEF SetState, TypeOK

(* Stores to the map of timestamps. *)
LEMMA TimeStampType ==
  ASSUME TypeOK, NEW x \in Dirs, NEW i, NEW t \in Age \union {None},
         packet_ts' = [packet_ts EXCEPT ![x][i] = t]
  PROVE  packet_ts' \in [Dirs -> [Ids -> Age \union {None}]]
<1>1. packet_ts[x] \in [Ids -> Age \union {None}]
  BY DEF TypeOK
<1>2. [packet_ts[x] EXCEPT ![i] = t] \in [Ids -> Age \union {None}]
  BY <1>1
<1> QED
  BY <1>2 DEF TypeOK

LEMMA StateType ==
  ASSUME TypeOK, NEW c \in CPUs, NEW x \in Dirs, handler[c].elem \in Elements
  PROVE  State(c, x) \in FlowState
BY DEF State, TypeOK

-----------------------------------------------------------------------------
(* Type correctness: the steps that find the flow. *)

LEMMA ArriveType ==
  ASSUME TypeOK, NEW c \in CPUs, NEW d \in Dirs, NEW p \in Packets,
         Arrive(c, d, p)
  PROVE  TypeOK'
<1>1. "lookup" \in Labels
  BY DEF Labels
<1>2. [at |-> "lookup", dir |-> d, pkt |-> p, time |-> 0, elem |-> None] \in Handler
  BY <1>1, OldIsNat DEF Handler
<1> QED
  BY <1>2 DEF TypeOK, Arrive

LEMMA LookupType ==
  ASSUME TypeOK, NEW c \in CPUs, lookup_or_create_dualflow_state(c)
  PROVE  TypeOK'
<1>1. {"lookup", "create"} \subseteq Labels /\ At(c, "lookup")
  BY DEF Labels, lookup_or_create_dualflow_state
<1>2. \/ handler' = [handler EXCEPT ![c].at = "forward", ![c].elem = current]
      \/ Goto(c, "create") \/ Leave(c)
  BY DEF lookup_or_create_dualflow_state
<1>3. handler' \in [CPUs -> Handler]
  BY <1>1, <1>2, FoundType, MoveType
<1> QED
  BY <1>3 DEF TypeOK, lookup_or_create_dualflow_state

LEMMA CreateType ==
  ASSUME TypeOK, NEW c \in CPUs, create_dualflow_state(c)
  PROVE  TypeOK'
<1>1. {"create", "find"} \subseteq Labels /\ At(c, "create")
  BY DEF Labels, create_dualflow_state
<1>2. handler' \in [CPUs -> Handler]
  BY <1>1, MoveType DEF create_dualflow_state
<1>3. handler[c].pkt \in Packets /\ handler[c].time \in Age
  BY <1>1, AtIsBusy DEF Busy
<1> DEFINE created == init_flowstate(EmptyState, handler[c].pkt, handler[c].time)
           new == [x \in Dirs |-> IF x = Fw(c) THEN created ELSE EmptyState]
<1>4. created \in FlowState
  BY <1>3, EmptyStateType, ForwardType
<1>5. new \in [Dirs -> FlowState]
  <2> HIDE DEF created
  <2> QED
    BY <1>4, EmptyStateType
<1>6. \/ \E e \in Elements : current' = e /\ mem' = [mem EXCEPT ![e] = new]
      \/ UNCHANGED <<current, mem>>
  BY DEF create_dualflow_state
<1>7. /\ current' \in Elements \union {None}
      /\ mem' \in [Elements -> [Dirs -> FlowState]]
  <2> HIDE DEF new
  <2> QED
    BY <1>5, <1>6 DEF TypeOK
<1> QED
  BY <1>2, <1>7 DEF TypeOK, create_dualflow_state

LEMMA FindType ==
  ASSUME TypeOK, NEW c \in CPUs, find_dualflow_state(c)
  PROVE  TypeOK'
<1>1. "find" \in Labels /\ At(c, "find")
  BY DEF Labels, find_dualflow_state
<1>2. \/ handler' = [handler EXCEPT ![c].at = "forward", ![c].elem = current]
      \/ Leave(c)
  BY DEF find_dualflow_state
<1>3. handler' \in [CPUs -> Handler]
  BY <1>1, <1>2, FoundType, MoveType
<1> QED
  BY <1>3 DEF TypeOK, find_dualflow_state

-----------------------------------------------------------------------------
(* Type correctness: the direction of the packet. *)

LEMMA PpingForwardType ==
  ASSUME TypeOK, NEW c \in CPUs, pping_forward(c)
  PROVE  TypeOK'
<1> DEFINE h == handler[c]
           s == update_forward_flowstate(State(c, Fw(c)), h.pkt, h.time)
           stamped == [s EXCEPT !.last_id = h.pkt.pid,
                                !.has_been_timestamped = TRUE,
                                !.last_timestamp = h.time]
<1>1. {"forward", "reverse", "stamp"} \subseteq Labels /\ At(c, "forward")
  BY DEF Labels, pping_forward
<1>2. h \in Busy /\ h.pkt \in Packets /\ h.time \in Age
  BY <1>1, AtIsBusy DEF Busy
<1>3. h.elem \in Elements => /\ s \in FlowState
                             /\ Limited(s, h.pkt) \in FlowState
                             /\ stamped \in FlowState
  BY <1>2, StateType, ForwardType, HandlerDirs
<1>4. SetState(c, Fw(c), s) \/ SetState(c, Fw(c), Limited(s, h.pkt))
      \/ SetState(c, Fw(c), stamped)
  BY DEF pping_forward
<1>5. mem' \in [Elements -> [Dirs -> FlowState]]
  <2> HIDE DEF s, stamped
  <2> QED
    BY <1>2, <1>3, <1>4, SetStateType, HandlerDirs
<1>6. handler' \in [CPUs -> Handler]
  BY <1>1, MoveType DEF pping_forward
<1> QED
  BY <1>5, <1>6 DEF TypeOK, pping_forward

LEMMA StampType ==
  ASSUME TypeOK, NEW c \in CPUs, pping_stamp(c)
  PROVE  TypeOK'
<1>1. {"stamp", "count", "reverse"} \subseteq Labels /\ At(c, "stamp")
  BY DEF Labels, pping_stamp
<1>2. handler' \in [CPUs -> Handler] /\ handler[c].time \in Age
  BY <1>1, MoveType, AtIsBusy DEF pping_stamp, Busy
<1>4. Fw(c) \in Dirs
  BY <1>1, AtIsBusy, HandlerDirs
<1>3. packet_ts' \in [Dirs -> [Ids -> Age \union {None}]]
  <2>1. \/ packet_ts' =
              [packet_ts EXCEPT ![Fw(c)][handler[c].pkt.pid] = handler[c].time]
        \/ packet_ts' = packet_ts
    BY DEF pping_stamp
  <2> QED
    BY <1>2, <1>4, <2>1, TimeStampType DEF TypeOK
<1> QED
  BY <1>2, <1>3 DEF TypeOK, pping_stamp

LEMMA CountType ==
  ASSUME TypeOK, NEW c \in CPUs, pping_count(c)
  PROVE  TypeOK'
<1>1. {"count", "reverse"} \subseteq Labels /\ At(c, "count")
  BY DEF Labels, pping_count
<1>2. handler[c] \in Busy /\ handler' \in [CPUs -> Handler]
  BY <1>1, AtIsBusy, MoveType DEF pping_count
<1>3. mem' \in [Elements -> [Dirs -> FlowState]]
  BY <1>2, HandlerDirs, StateType, CounterType, SetStateType DEF pping_count
<1> QED
  BY <1>2, <1>3 DEF TypeOK, pping_count

-----------------------------------------------------------------------------
(* Type correctness: the direction that the packet answers. *)

LEMMA ReverseType ==
  ASSUME TypeOK, NEW c \in CPUs,
         pping_reverse(c) \/ pping_match(c)
  PROVE  TypeOK'
<1>1. {"reverse", "open", "match", "delete", "close"} \subseteq Labels
  BY DEF Labels
<1>2. CASE pping_reverse(c)
  <2>1. At(c, "reverse") /\ (Goto(c, "open") \/ Goto(c, "match"))
    BY <1>2 DEF pping_reverse
  <2>2. handler' \in [CPUs -> Handler]
    BY <1>1, <2>1, MoveType
  <2> QED
    BY <1>2, <2>2 DEF TypeOK, pping_reverse
<1>3. CASE pping_match(c)
  <2>1. At(c, "match") /\ (Goto(c, "delete") \/ Goto(c, "close"))
    BY <1>3 DEF pping_match
  <2>2. handler' \in [CPUs -> Handler]
    BY <1>1, <2>1, MoveType
  <2> QED
    BY <1>3, <2>2 DEF TypeOK, pping_match
<1> QED
  BY <1>2, <1>3

LEMMA OpenType ==
  ASSUME TypeOK, NEW c \in CPUs, pping_open(c)
  PROVE  TypeOK'
<1>1. {"open", "match"} \subseteq Labels /\ At(c, "open")
  BY DEF Labels, pping_open
<1>2. handler[c] \in Busy /\ handler' \in [CPUs -> Handler]
  BY <1>1, AtIsBusy, MoveType DEF pping_open
<1>3. Rev(c) \in Dirs
  BY <1>2, HandlerDirs
<1>4. handler[c].elem \in Elements =>
        [State(c, Rev(c)) EXCEPT !.conn_state = "OPEN"] \in FlowState
  BY <1>3, StateType DEF FlowState, ConnectionStates
<1>5. mem' \in [Elements -> [Dirs -> FlowState]]
  BY <1>2, <1>3, <1>4, SetStateType DEF pping_open
<1> QED
  BY <1>2, <1>5 DEF TypeOK, pping_open

LEMMA DeleteType ==
  ASSUME TypeOK, NEW c \in CPUs, pping_delete(c)
  PROVE  TypeOK'
<1>1. /\ {"delete", "uncount", "report"} \subseteq Labels /\ At(c, "delete")
      /\ Goto(c, "uncount") \/ Goto(c, "report")
  BY DEF Labels, pping_delete
<1>2. handler' \in [CPUs -> Handler]
  BY <1>1, MoveType
<1>3. packet_ts' \in [Dirs -> [Ids -> Age \union {None}]]
  BY DEF TypeOK, pping_delete
<1> QED
  BY <1>2, <1>3 DEF TypeOK, pping_delete

LEMMA UncountType ==
  ASSUME TypeOK, NEW c \in CPUs, pping_uncount(c)
  PROVE  TypeOK'
<1>1. {"uncount", "report"} \subseteq Labels /\ At(c, "uncount")
  BY DEF Labels, pping_uncount
<1>2. handler[c] \in Busy /\ handler' \in [CPUs -> Handler]
  BY <1>1, AtIsBusy, MoveType DEF pping_uncount
<1>3. Rev(c) \in Dirs
  BY <1>2, HandlerDirs
<1>4. mem' \in [Elements -> [Dirs -> FlowState]]
  BY <1>2, <1>3, StateType, CounterType, SetStateType DEF pping_uncount
<1> QED
  BY <1>2, <1>4 DEF TypeOK, pping_uncount

LEMMA ReportType ==
  ASSUME TypeOK, NEW c \in CPUs, pping_report(c)
  PROVE  TypeOK'
<1>1. {"report", "close"} \subseteq Labels /\ At(c, "report")
  BY DEF Labels, pping_report
<1>2. handler[c] \in Busy /\ handler' \in [CPUs -> Handler]
  BY <1>1, AtIsBusy, MoveType DEF pping_report
<1>3. Rev(c) \in Dirs
  BY <1>2, HandlerDirs
<1>4. handler[c].elem \in Elements =>
        [State(c, Rev(c)) EXCEPT !.srtt = TRUE] \in FlowState
  BY <1>3, StateType DEF FlowState
<1>5. mem' \in [Elements -> [Dirs -> FlowState]]
  BY <1>2, <1>3, <1>4, SetStateType DEF pping_report
<1> QED
  BY <1>2, <1>5 DEF TypeOK, pping_report

LEMMA CloseType ==
  ASSUME TypeOK, NEW c \in CPUs, close_flows(c)
  PROVE  TypeOK'
<1> DEFINE h == handler[c]
           old == mem[h.elem]
           new == [x \in Dirs |-> IF x \in Closes(Fw(c), h.pkt)
                                    THEN [old[x] EXCEPT !.conn_state = "CLOSED"]
                                    ELSE old[x]]
<1>1. {"close", "drop"} \subseteq Labels /\ At(c, "close")
  BY DEF Labels, close_flows
<1>2. Goto(c, "drop") \/ Leave(c)
  BY DEF close_flows
<1>3. handler' \in [CPUs -> Handler]
  BY <1>1, <1>2, MoveType
<1>4. h.elem \in Elements => new \in [Dirs -> FlowState]
  <2> SUFFICES ASSUME h.elem \in Elements, NEW x \in Dirs
               PROVE  /\ [old[x] EXCEPT !.conn_state = "CLOSED"] \in FlowState
                      /\ old[x] \in FlowState
    OBVIOUS
  <2>1. old[x] \in FlowState
    BY DEF TypeOK
  <2> QED
    BY <2>1 DEF FlowState, ConnectionStates
<1>5. mem' = [mem EXCEPT ![h.elem] = new]
  BY DEF close_flows
<1>6. mem' \in [Elements -> [Dirs -> FlowState]]
  <2> HIDE DEF h, new
  <2> QED
    BY <1>4, <1>5 DEF TypeOK
<1>7. reported' \in [Dirs -> BOOLEAN]
  BY DEF TypeOK, close_flows
<1> QED
  BY <1>3, <1>6, <1>7 DEF TypeOK, close_flows

LEMMA DropType ==
  ASSUME TypeOK, NEW c \in CPUs, delete_flows(c)
  PROVE  TypeOK'
<1>1. "drop" \in Labels /\ At(c, "drop") /\ Leave(c)
  BY DEF Labels, delete_flows
<1>2. handler' \in [CPUs -> Handler]
  BY <1>1, MoveType
<1> QED
  BY <1>2 DEF TypeOK, delete_flows

-----------------------------------------------------------------------------
(* Type correctness: the cleaner and the clock. *)

(* The cleaner at work on a timestamp. *)
TsCleaner ==
  [at : {"tsdelete", "tsuncount"}, dir : Dirs, id : Ids,
   elem : Elements \union {None}]

LEMMA CleanerType ==
  /\ Idle \in Cleaner /\ TsCleaner \subseteq Cleaner
  /\ \A n \in [Dirs -> BOOLEAN] : [at |-> "flowdelete", notify |-> n] \in Cleaner
  /\ \A c \in Cleaner : c.at \in {"tsdelete", "tsuncount"} => c \in TsCleaner
BY DEF Cleaner, TsCleaner, Idle

LEMMA TsCleanupType ==
  ASSUME TypeOK, NEW d \in Dirs, NEW i \in Ids, tsmap_cleanup(d, i)
  PROVE  TypeOK'
<1>1. [at |-> "tsdelete", dir |-> d, id |-> i, elem |-> current] \in TsCleaner
  BY DEF TypeOK, TsCleaner
<1>2. cleaner' \in Cleaner
  BY <1>1, CleanerType DEF tsmap_cleanup
<1> QED
  BY <1>2 DEF TypeOK, tsmap_cleanup

LEMMA TsDeleteType ==
  ASSUME TypeOK, tsmap_delete
  PROVE  TypeOK'
<1>1. cleaner \in TsCleaner
  BY CleanerType DEF TypeOK, tsmap_delete
<1>2. [cleaner EXCEPT !.at = "tsuncount"] \in TsCleaner
  BY <1>1 DEF TsCleaner
<1>3. cleaner' \in Cleaner
  BY <1>2, CleanerType DEF tsmap_delete
<1>4. packet_ts' \in [Dirs -> [Ids -> Age \union {None}]]
  BY <1>1, TimeStampType DEF tsmap_delete, TsCleaner
<1> QED
  BY <1>3, <1>4 DEF TypeOK, tsmap_delete

LEMMA TsUncountType ==
  ASSUME TypeOK, tsmap_uncount
  PROVE  TypeOK'
<1>1. cleaner.dir \in Dirs
  BY CleanerType DEF TypeOK, tsmap_uncount, TsCleaner
<1> DEFINE c == cleaner
           s == Decremented(mem[c.elem][c.dir])
<1>2. mem' = [mem EXCEPT ![c.elem][c.dir] = s]
  BY DEF tsmap_uncount
<1>3. c.elem \in Elements => s \in FlowState
  BY <1>1, CounterType DEF TypeOK
<1>4. mem' \in [Elements -> [Dirs -> FlowState]]
  <2> HIDE DEF s
  <2> QED
    BY <1>1, <1>2, <1>3 DEF TypeOK
<1> QED
  BY <1>4, CleanerType DEF TypeOK, tsmap_uncount

LEMMA FlowCleanupType ==
  ASSUME TypeOK, flowmap_cleanup
  PROVE  TypeOK'
<1>1. [x \in Dirs |-> /\ should_notify_closing(mem[current][x])
                      /\ is_flow_old(mem[current][x])] \in [Dirs -> BOOLEAN]
  BY DEF should_notify_closing, is_flow_old
<1>2. cleaner' \in Cleaner
  BY <1>1, CleanerType DEF flowmap_cleanup
<1> QED
  BY <1>2 DEF TypeOK, flowmap_cleanup

LEMMA FlowDeleteType ==
  ASSUME TypeOK, flowmap_delete
  PROVE  TypeOK'
<1>1. reported' \in [Dirs -> BOOLEAN]
  BY DEF TypeOK, flowmap_delete
<1> QED
  BY <1>1, CleanerType DEF TypeOK, flowmap_delete

LEMMA TickType ==
  ASSUME TypeOK, Tick
  PROVE  TypeOK'
<1>1. \A s \in FlowState :
        [s EXCEPT !.last_timestamp = Older(@)] \in FlowState
  BY OlderType DEF FlowState
<1>2. \A e \in Elements, d \in Dirs : mem[e][d] \in FlowState
  BY DEF TypeOK
<1>3. mem' \in [Elements -> [Dirs -> FlowState]]
  BY <1>1, <1>2 DEF Tick
<1>4. packet_ts' \in [Dirs -> [Ids -> Age \union {None}]]
  BY OlderType DEF TypeOK, Tick
<1>5. ASSUME NEW c \in CPUs, handler[c] # Idle
      PROVE  [handler[c] EXCEPT !.time = Older(@)] \in Handler
  <2>1. handler[c] \in Busy
    BY <1>5, HandlerIsBusy DEF TypeOK
  <2>2. Older(handler[c].time) \in Age
    BY <2>1, OlderType DEF Busy
  <2> QED
    BY <2>1, <2>2, BusyFields
<1>6. handler' \in [CPUs -> Handler]
  BY <1>5, IdleIsNoLabel DEF Tick
<1> QED
  BY <1>3, <1>4, <1>6 DEF TypeOK, Tick

-----------------------------------------------------------------------------
LEMMA InitType == Init => TypeOK
<1> SUFFICES ASSUME Init PROVE TypeOK
  OBVIOUS
<1>1. /\ current \in Elements \union {None}
      /\ reported \in [Dirs -> BOOLEAN]
  BY DEF Init
<1>2. /\ handler \in [CPUs -> Handler]
      /\ cleaner \in Cleaner
  BY IdleIsNoLabel, CleanerType DEF Init
<1>3. mem \in [Elements -> [Dirs -> FlowState]]
  BY EmptyStateType DEF Init
<1>4. packet_ts \in [Dirs -> [Ids -> Age \union {None}]]
  BY DEF Init
<1> QED
  BY <1>1, <1>2, <1>3, <1>4 DEF TypeOK

LEMMA ProceedType ==
  ASSUME TypeOK, NEW c \in CPUs, Proceed(c)
  PROVE  TypeOK'
BY LookupType, CreateType, FindType, PpingForwardType, StampType, CountType,
   ReverseType, OpenType, DeleteType, UncountType, ReportType, CloseType,
   DropType
   DEF Proceed

LEMMA NextType == TypeOK /\ [Next]_vars => TypeOK'
<1> SUFFICES ASSUME TypeOK, [Next]_vars PROVE TypeOK'
  OBVIOUS
<1>1. CASE \E c \in CPUs, d \in Dirs, p \in Packets : Arrive(c, d, p)
  BY <1>1, ArriveType
<1>2. CASE \E c \in CPUs : Proceed(c)
  BY <1>2, ProceedType
<1>3. CASE Clean
  BY <1>3, TsCleanupType, TsDeleteType, TsUncountType, FlowCleanupType,
     FlowDeleteType DEF Clean
<1>4. CASE Tick
  BY <1>4, TickType
<1>5. CASE UNCHANGED vars
  BY <1>5 DEF vars, TypeOK
<1> QED
  BY <1>1, <1>2, <1>3, <1>4, <1>5 DEF Next, Step

(***************************************************************************)
(* Every variable of the BPF programs' maps and handlers keeps a value of  *)
(* its kind, for any number of identifiers and elements; in particular     *)
(* outstanding_timestamps stays in the range of its integer type, however  *)
(* many handlers and cleaners decrement it.                                *)
(***************************************************************************)
THEOREM FlowTypeCorrect == Spec => []TypeOK
<1> QED
  BY InitType, NextType, PTL DEF Spec

-----------------------------------------------------------------------------
(* Programs that take turns. *)

LEMMA HandlerMoves ==
  ASSUME TypeOK, NEW c \in CPUs
  PROVE  /\ \A l \in Labels : Goto(c, l) =>
              /\ \A x \in CPUs \ {c} : handler'[x] = handler[x]
              /\ handler[c] \in Busy =>
                   /\ handler'[c].at = l /\ handler'[c].pkt = handler[c].pkt
                   /\ handler'[c].dir = handler[c].dir
         /\ Leave(c) => \A x \in CPUs \ {c} : handler'[x] = handler[x]
BY DEF TypeOK, Goto, Leave, Busy

(* How a handler that is at work moves on, and ends. *)
LEMMA GotoMoves ==
  ASSUME TypeOK, NEW c \in CPUs, NEW l \in Labels, handler[c] \in Busy, Goto(c, l)
  PROVE  /\ handler'[c].at = l /\ handler'[c].pkt = handler[c].pkt
         /\ handler'[c].dir = handler[c].dir
         /\ handler'[c].time = handler[c].time
         /\ handler'[c].elem = handler[c].elem
         /\ \A x \in CPUs \ {c} : handler'[x] = handler[x]
BY DEF TypeOK, Goto, Busy

LEMMA FoundMoves ==
  ASSUME TypeOK, NEW c \in CPUs, handler[c] \in Busy,
         handler' = [handler EXCEPT ![c].at = "forward", ![c].elem = current]
  PROVE  /\ handler'[c].at = "forward" /\ handler'[c].pkt = handler[c].pkt
         /\ handler'[c].dir = handler[c].dir
         /\ handler'[c].time = handler[c].time
         /\ handler'[c].elem = current
         /\ \A x \in CPUs \ {c} : handler'[x] = handler[x]
BY DEF TypeOK, Busy

LEMMA LeaveMoves ==
  ASSUME TypeOK, NEW c \in CPUs, Leave(c)
  PROVE  handler'[c] = Idle /\ \A x \in CPUs \ {c} : handler'[x] = handler[x]
BY DEF TypeOK, Leave

LEMMA ProceedIsBusy ==
  ASSUME TypeOK, NEW c \in CPUs, Proceed(c)
  PROVE  /\ handler[c] \in Busy /\ handler[c] # Idle /\ UNCHANGED cleaner
         /\ \A x \in CPUs \ {c} : handler'[x] = handler[x]
<1>1. \E l \in Labels : At(c, l)
  BY DEF Proceed, lookup_or_create_dualflow_state, create_dualflow_state,
     find_dualflow_state, pping_forward, pping_stamp, pping_count,
     pping_reverse, pping_open, pping_match, pping_delete, pping_uncount,
     pping_report, close_flows, delete_flows, Labels
<1>2. handler[c] \in Busy /\ handler[c] # Idle
  BY <1>1, AtIsBusy, IdleIsNoLabel DEF At, Idle
<1>3. \/ \E l \in Labels : Goto(c, l)
      \/ Leave(c)
      \/ handler' = [handler EXCEPT ![c].at = "forward", ![c].elem = current]
  BY DEF Proceed, lookup_or_create_dualflow_state, create_dualflow_state,
     find_dualflow_state, pping_forward, pping_stamp, pping_count,
     pping_reverse, pping_open, pping_match, pping_delete, pping_uncount,
     pping_report, close_flows, delete_flows, Labels
<1>4. UNCHANGED cleaner
  BY DEF Proceed, lookup_or_create_dualflow_state, create_dualflow_state,
     find_dualflow_state, pping_forward, pping_stamp, pping_count,
     pping_reverse, pping_open, pping_match, pping_delete, pping_uncount,
     pping_report, close_flows, delete_flows
<1> QED
  BY <1>2, <1>3, <1>4, GotoMoves, FoundMoves, LeaveMoves

LEMMA ProceedDirs ==
  ASSUME TypeOK, NEW c \in CPUs, Proceed(c)
  PROVE  /\ Fw(c) \in Dirs /\ Rev(c) \in Dirs /\ Rev(c) # Fw(c)
         /\ Other(Fw(c)) = Rev(c) /\ Other(Rev(c)) = Fw(c)
         /\ \A x \in Dirs : x = Fw(c) \/ x = Rev(c)
BY ProceedIsBusy, HandlerDirs

(* A handler keeps the element of the flow at these labels. *)
Holding == Labels \ {"lookup", "create", "find"}

(* Where a handler goes from there. *)
LEMMA HoldingStep ==
  ASSUME TypeOK, NEW c \in CPUs, Proceed(c), handler[c].at \in Holding
  PROVE  \/ UNCHANGED current /\ \E l \in Holding : Goto(c, l)
         \/ UNCHANGED current /\ Leave(c)
         \/ delete_flows(c)
BY DEF Proceed, lookup_or_create_dualflow_state, create_dualflow_state,
   find_dualflow_state, pping_forward, pping_stamp, pping_count, pping_reverse,
   pping_open, pping_match, pping_delete, pping_uncount, pping_report,
   close_flows, Labels, Holding, At

LEMMA SearchStep ==
  ASSUME TypeOK, NEW c \in CPUs, Proceed(c), handler[c].at \notin Holding
  PROVE  \/ lookup_or_create_dualflow_state(c)
         \/ create_dualflow_state(c)
         \/ find_dualflow_state(c)
BY DEF Proceed, pping_forward, pping_stamp, pping_count, pping_reverse,
   pping_open, pping_match, pping_delete, pping_uncount, pping_report,
   close_flows, delete_flows, Labels, Holding, At

(* At most one program or iterator is at work. *)
Alone ==
  \A c \in CPUs :
    handler[c] # Idle =>
      cleaner = Idle /\ \A x \in CPUs \ {c} : handler[x] = Idle

(* What it has a pointer to is the element that the flow has. *)
PointersAreCurrent ==
  /\ \A c \in CPUs :
       /\ At(c, "create") => current = None
       /\ At(c, "find") => current # None
       /\ handler[c].at \in Holding =>
            current # None /\ handler[c].elem = current
  /\ cleaner.at \in {"tsdelete", "tsuncount"} => cleaner.elem = current
  /\ cleaner.at \in {"tsuncount", "flowdelete"} => current # None

SerialInv == TypeOK /\ Alone /\ PointersAreCurrent

LEMMA InitSerial == Init => SerialInv
<1>1. "idle" \notin Holding
  BY DEF Holding, Labels
<1> QED
  BY <1>1, InitType
     DEF Init, SerialInv, Alone, PointersAreCurrent, At, Idle

(* A step of a handler keeps it alone; what is left is its own pointer. *)
LEMMA ProceedSerial ==
  ASSUME SerialInv, NEW c \in CPUs, Proceed(c)
  PROVE  SerialInv'
<1>2. /\ handler[c] \in Busy /\ handler[c] # Idle /\ UNCHANGED cleaner
      /\ \A x \in CPUs \ {c} : handler'[x] = handler[x]
  BY ProceedIsBusy DEF SerialInv
<1>3. cleaner' = Idle /\ \A x \in CPUs \ {c} : handler'[x] = Idle
  BY <1>2 DEF SerialInv, Alone
<1>4. TypeOK'
  BY ProceedType DEF SerialInv
<1>5. Alone'
  BY <1>3 DEF Alone
<1>6. /\ "idle" \notin Holding \union {"create", "find", "lookup"}
      /\ "forward" \in Holding
      /\ Holding \subseteq Labels
      /\ Holding \intersect {"create", "find", "lookup"} = {}
      /\ {"create", "find", "lookup"} \subseteq Labels
  BY DEF Holding, Labels
<1>7. /\ handler'[c].at = "create" => current' = None
      /\ handler'[c].at = "find" => current' # None
      /\ handler'[c].at \in Holding =>
           current' # None /\ handler'[c].elem = current'
  <2>1. CASE handler[c].at \in Holding
    <3>1. CASE UNCHANGED current /\ \E l \in Holding : Goto(c, l)
      BY <1>2, <1>6, <2>1, <3>1, GotoMoves DEF SerialInv, PointersAreCurrent
    <3>2. CASE Leave(c)
      BY <1>6, <3>2, LeaveMoves DEF SerialInv, Idle
    <3> QED
      BY <2>1, <3>1, <3>2, HoldingStep DEF SerialInv, delete_flows
  <2>2. CASE lookup_or_create_dualflow_state(c)
    <3>1. CASE Leave(c)
      BY <1>6, <3>1, LeaveMoves DEF SerialInv, Idle
    <3>2. CASE current = None /\ Goto(c, "create")
      BY <1>2, <1>6, <2>2, <3>2, GotoMoves
         DEF SerialInv, lookup_or_create_dualflow_state
    <3>3. CASE /\ current # None
               /\ handler' =
                    [handler EXCEPT ![c].at = "forward", ![c].elem = current]
      BY <1>2, <1>6, <2>2, <3>3, FoundMoves
         DEF SerialInv, lookup_or_create_dualflow_state
    <3> QED
      BY <2>2, <3>1, <3>2, <3>3 DEF lookup_or_create_dualflow_state
  <2>3. CASE create_dualflow_state(c)
    <3>1. CASE Leave(c)
      BY <1>6, <3>1, LeaveMoves DEF SerialInv, Idle
    <3>2. CASE Goto(c, "find") /\ current' \in Elements
      BY <1>2, <1>6, <3>2, GotoMoves, PPingAssumption DEF SerialInv
    <3> QED
      BY <2>3, <3>1, <3>2 DEF create_dualflow_state
  <2>4. CASE find_dualflow_state(c)
    <3>1. CASE Leave(c)
      BY <1>6, <3>1, LeaveMoves DEF SerialInv, Idle
    <3>2. CASE /\ current # None
               /\ handler' =
                    [handler EXCEPT ![c].at = "forward", ![c].elem = current]
      BY <1>2, <1>6, <2>4, <3>2, FoundMoves DEF SerialInv, find_dualflow_state
    <3> QED
      BY <2>4, <3>1, <3>2 DEF find_dualflow_state
  <2> QED
    BY <2>1, <2>2, <2>3, <2>4, SearchStep DEF SerialInv
<1>8. PointersAreCurrent'
  <2>1. \A x \in CPUs \ {c} : handler'[x].at = "idle"
    BY <1>3 DEF Idle
  <2>2. cleaner'.at = "idle"
    BY <1>3 DEF Idle
  <2> QED
    BY <1>6, <1>7, <2>1, <2>2 DEF PointersAreCurrent, At
<1> QED
  BY <1>4, <1>5, <1>8 DEF SerialInv

(* A program starts only when all others have ended. *)
LEMMA ArriveSerial ==
  ASSUME Parallel = FALSE, SerialInv, NEW c \in CPUs, NEW d \in Dirs,
         NEW p \in Packets, Arrive(c, d, p)
  PROVE  SerialInv'
<1>1. /\ cleaner = Idle /\ UNCHANGED cleaner
      /\ \A x \in CPUs : handler[x] = Idle
      /\ \A x \in CPUs \ {c} : handler'[x] = Idle
      /\ handler'[c].at = "lookup"
  BY DEF Arrive, MayStart, Running, SerialInv, TypeOK
<1>2. TypeOK'
  BY ArriveType DEF SerialInv
<1>3. Alone'
  BY <1>1 DEF Alone
<1>4. /\ cleaner'.at = "idle"
      /\ \A x \in CPUs : handler'[x].at \in {"idle", "lookup"}
  BY <1>1 DEF Idle
<1>5. "idle" \notin Holding /\ "lookup" \notin Holding
  BY DEF Holding, Labels
<1>6. PointersAreCurrent'
  BY <1>4, <1>5 DEF PointersAreCurrent, At
<1> QED
  BY <1>2, <1>3, <1>6 DEF SerialInv

LEMMA CleanType == ASSUME TypeOK, Clean PROVE TypeOK'
BY TsCleanupType, TsDeleteType, TsUncountType, FlowCleanupType, FlowDeleteType
   DEF Clean

(* While the cleaner is at work, no handler is. *)
LEMMA CleanerIsAlone ==
  ASSUME Parallel = FALSE, SerialInv, Clean
  PROVE  UNCHANGED handler /\ \A x \in CPUs : handler[x] = Idle
<1>1. UNCHANGED handler
  BY DEF Clean, tsmap_cleanup, tsmap_delete, tsmap_uncount, flowmap_cleanup,
         flowmap_delete
<1>2. Idle.at = "idle"
  BY DEF Idle
<1>3. MayStart \/ cleaner.at # "idle"
  BY DEF Clean, tsmap_cleanup, tsmap_delete, tsmap_uncount, flowmap_cleanup,
         flowmap_delete
<1>4. MayStart \/ cleaner # Idle
  BY <1>2, <1>3
<1> QED
  BY <1>1, <1>4 DEF MayStart, Running, SerialInv, Alone

LEMMA CleanSerial ==
  ASSUME Parallel = FALSE, SerialInv, Clean
  PROVE  SerialInv'
<1>1. TypeOK'
  BY CleanType DEF SerialInv
<1>2. \A x \in CPUs : handler'[x] = Idle /\ handler'[x].at = "idle"
  <2>1. \A x \in CPUs : handler'[x] = Idle
    BY CleanerIsAlone
  <2> QED
    BY <2>1 DEF Idle
<1>3. Alone'
  BY <1>2 DEF Alone
<1>4. /\ cleaner'.at \in {"tsdelete", "tsuncount"} => cleaner'.elem = current'
      /\ cleaner'.at \in {"tsuncount", "flowdelete"} => current' # None
  <2>1. CASE \E d \in Dirs, i \in Ids : tsmap_cleanup(d, i)
    BY <2>1 DEF tsmap_cleanup
  <2>2. CASE tsmap_delete
    <3>1. cleaner \in TsCleaner
      BY <2>2, CleanerType DEF tsmap_delete, SerialInv, TypeOK
    <3>2. /\ [cleaner EXCEPT !.at = "tsuncount"].at = "tsuncount"
          /\ [cleaner EXCEPT !.at = "tsuncount"].elem = cleaner.elem
      BY <3>1 DEF TsCleaner
    <3>3. /\ cleaner.elem = current /\ UNCHANGED current
          /\ \/ cleaner.elem # None
                /\ cleaner' = [cleaner EXCEPT !.at = "tsuncount"]
             \/ cleaner' = Idle
      BY <2>2 DEF tsmap_delete, SerialInv, PointersAreCurrent
    <3>4. Idle.at = "idle"
      BY DEF Idle
    <3> QED
      BY <3>2, <3>3, <3>4
  <2>3. CASE tsmap_uncount \/ flowmap_delete
    <3>1. cleaner' = Idle
      BY <2>3 DEF tsmap_uncount, flowmap_delete
    <3> QED
      BY <3>1 DEF Idle
  <2>4. CASE flowmap_cleanup
    BY <2>4 DEF flowmap_cleanup
  <2> QED
    BY <2>1, <2>2, <2>3, <2>4 DEF Clean
<1>5. "idle" \notin Holding
  BY DEF Holding, Labels
<1>6. PointersAreCurrent'
  BY <1>2, <1>4, <1>5 DEF PointersAreCurrent, At
<1> QED
  BY <1>1, <1>3, <1>6 DEF SerialInv

(* Time changes nothing but ages. *)
LEMMA TickMoves ==
  ASSUME TypeOK, Tick, NEW c \in CPUs
  PROVE  /\ handler'[c].at = handler[c].at
         /\ handler[c] = Idle <=> handler'[c] = Idle
         /\ handler[c] # Idle =>
              /\ handler'[c].pkt = handler[c].pkt
              /\ handler'[c].dir = handler[c].dir
              /\ handler'[c].elem = handler[c].elem
              /\ handler'[c].time = Older(handler[c].time)
<1>1. CASE handler[c] = Idle
  BY <1>1 DEF Tick
<1>2. CASE handler[c] # Idle
  <2>1. handler[c] \in Busy
    BY <1>2, HandlerIsBusy DEF TypeOK
  <2>2. handler'[c] = [handler[c] EXCEPT !.time = Older(@)]
    BY <1>2 DEF Tick
  <2>3. /\ handler'[c].at = handler[c].at /\ handler'[c].pkt = handler[c].pkt
        /\ handler'[c].dir = handler[c].dir
        /\ handler'[c].elem = handler[c].elem
        /\ handler'[c].time = Older(handler[c].time)
    BY <2>1, <2>2 DEF Busy
  <2>4. handler'[c] # Idle
    BY <2>1, <2>3, IdleIsNoLabel DEF Busy, Idle
  <2> QED
    BY <1>2, <2>3, <2>4
<1> QED
  BY <1>1, <1>2

LEMMA TickSerial ==
  ASSUME SerialInv, Tick
  PROVE  SerialInv'
<1>1. TypeOK'
  BY TickType DEF SerialInv
<1>2. UNCHANGED <<current, cleaner>>
  BY DEF Tick
<1>3. \A c \in CPUs : handler'[c].at \in Holding => handler[c] # Idle
  BY TickMoves DEF SerialInv, Holding, Labels, Idle
<1>4. Alone'
  BY <1>2, TickMoves DEF SerialInv, Alone
<1>5. PointersAreCurrent'
  BY <1>2, <1>3, TickMoves DEF SerialInv, PointersAreCurrent, At
<1> QED
  BY <1>1, <1>4, <1>5 DEF SerialInv

LEMMA StutterSerial ==
  ASSUME SerialInv, UNCHANGED vars
  PROVE  SerialInv'
BY DEF SerialInv, TypeOK, Alone, PointersAreCurrent, At, vars

LEMMA StepSerial ==
  ASSUME Parallel = FALSE, SerialInv, Step
  PROVE  SerialInv'
BY ArriveSerial, ProceedSerial, CleanSerial DEF Step

-----------------------------------------------------------------------------
(* What a handler that is alone stores, it stores in the flow's element. *)

LEMMA StoresInFlow ==
  ASSUME TypeOK, NEW c \in CPUs, NEW x \in Dirs, NEW s,
         handler[c].elem = current, current # None, UNCHANGED current,
         SetState(c, x, s)
  PROVE  /\ mem'[current'][x] = s
         /\ mem'[current'][Other(x)] = mem[current][Other(x)]
BY DirsArePaired DEF TypeOK, SetState

LEMMA LoadsFromFlow ==
  ASSUME NEW c \in CPUs, NEW x \in Dirs, handler[c].elem = current
  PROVE  State(c, x) = mem[current][x]
BY DEF State

LEMMA FlowHasStates ==
  ASSUME TypeOK, current # None, NEW x \in Dirs
  PROVE  mem[current][x] \in FlowState
BY DEF TypeOK

LEMMA HandlerHolds ==
  ASSUME SerialInv, NEW c \in CPUs, Proceed(c), handler[c].at \in Holding
  PROVE  /\ current \in Elements /\ current # None /\ handler[c].elem = current
         /\ Fw(c) \in Dirs /\ Rev(c) \in Dirs /\ Rev(c) # Fw(c)
         /\ Other(Fw(c)) = Rev(c) /\ Other(Rev(c)) = Fw(c)
         /\ \A x \in Dirs : /\ State(c, x) = mem[current][x]
                            /\ mem[current][x] \in FlowState
<1>1. current # None /\ handler[c].elem = current /\ current \in Elements
  BY DEF SerialInv, PointersAreCurrent, TypeOK
<1> QED
  BY <1>1, FlowHasStates, ProceedIsBusy, HandlerDirs DEF State, SerialInv

LEMMA HolderStores ==
  ASSUME SerialInv, NEW c \in CPUs, Proceed(c), handler[c].at \in Holding,
         UNCHANGED current, NEW x \in Dirs, NEW s, SetState(c, x, s)
  PROVE  /\ mem'[current][x] = s
         /\ mem'[current][Other(x)] = mem[current][Other(x)]
BY HandlerHolds, StoresInFlow DEF SerialInv

LEMMA ForwardFields ==
  ASSUME NEW s \in FlowState, NEW p \in Packets, NEW t \in Age
  PROVE  LET u == update_forward_flowstate(s, p, t)
             fresh == s.conn_state = "EMPTY" /\ p.pid # None
         IN  /\ u \in FlowState
             /\ u.conn_state = IF fresh THEN "WAITOPEN" ELSE s.conn_state
             /\ u.last_timestamp = IF fresh THEN t ELSE s.last_timestamp
             /\ u.outstanding_timestamps = s.outstanding_timestamps
BY ForwardType DEF update_forward_flowstate, init_flowstate, FlowState

(* The first packet of a direction makes it wait for an answer. *)
LEMMA ForwardStep ==
  ASSUME SerialInv, NEW c \in CPUs, pping_forward(c)
  PROVE  LET s == mem[current][Fw(c)]
             n == mem'[current][Fw(c)]
             fresh == s.conn_state = "EMPTY" /\ handler[c].pkt.pid # None
         IN  /\ mem'[current][Rev(c)] = mem[current][Rev(c)]
             /\ n.conn_state = IF fresh THEN "WAITOPEN" ELSE s.conn_state
             /\ n.outstanding_timestamps = s.outstanding_timestamps
             /\ \/ n.last_timestamp = handler[c].time
                \/ ~ fresh /\ n.last_timestamp = s.last_timestamp
             /\ \/ Goto(c, "reverse")
                \/ Goto(c, "stamp") /\ handler[c].pkt.pid # None
<1> DEFINE h == handler[c]
           s == mem[current][Fw(c)]
           u == update_forward_flowstate(s, h.pkt, h.time)
           stamped == [u EXCEPT !.last_id = h.pkt.pid,
                                !.has_been_timestamped = TRUE,
                                !.last_timestamp = h.time]
<1>1. Proceed(c) /\ h.at \in Holding /\ UNCHANGED current
  BY DEF Proceed, pping_forward, At, Holding, Labels
<1>2. h \in Busy /\ h.pkt \in Packets /\ h.time \in Age
  BY <1>1, ProceedIsBusy DEF SerialInv, Busy
<1>3. State(c, Fw(c)) = s /\ s \in FlowState
  BY <1>1, HandlerHolds
<1>4. \/ SetState(c, Fw(c), u) /\ Goto(c, "reverse")
      \/ SetState(c, Fw(c), Limited(u, h.pkt)) /\ Goto(c, "reverse")
      \/ /\ SetState(c, Fw(c), stamped) /\ Goto(c, "stamp")
         /\ h.pkt.pid # None
  BY <1>3 DEF pping_forward, IsCandidate
<1>5. PICK n : /\ SetState(c, Fw(c), n)
               /\ \/ n \in {u, Limited(u, h.pkt)} /\ Goto(c, "reverse")
                  \/ n = stamped /\ Goto(c, "stamp") /\ h.pkt.pid # None
  <2> HIDE DEF u, stamped
  <2> QED
    BY <1>4
<1>6. mem'[current][Fw(c)] = n /\ mem'[current][Rev(c)] = mem[current][Rev(c)]
  BY <1>1, <1>5, HandlerHolds, HolderStores
<1> DEFINE fresh == s.conn_state = "EMPTY" /\ h.pkt.pid # None
<1>7. /\ u \in FlowState
      /\ u.conn_state = IF fresh THEN "WAITOPEN" ELSE s.conn_state
      /\ u.last_timestamp = IF fresh THEN h.time ELSE s.last_timestamp
      /\ u.outstanding_timestamps = s.outstanding_timestamps
  BY <1>2, <1>3, ForwardFields
<1>8. /\ n.conn_state = u.conn_state
      /\ n.outstanding_timestamps = u.outstanding_timestamps
      /\ n.last_timestamp \in {u.last_timestamp, h.time}
  <2> HIDE DEF u
  <2> QED
    BY <1>5, <1>7 DEF Limited, FlowState
<1> QED
  BY <1>5, <1>6, <1>7, <1>8

LEMMA CountStep ==
  ASSUME SerialInv, NEW c \in CPUs, pping_count(c)
  PROVE  /\ mem'[current][Fw(c)] = Incremented(mem[current][Fw(c)])
         /\ mem'[current][Rev(c)] = mem[current][Rev(c)]
<1>1. Proceed(c) /\ handler[c].at \in Holding /\ UNCHANGED current
  BY DEF Proceed, pping_count, At, Holding, Labels
<1> QED
  BY <1>1, HandlerHolds, HolderStores DEF pping_count

(* The steps that store in the direction that is answered. *)
LEMMA AnswerStep ==
  ASSUME SerialInv, NEW c \in CPUs, NEW s,
         \/ pping_open(c)
              /\ s = [mem[current][Rev(c)] EXCEPT !.conn_state = "OPEN"]
         \/ pping_uncount(c) /\ s = Decremented(mem[current][Rev(c)])
         \/ pping_report(c)
              /\ s = [mem[current][Rev(c)] EXCEPT !.srtt = TRUE]
  PROVE  /\ mem'[current][Rev(c)] = s
         /\ mem'[current][Fw(c)] = mem[current][Fw(c)]
<1>1. Proceed(c) /\ handler[c].at \in Holding /\ UNCHANGED current
  BY DEF Proceed, pping_open, pping_uncount, pping_report, At, Holding, Labels
<1>2. Rev(c) \in Dirs /\ Other(Rev(c)) = Fw(c)
  BY <1>1, HandlerHolds
<1>3. SetState(c, Rev(c), s)
  BY <1>1, <1>2, HandlerHolds DEF pping_open, pping_uncount, pping_report
<1> QED
  BY <1>1, <1>2, <1>3, HolderStores

LEMMA CloseStep ==
  ASSUME SerialInv, NEW c \in CPUs, close_flows(c)
  PROVE  \A x \in Dirs :
           mem'[current][x] =
             IF x \in Closes(Fw(c), handler[c].pkt)
               THEN [mem[current][x] EXCEPT !.conn_state = "CLOSED"]
               ELSE mem[current][x]
<1>1. Proceed(c) /\ handler[c].at \in Holding
  BY DEF Proceed, close_flows, At, Holding, Labels
<1>2. current \in Elements /\ handler[c].elem = current
  BY <1>1, HandlerHolds
<1> QED
  BY <1>2 DEF close_flows, SerialInv, TypeOK

(* The state of a flow that has just been created. *)
LEMMA CreateStep ==
  ASSUME SerialInv, NEW c \in CPUs, create_dualflow_state(c), current' # current
  PROVE  /\ current = None /\ current' # None /\ Goto(c, "find")
         /\ mem'[current'][Fw(c)] =
              init_flowstate(EmptyState, handler[c].pkt, handler[c].time)
         /\ mem'[current'][Rev(c)] = EmptyState
<1>1. Fw(c) \in Dirs /\ Rev(c) \in Dirs /\ Rev(c) # Fw(c)
  BY ProceedIsBusy, HandlerDirs DEF SerialInv, Proceed
<1>2. current = None /\ current' \in Elements /\ Goto(c, "find")
      /\ mem' = [mem EXCEPT ![current'] = [x \in Dirs |->
           IF x = Fw(c) THEN init_flowstate(EmptyState, handler[c].pkt, handler[c].time)
                    ELSE EmptyState]]
  BY DEF create_dualflow_state
<1>3. mem \in [Elements -> [Dirs -> FlowState]] /\ None \notin Elements
  BY PPingAssumption DEF SerialInv, TypeOK
<1> QED
  BY <1>1, <1>2, <1>3

(* Only these fields of a state change when a counter or an RTT does. *)
LEMMA SmallStores ==
  ASSUME NEW s \in FlowState
  PROVE  /\ Incremented(s).conn_state = s.conn_state
         /\ Incremented(s).last_timestamp = s.last_timestamp
         /\ Incremented(s).last_id = s.last_id
         /\ Decremented(s).conn_state = s.conn_state
         /\ Decremented(s).last_timestamp = s.last_timestamp
         /\ Decremented(s).last_id = s.last_id
         /\ \A b \in BOOLEAN :
              /\ [s EXCEPT !.srtt = b].conn_state = s.conn_state
              /\ [s EXCEPT !.srtt = b].last_timestamp = s.last_timestamp
              /\ [s EXCEPT !.srtt = b].last_id = s.last_id
              /\ [s EXCEPT !.srtt = b].outstanding_timestamps
                   = s.outstanding_timestamps
         /\ \A c \in ConnectionStates :
              /\ [s EXCEPT !.conn_state = c].conn_state = c
              /\ [s EXCEPT !.conn_state = c].last_timestamp = s.last_timestamp
              /\ [s EXCEPT !.conn_state = c].last_id = s.last_id
              /\ [s EXCEPT !.conn_state = c].outstanding_timestamps
                   = s.outstanding_timestamps
         /\ \A t \in Age :
              /\ [s EXCEPT !.last_timestamp = t].conn_state = s.conn_state
              /\ [s EXCEPT !.last_timestamp = t].last_timestamp = t
              /\ [s EXCEPT !.last_timestamp = t].last_id = s.last_id
              /\ [s EXCEPT !.last_timestamp = t].outstanding_timestamps
                   = s.outstanding_timestamps
BY DEF Incremented, Decremented, FlowState

(* What the cleaner and the clock store. *)
LEMMA TsUncountStep ==
  ASSUME SerialInv, tsmap_uncount
  PROVE  /\ cleaner.dir \in Dirs /\ current # None
         /\ mem'[current][cleaner.dir] = Decremented(mem[current][cleaner.dir])
         /\ mem'[current][Other(cleaner.dir)] = mem[current][Other(cleaner.dir)]
<1>1. cleaner.dir \in Dirs
  BY CleanerType DEF SerialInv, TypeOK, tsmap_uncount, TsCleaner
<1>2. current \in Elements /\ cleaner.elem = current /\ current # None
  BY DEF SerialInv, PointersAreCurrent, TypeOK, tsmap_uncount
<1>3. mem' = [mem EXCEPT ![current][cleaner.dir] =
                           Decremented(mem[current][cleaner.dir])]
  BY <1>2 DEF tsmap_uncount
<1> QED
  BY <1>1, <1>2, <1>3, DirsArePaired DEF SerialInv, TypeOK

LEMMA TickStep ==
  ASSUME SerialInv, Tick, current # None, NEW x \in Dirs
  PROVE  /\ mem'[current][x].conn_state = mem[current][x].conn_state
         /\ mem'[current][x].outstanding_timestamps
              = mem[current][x].outstanding_timestamps
         /\ mem'[current][x].last_id = mem[current][x].last_id
         /\ mem[current][x].conn_state # "EMPTY" =>
              mem'[current][x].last_timestamp = Older(mem[current][x].last_timestamp)
<1>1. current \in Elements /\ mem[current][x] \in FlowState
  BY FlowHasStates DEF SerialInv, TypeOK
<1>2. mem'[current][x] =
        IF mem[current][x].conn_state = "EMPTY" THEN mem[current][x]
        ELSE [mem[current][x] EXCEPT !.last_timestamp = Older(@)]
  BY <1>1 DEF Tick
<1>3. Older(mem[current][x].last_timestamp) \in Age
  BY <1>1, OlderType DEF FlowState
<1> QED
  BY <1>1, <1>2, <1>3, SmallStores

(* Where the flow stays, it keeps its element. *)
LEMMA FlowStays ==
  ASSUME SerialInv, NEW c \in CPUs, Proceed(c), current # None, current' # None
  PROVE  UNCHANGED current
BY PPingAssumption DEF Proceed, lookup_or_create_dualflow_state,
   create_dualflow_state, find_dualflow_state, pping_forward, pping_stamp,
   pping_count, pping_reverse, pping_open, pping_match, pping_delete,
   pping_uncount, pping_report, close_flows, delete_flows

(* The labels at which identifiers are needed or counts are pending. *)
LEMMA CameFrom ==
  ASSUME TypeOK, NEW c \in CPUs, Proceed(c)
  PROVE  /\ At(c, "stamp")' => pping_forward(c) /\ handler[c].pkt.pid # None
         /\ At(c, "delete")' =>
              pping_match(c) /\ handler[c].pkt.reply_pid # None
         /\ At(c, "count")' => pping_stamp(c) /\ Goto(c, "count")
         /\ At(c, "uncount")' => pping_delete(c) /\ Goto(c, "uncount")
         /\ At(c, "open")' => pping_reverse(c) /\ Goto(c, "open")
         /\ handler[c] \in Busy
<1>1. handler[c] \in Busy
  BY ProceedIsBusy
<1>2. Idle.at = "idle"
  BY DEF Idle
<1>3. ~ Leave(c) \/ At(c, "idle")'
  BY <1>2, LeaveMoves DEF At
<1>4. \A l \in Labels : Goto(c, l) => At(c, l)'
  BY <1>1, GotoMoves DEF At
<1>5. \/ At(c, "forward")'
      \/ handler' # [handler EXCEPT ![c].at = "forward", ![c].elem = current]
  BY <1>1, FoundMoves DEF At
<1>6. At(c, "stamp")' => pping_forward(c) /\ handler[c].pkt.pid # None
  BY <1>3, <1>4, <1>5 DEF At, Proceed, IsCandidate, pping_forward,
     lookup_or_create_dualflow_state, create_dualflow_state,
     find_dualflow_state, pping_stamp, pping_count, pping_reverse, pping_open,
     pping_match, pping_delete, pping_uncount, pping_report, close_flows,
     delete_flows, Labels
<1>7. At(c, "delete")' => pping_match(c) /\ handler[c].pkt.reply_pid # None
  BY <1>3, <1>4, <1>5 DEF At, Proceed, HasTimestamp,
     lookup_or_create_dualflow_state, create_dualflow_state,
     find_dualflow_state, pping_forward, pping_stamp, pping_count,
     pping_reverse, pping_open, pping_match, pping_delete, pping_uncount,
     pping_report, close_flows, delete_flows, Labels
<1>8. At(c, "count")' => pping_stamp(c) /\ Goto(c, "count")
  BY <1>3, <1>4, <1>5 DEF At, Proceed,
     lookup_or_create_dualflow_state, create_dualflow_state,
     find_dualflow_state, pping_forward, pping_stamp, pping_count,
     pping_reverse, pping_open, pping_match, pping_delete, pping_uncount,
     pping_report, close_flows, delete_flows, Labels
<1>9. At(c, "uncount")' => pping_delete(c) /\ Goto(c, "uncount")
  BY <1>3, <1>4, <1>5 DEF At, Proceed,
     lookup_or_create_dualflow_state, create_dualflow_state,
     find_dualflow_state, pping_forward, pping_stamp, pping_count,
     pping_reverse, pping_open, pping_match, pping_delete, pping_uncount,
     pping_report, close_flows, delete_flows, Labels
<1>10. At(c, "open")' => pping_reverse(c) /\ Goto(c, "open")
  BY <1>3, <1>4, <1>5 DEF At, Proceed,
     lookup_or_create_dualflow_state, create_dualflow_state,
     find_dualflow_state, pping_forward, pping_stamp, pping_count,
     pping_reverse, pping_open, pping_match, pping_delete, pping_uncount,
     pping_report, close_flows, delete_flows, Labels
<1> QED
  BY <1>1, <1>6, <1>7, <1>8, <1>9, <1>10

LEMMA CameByGoto ==
  ASSUME SerialInv, NEW c \in CPUs, Proceed(c)
  PROVE  /\ At(c, "stamp")' => pping_forward(c) /\ handler[c].pkt.pid # None
         /\ At(c, "delete")' =>
              pping_match(c) /\ handler[c].pkt.reply_pid # None
         /\ At(c, "count")' => pping_stamp(c) /\ Goto(c, "count")
         /\ At(c, "uncount")' => pping_delete(c) /\ Goto(c, "uncount")
         /\ At(c, "open")' => pping_reverse(c) /\ Goto(c, "open")
         /\ handler[c] \in Busy
BY CameFrom DEF SerialInv

-----------------------------------------------------------------------------
(* Who opens a direction. *)

Waits(x) == mem[current][x].conn_state = "WAITOPEN"

(* Who is about to open a direction has seen it wait. *)
AnswersAreAwaited == \A c \in CPUs : At(c, "open") => Waits(Rev(c))

LEMMA ProceedAwaits ==
  ASSUME SerialInv, NEW c \in CPUs, Proceed(c)
  PROVE  AnswersAreAwaited'
<1>1. /\ Rev(c) \in Dirs /\ handler[c] \in Busy /\ Idle.at = "idle"
      /\ \A x \in CPUs \ {c} : handler'[x] = Idle
  BY ProceedIsBusy, HandlerDirs DEF SerialInv, Alone, Idle
<1>2. ASSUME At(c, "open")'
      PROVE  Waits(Rev(c))'
  <2>1. pping_reverse(c) /\ Goto(c, "open") /\ handler[c] \in Busy
    BY <1>2, CameByGoto
  <2>2. ~ Goto(c, "match")
    <3>1. handler'[c].at = "open" /\ "match" \in Labels
      BY <1>2 DEF At, Labels
    <3> QED
      BY <2>1, <3>1, GotoMoves DEF SerialInv
  <2>3. State(c, Rev(c)).conn_state = "WAITOPEN" /\ UNCHANGED <<current, mem>>
    BY <2>1, <2>2 DEF pping_reverse
  <2>4. handler[c].at \in Holding
    BY <2>1 DEF pping_reverse, At, Holding, Labels
  <2>5. Rev(c)' = Rev(c)
    BY <2>1, GotoMoves DEF SerialInv, Rev, Labels
  <2> QED
    BY <1>1, <2>3, <2>4, <2>5, HandlerHolds DEF Waits
<1> QED
  BY <1>1, <1>2 DEF AnswersAreAwaited, At

-----------------------------------------------------------------------------
(* Arithmetic modulo the range of a type. *)

LEMMA QuotientAndRest ==
  ASSUME NEW m \in Nat \ {0}, NEW a \in Int
  PROVE  /\ a \div m \in Int /\ a % m \in 0 .. m - 1
         /\ a = (m * (a \div m)) + (a % m)
OBVIOUS

LEMMA Distribute ==
  ASSUME NEW m \in Int, NEW p \in Int, NEW q \in Int
  PROVE  /\ m * (p + q) = (m * p) + (m * q)
         /\ m * (p - q) = (m * p) - (m * q)
         /\ m * p \in Int
OBVIOUS

LEMMA MultiplesAreApart ==
  ASSUME NEW m \in Nat \ {0}, NEW k \in Int, m * k < m, - m < m * k
  PROVE  k = 0
<1>1. k >= 1 => m * k >= m
  OBVIOUS
<1>2. k <= -1 => m * k <= - m
  OBVIOUS
<1> QED
  BY <1>1, <1>2

LEMMA RestIsUnique ==
  ASSUME NEW m \in Nat \ {0}, NEW a \in Int, NEW q \in Int,
         NEW r \in 0 .. m - 1, a = (m * q) + r
  PROVE  a % m = r
<1> DEFINE k == a \div m
           s == a % m
<1>1. k \in Int /\ s \in 0 .. m - 1 /\ a = (m * k) + s
  BY QuotientAndRest
<1> HIDE DEF k, s
<1>2. m * (q - k) = (m * q) - (m * k) /\ m * q \in Int /\ m * k \in Int
  BY <1>1, Distribute
<1>3. m * (q - k) = s - r /\ s - r < m /\ - m < s - r
  BY <1>1, <1>2
<1>4. q - k = 0
  BY <1>1, <1>3, MultiplesAreApart
<1>5. q = k
  BY <1>1, <1>4
<1>6. s = r
  BY <1>1, <1>2, <1>5
<1> QED
  BY <1>6 DEF s
=============================================================================
