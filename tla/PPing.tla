-------------------------------- MODULE PPing -------------------------------
(***************************************************************************)
(* The kernel side of ePPing (epping/pping_kern.c): how the BPF programs   *)
(* on the two paths of an interface, and the iterators that clean the maps,*)
(* share the state of one flow.                                            *)
(*                                                                         *)
(* The two directions of the flow share one element of the map flow_state. *)
(* Every CPU may be running a program, for a packet of either direction;   *)
(* the programs and the cleaner overlap.  Each step is one access to a map,*)
(* or one group of loads and stores on the flow state of one direction;    *)
(* a handler keeps the pointer its lookup returned, also when the element  *)
(* has been deleted, or used again, in the meantime.                       *)
(*                                                                         *)
(* Only differences of times matter to the code, so a time is kept as its  *)
(* age: the number of ticks since, no longer counted beyond Old.           *)
(***************************************************************************)
EXTENDS Integers, FiniteSets

CONSTANTS
  CPUs,         (* each runs at most one program at a time *)
  Dirs,         (* the two directions, dir1 and dir2 of dual_flow_state *)
  Senders,      (* the directions that carry data, not only ACKs *)
  Ids,          (* identifiers of packets: TSval, or ICMP sequence numbers *)
  IdMod,        (* 2^32: identifiers wrap around *)
  CtrMod,       (* 2^32: outstanding_timestamps wraps around *)
  Proto,        (* "tcp", "icmp", or "vxlan" for TCP in VXLAN, tracked as UDP *)
  Events,       (* the flow events that TCP segments may cause *)
  Elements,     (* elements of flow_state this flow may get *)
  None,
  Old,          (* the age at which ages are no longer told apart *)
  TimestampLife, UnopenedLife, IcmpLife, FlowLife,   (* *_LIFETIME, in ticks *)
  Span,         (* a handler never lasts for more ticks *)
  Parallel      (* whether programs and cleaner overlap, or run in turn *)

ASSUME PPingAssumption ==
  /\ IsFiniteSet(CPUs)
  /\ \E dir1, dir2 \in Dirs : dir1 # dir2 /\ Dirs = {dir1, dir2}
  /\ Senders \subseteq Dirs
  /\ Ids \subseteq 0 .. IdMod - 1
  /\ IdMod \in Nat /\ CtrMod \in Nat \ {0}
  /\ Proto \in {"tcp", "icmp", "vxlan"}
  /\ Events \subseteq {"none", "opening", "closing", "closing_both"}
  /\ None \notin Ids \union Elements \union 0 .. Old
  /\ Old \in Nat
  /\ {TimestampLife, UnopenedLife, IcmpLife, FlowLife} \subseteq 0 .. Old - 1
  /\ Span \in 0 .. Old
  /\ Parallel \in BOOLEAN

VARIABLES
  current,    (* flow_state: the element of the flow, or None *)
  mem,        (* flow_state: the dual_flow_state in each element *)
  packet_ts,  (* packet_ts: the time kept for a packet_id, or None *)
  handler,    (* the program on each CPU, with the packet it handles *)
  cleaner,    (* the iterator the cleanup thread is running *)
  reported    (* whether the events so far tell that a direction is open *)

vars == <<current, mem, packet_ts, handler, cleaner, reported>>

Age == 0 .. Old
Older(t) == IF t \in 0 .. Old - 1 THEN t + 1 ELSE t
Other(d) == CHOOSE o \in Dirs : o # d

-----------------------------------------------------------------------------
(* Packets, as parse_packet_identifier leaves them in packet_info. *)

OptionalId == Ids \union {None}

(***************************************************************************)
(* A pure ACK has no identifier of its own, a non-ACK answers none; SYN is *)
(* opening, FIN is closing, RST is closing both directions.                *)
(***************************************************************************)
TcpPackets ==
  { p \in [pid : OptionalId, reply_pid : OptionalId, event_type : Events] :
      p.event_type = "opening" => p.pid # None }

(* The inner TCP header, behind a UDP header to port 8472. *)
VxlanPackets == TcpPackets

(* An echo request has an identifier, an echo reply answers one. *)
IcmpPackets ==
  { p \in [pid : OptionalId, reply_pid : OptionalId, event_type : {"none"}] :
      p.pid = None <=> p.reply_pid # None }

Packets ==
  CASE Proto = "tcp" -> TcpPackets
    [] Proto = "vxlan" -> VxlanPackets
    [] Proto = "icmp" -> IcmpPackets

wait_first_edge(p) == Proto # "icmp" /\ p.event_type = "none"

(* 0 < a - b < 2^31, wrapping around. *)
IsAfter(a, b) == LET diff == (a - b) % IdMod IN diff > 0 /\ 2 * diff < IdMod

-----------------------------------------------------------------------------
(* Flow states *)

ConnectionStates == {"EMPTY", "WAITOPEN", "OPEN", "CLOSED"}

(* srtt tells whether an RTT has been measured, not which. *)
FlowState ==
  [ conn_state : ConnectionStates, last_timestamp : Age, last_id : OptionalId,
    outstanding_timestamps : 0 .. CtrMod - 1, has_been_timestamped : BOOLEAN,
    srtt : BOOLEAN ]

EmptyState ==
  [ conn_state |-> "EMPTY", last_timestamp |-> Old, last_id |-> None,
    outstanding_timestamps |-> 0, has_been_timestamped |-> FALSE,
    srtt |-> FALSE ]

is_flowstate_active(s) == s.conn_state \notin {"EMPTY", "CLOSED"}

(* Slip: the time of the packet is not recorded. *)
init_flowstate_NoTime(s, p, time) ==
  [s EXCEPT !.conn_state = "WAITOPEN", !.last_id = p.pid,
            !.has_been_timestamped = FALSE]

init_flowstate(s, p, time) ==
  [s EXCEPT !.conn_state = "WAITOPEN", !.last_timestamp = time,
            !.last_id = p.pid, !.has_been_timestamped = FALSE]

(* Slip: half-open flows are never old. *)
is_flow_old_NeverUnopened(s) ==
  /\ s.conn_state = "OPEN"
  /\ \/ Proto = "icmp" /\ s.last_timestamp > IcmpLife
     \/ s.last_timestamp > FlowLife

is_new_identifier(p, s) ==
  IF Proto = "tcp" THEN IsAfter(p.pid, s.last_id) ELSE p.pid # s.last_id

is_flow_old(s) ==
  /\ is_flowstate_active(s)
  /\ \/ s.conn_state = "WAITOPEN" /\ s.last_timestamp > UnopenedLife
     \/ Proto = "icmp" /\ s.last_timestamp > IcmpLife
     \/ s.last_timestamp > FlowLife

should_notify_closing(s) == s.conn_state = "OPEN"

Stored(d) == {i \in Ids : packet_ts[d][i] # None}

-----------------------------------------------------------------------------
(* The state of a handler and of the cleaner *)

Labels ==
  {"lookup", "create", "find", "forward", "stamp", "count", "reverse", "open",
   "match", "delete", "uncount", "report", "close", "drop"}

(* No handler at these has a pointer yet. *)
Searching == {"lookup", "create", "find"}

Idle == [at |-> "idle"]

Handler ==
  [at : {"idle"}]
  \union [at : Labels, dir : Dirs, pkt : Packets, time : Age,
          elem : Elements \union {None}]

Cleaner ==
  [at : {"idle"}]
  \union [at : {"tsdelete", "tsuncount"}, dir : Dirs, id : Ids,
          elem : Elements \union {None}]
  \union [at : {"flowdelete"}, notify : [Dirs -> BOOLEAN]]

At(c, l) == handler[c].at = l
Goto(c, l) == handler' = [handler EXCEPT ![c].at = l]
Leave(c) == handler' = [handler EXCEPT ![c] = Idle]

Running == {c \in CPUs : handler[c] # Idle}
MayStart == Parallel \/ (Running = {} /\ cleaner = Idle)

(* The directions of fw_flow and rev_flow: that of the packet, and the other. *)
Fw(c) == handler[c].dir
Rev(c) == Other(handler[c].dir)

(* The flow state of direction x that c's handler has a pointer to. *)
State(c, x) == mem[handler[c].elem][x]
SetState(c, x, s) == mem' = [mem EXCEPT ![handler[c].elem][x] = s]

-----------------------------------------------------------------------------
(* pping_parsed_packet: finding the flow *)

(* A packet is parsed; its time is read before anything else. *)
Arrive(c, d, p) ==
  /\ MayStart
  /\ At(c, "idle")
  /\ p.pid # None => d \in Senders
  /\ handler' = [handler EXCEPT ![c] =
       [at |-> "lookup", dir |-> d, pkt |-> p, time |-> 0, elem |-> None]]
  /\ UNCHANGED <<current, mem, packet_ts, cleaner, reported>>

(* Only a packet that can be time-stamped and closes nothing creates one. *)
MayCreate(p) ==
  p.pid # None /\ p.event_type \notin {"closing", "closing_both"}

lookup_or_create_dualflow_state(c) ==
  /\ At(c, "lookup")
  /\ \/ /\ current # None
        /\ handler' = [handler EXCEPT ![c].at = "forward", ![c].elem = current]
     \/ current = None /\ MayCreate(handler[c].pkt) /\ Goto(c, "create")
     \/ current = None /\ ~ MayCreate(handler[c].pkt) /\ Leave(c)
  /\ UNCHANGED <<current, mem, packet_ts, cleaner, reported>>

(* Slip: the insertion replaces what another program has created (BPF_ANY). *)
create_dualflow_state_Any(c) ==
  LET h == handler[c] IN
  /\ At(c, "create")
  /\ \E e \in Elements :
       /\ current' = e
       /\ mem' = [mem EXCEPT ![e] = [x \in Dirs |->
            IF x = Fw(c) THEN init_flowstate(EmptyState, h.pkt, h.time)
                         ELSE EmptyState]]
  /\ Goto(c, "find")
  /\ UNCHANGED <<packet_ts, cleaner, reported>>

(***************************************************************************)
(* The insertion (BPF_NOEXIST) fails when another program was faster,      *)
(* or when other flows fill the map; the packet is then not looked at.     *)
(***************************************************************************)
create_dualflow_state(c) ==
  LET h == handler[c] IN
  /\ At(c, "create")
  /\ \/ /\ current = None
        /\ \E e \in Elements :
             /\ current' = e
             /\ mem' = [mem EXCEPT ![e] = [x \in Dirs |->
                  IF x = Fw(c) THEN init_flowstate(EmptyState, h.pkt, h.time)
                           ELSE EmptyState]]
        /\ Goto(c, "find")
     \/ /\ Leave(c)
        /\ UNCHANGED <<current, mem>>
  /\ UNCHANGED <<packet_ts, cleaner, reported>>

(* The lookup of the element just created. *)
find_dualflow_state(c) ==
  /\ At(c, "find")
  /\ \/ /\ current # None
        /\ handler' = [handler EXCEPT ![c].at = "forward", ![c].elem = current]
     \/ current = None /\ Leave(c)
  /\ UNCHANGED <<current, mem, packet_ts, cleaner, reported>>

-----------------------------------------------------------------------------
(* pping_parsed_packet: the direction of the packet *)

(* update_forward_flowstate: an empty direction opens with this packet. *)
update_forward_flowstate(s, p, time) ==
  IF s.conn_state = "EMPTY" /\ p.pid # None
    THEN init_flowstate(s, p, time) ELSE s

(* Slip: a time stamp that the rate limit suppresses leaves last_id alone. *)
Limited_KeepsLastId(s, p) == s

(* The identifier is spent even when the packet is not time-stamped. *)
Limited(s, p) == [s EXCEPT !.last_id = p.pid]

(* The checks of pping_timestamp_packet that precede the rate limit. *)
IsCandidate(s, p) ==
  /\ is_flowstate_active(s)
  /\ p.pid # None
  /\ s.has_been_timestamped \/ wait_first_edge(p) => is_new_identifier(p, s)

(***************************************************************************)
(* What is_rate_limited may return.  The rates and RTTs it compares are    *)
(* not modelled; a packet older than the last time stamp always is.        *)
(***************************************************************************)
RateLimits(s, time) ==
  IF ~ s.has_been_timestamped THEN {FALSE}
  ELSE IF time > s.last_timestamp THEN {TRUE}
  ELSE BOOLEAN

pping_forward(c) ==
  LET h == handler[c]
      s == update_forward_flowstate(State(c, Fw(c)), h.pkt, h.time)
  IN
  /\ At(c, "forward")
  /\ \/ /\ ~ IsCandidate(s, h.pkt)
        /\ SetState(c, Fw(c), s)
        /\ Goto(c, "reverse")
     \/ /\ IsCandidate(s, h.pkt) /\ TRUE \in RateLimits(s, h.time)
        /\ SetState(c, Fw(c), Limited(s, h.pkt))
        /\ Goto(c, "reverse")
     \/ /\ IsCandidate(s, h.pkt) /\ FALSE \in RateLimits(s, h.time)
        /\ SetState(c, Fw(c), [s EXCEPT !.last_id = h.pkt.pid,
                                    !.has_been_timestamped = TRUE,
                                    !.last_timestamp = h.time])
        /\ Goto(c, "stamp")
  /\ UNCHANGED <<current, packet_ts, cleaner, reported>>

(***************************************************************************)
(* The insertion (BPF_NOEXIST) of the time fails when a packet with the    *)
(* same identifier is still waiting for its answer, or the map is full.    *)
(***************************************************************************)
pping_stamp(c) ==
  LET h == handler[c] IN
  /\ At(c, "stamp")
  /\ \/ /\ packet_ts[Fw(c)][h.pkt.pid] = None
        /\ packet_ts' = [packet_ts EXCEPT ![Fw(c)][h.pkt.pid] = h.time]
        /\ Goto(c, "count")
     \/ Goto(c, "reverse") /\ UNCHANGED packet_ts
  /\ UNCHANGED <<current, mem, cleaner, reported>>

Incremented(s) ==
  [s EXCEPT !.outstanding_timestamps = (@ + 1) % CtrMod]
(* Slip: the counter is not unsigned. *)
Decremented_NoWrap(s) == [s EXCEPT !.outstanding_timestamps = @ - 1]

Decremented(s) ==
  [s EXCEPT !.outstanding_timestamps = (@ - 1) % CtrMod]

pping_count(c) ==
  /\ At(c, "count")
  /\ SetState(c, Fw(c), Incremented(State(c, Fw(c))))
  /\ Goto(c, "reverse")
  /\ UNCHANGED <<current, packet_ts, cleaner, reported>>

-----------------------------------------------------------------------------
(* pping_parsed_packet: the direction the packet answers *)

(* update_reverse_flowstate: is this the first answer? *)
pping_reverse(c) ==
  /\ At(c, "reverse")
  /\ IF /\ State(c, Rev(c)).conn_state = "WAITOPEN"
        /\ handler[c].pkt.event_type # "closing_both"
       THEN Goto(c, "open") ELSE Goto(c, "match")
  /\ UNCHANGED <<current, mem, packet_ts, cleaner, reported>>

pping_open(c) ==
  /\ At(c, "open")
  /\ SetState(c, Rev(c), [State(c, Rev(c)) EXCEPT !.conn_state = "OPEN"])
  /\ reported' = [reported EXCEPT ![Rev(c)] = TRUE]
  /\ Goto(c, "match")
  /\ UNCHANGED <<current, packet_ts, cleaner>>

(* What pping_match_packet checks before, and with, the lookup. *)
HasTimestamp(s, ts, p) ==
  /\ is_flowstate_active(s)
  /\ p.reply_pid # None
  /\ s.outstanding_timestamps # 0
  /\ ts[p.reply_pid] # None

(***************************************************************************)
(* What p_info->time < *p_ts may say.  The lookup has returned a pointer:  *)
(* when another program is faster, the element is deleted, used for        *)
(* another packet, and shows the time of that one (see PPingClocks).       *)
(***************************************************************************)
IsTooEarly(time, ts) == IF Parallel THEN BOOLEAN ELSE {time > ts}

(* The lookup, and how the comparison with what it finds turns out. *)
pping_match(c) ==
  LET h == handler[c]
      ts == packet_ts[Rev(c)]
      found == HasTimestamp(State(c, Rev(c)), ts, h.pkt)
  IN
  /\ At(c, "match")
  /\ \/ /\ found
        /\ FALSE \in IsTooEarly(h.time, ts[h.pkt.reply_pid])
        /\ Goto(c, "delete")
     \/ /\ found => TRUE \in IsTooEarly(h.time, ts[h.pkt.reply_pid])
        /\ Goto(c, "close")
  /\ UNCHANGED <<current, mem, packet_ts, cleaner, reported>>

(* Slip: the timestamp stays. *)
pping_delete_Keeps(c) ==
  /\ At(c, "delete")
  /\ Goto(c, "uncount")
  /\ UNCHANGED <<current, mem, packet_ts, cleaner, reported>>

(* Slip: no look at whether the timestamp was still there. *)
pping_delete_AnyUncounts(c) ==
  /\ At(c, "delete")
  /\ Goto(c, "uncount")
  /\ packet_ts' = [packet_ts EXCEPT ![Rev(c)][handler[c].pkt.reply_pid] = None]
  /\ UNCHANGED <<current, mem, cleaner, reported>>

(* The cleaner, or a program with the same answer, may have been faster. *)
pping_delete(c) ==
  LET i == handler[c].pkt.reply_pid IN
  /\ At(c, "delete")
  /\ Goto(c, IF packet_ts[Rev(c)][i] # None THEN "uncount" ELSE "report")
  /\ packet_ts' = [packet_ts EXCEPT ![Rev(c)][i] = None]
  /\ UNCHANGED <<current, mem, cleaner, reported>>

pping_uncount(c) ==
  /\ At(c, "uncount")
  /\ SetState(c, Rev(c), Decremented(State(c, Rev(c))))
  /\ Goto(c, "report")
  /\ UNCHANGED <<current, packet_ts, cleaner, reported>>

(* The RTT goes into the flow state and to user space. *)
pping_report(c) ==
  /\ At(c, "report")
  /\ SetState(c, Rev(c), [State(c, Rev(c)) EXCEPT !.srtt = TRUE])
  /\ Goto(c, "close")
  /\ UNCHANGED <<current, packet_ts, cleaner, reported>>

-----------------------------------------------------------------------------
(* close_and_delete_flows *)

(* The directions that the packet of direction d closes. *)
Closes(d, p) ==
  CASE p.event_type = "closing" -> {d}
    [] p.event_type = "closing_both" -> Dirs
    [] OTHER -> {}

(* User space hears of a closing only if it has heard of the opening. *)
close_flows(c) ==
  LET h == handler[c]
      old == mem[h.elem]
      new == [x \in Dirs |-> IF x \in Closes(Fw(c), h.pkt)
                               THEN [old[x] EXCEPT !.conn_state = "CLOSED"]
                               ELSE old[x]]
  IN
  /\ At(c, "close")
  /\ mem' = [mem EXCEPT ![h.elem] = new]
  /\ reported' = [x \in Dirs |->
       IF x \in Closes(Fw(c), h.pkt) /\ should_notify_closing(old[x])
         THEN FALSE ELSE reported[x]]
  /\ IF \E x \in Dirs : is_flowstate_active(new[x])
       THEN Leave(c) ELSE Goto(c, "drop")
  /\ UNCHANGED <<current, packet_ts, cleaner>>

(* The deletion is by key: it takes whatever element the flow has by now. *)
delete_flows(c) ==
  /\ At(c, "drop")
  /\ current' = None
  /\ Leave(c)
  /\ UNCHANGED <<mem, packet_ts, cleaner, reported>>

-----------------------------------------------------------------------------
(* The iterators of periodic_map_cleanup *)

(* Slip: a timestamp without a flow is left alone. *)
tsmap_cleanup_NeedsFlow(d, i) ==
  /\ MayStart
  /\ cleaner = Idle
  /\ packet_ts[d][i] # None
  /\ current # None
  /\ mem[current][d].srtt \/ packet_ts[d][i] > TimestampLife
  /\ cleaner' = [at |-> "tsdelete", dir |-> d, id |-> i, elem |-> current]
  /\ UNCHANGED <<current, mem, packet_ts, handler, reported>>

(***************************************************************************)
(* tsmap_cleanup deletes a timestamp after TIMESTAMP_LIFETIME or, when the *)
(* flow has an RTT, after a multiple of it, which may be any age.          *)
(***************************************************************************)
tsmap_cleanup(d, i) ==
  LET f_state == IF current = None THEN EmptyState ELSE mem[current][d] IN
  /\ MayStart
  /\ cleaner = Idle
  /\ packet_ts[d][i] # None
  /\ f_state.srtt \/ packet_ts[d][i] > TimestampLife
  /\ cleaner' = [at |-> "tsdelete", dir |-> d, id |-> i, elem |-> current]
  /\ UNCHANGED <<current, mem, packet_ts, handler, reported>>

(* Slip: the timestamp goes, the counter does not follow. *)
tsmap_delete_NoDecrement ==
  /\ cleaner.at = "tsdelete"
  /\ packet_ts' = [packet_ts EXCEPT ![cleaner.dir][cleaner.id] = None]
  /\ cleaner' = Idle
  /\ UNCHANGED <<current, mem, handler, reported>>

tsmap_delete ==
  LET c == cleaner IN
  /\ c.at = "tsdelete"
  /\ packet_ts' = [packet_ts EXCEPT ![c.dir][c.id] = None]
  /\ cleaner' = IF packet_ts[c.dir][c.id] # None /\ c.elem # None
                  THEN [c EXCEPT !.at = "tsuncount"] ELSE Idle
  /\ UNCHANGED <<current, mem, handler, reported>>

tsmap_uncount ==
  LET c == cleaner IN
  /\ c.at = "tsuncount"
  /\ mem' = [mem EXCEPT ![c.elem][c.dir] = Decremented(@)]
  /\ cleaner' = Idle
  /\ UNCHANGED <<current, packet_ts, handler, reported>>

(* flowmap_cleanup: neither direction is in use any more. *)
flowmap_cleanup ==
  /\ MayStart
  /\ cleaner = Idle
  /\ current # None
  /\ \A x \in Dirs : is_flowstate_active(mem[current][x]) =>
                       is_flow_old(mem[current][x])
  /\ cleaner' = [ at |-> "flowdelete",
                  notify |-> [x \in Dirs |->
                    /\ should_notify_closing(mem[current][x])
                    /\ is_flow_old(mem[current][x])] ]
  /\ UNCHANGED <<current, mem, packet_ts, handler, reported>>

(* Slip: only the direction that is the key of the element is reported. *)
flowmap_delete_OneNotice ==
  /\ cleaner.at = "flowdelete"
  /\ current' = None
  /\ reported' = [reported EXCEPT ![CHOOSE x \in Dirs : TRUE] = FALSE]
  /\ cleaner' = Idle
  /\ UNCHANGED <<mem, packet_ts, handler>>

flowmap_delete ==
  /\ cleaner.at = "flowdelete"
  /\ current' = None
  /\ reported' = [x \in Dirs |->
       IF current # None /\ cleaner.notify[x] THEN FALSE ELSE reported[x]]
  /\ cleaner' = Idle
  /\ UNCHANGED <<mem, packet_ts, handler>>

-----------------------------------------------------------------------------
(* Time passes, for everything that is remembered by its age. *)
Tick ==
  /\ \A c \in Running : handler[c].time < Span
  /\ mem' = [e \in Elements |-> [d \in Dirs |->
       IF mem[e][d].conn_state = "EMPTY" THEN mem[e][d]
       ELSE [mem[e][d] EXCEPT !.last_timestamp = Older(@)]]]
  /\ packet_ts' = [d \in Dirs |-> [i \in Ids |-> Older(packet_ts[d][i])]]
  /\ handler' = [c \in CPUs |-> IF handler[c] = Idle THEN Idle
                                ELSE [handler[c] EXCEPT !.time = Older(@)]]
  /\ UNCHANGED <<current, cleaner, reported>>

Init ==
  /\ current = None
  /\ mem = [e \in Elements |-> [d \in Dirs |-> EmptyState]]
  /\ packet_ts = [d \in Dirs |-> [i \in Ids |-> None]]
  /\ handler = [c \in CPUs |-> Idle]
  /\ cleaner = Idle
  /\ reported = [d \in Dirs |-> FALSE]

(* What a handler does once its packet is there. *)
Proceed(c) ==
  \/ lookup_or_create_dualflow_state(c)
  \/ create_dualflow_state(c)
  \/ find_dualflow_state(c)
  \/ pping_forward(c)
  \/ pping_stamp(c)
  \/ pping_count(c)
  \/ pping_reverse(c)
  \/ pping_open(c)
  \/ pping_match(c)
  \/ pping_delete(c)
  \/ pping_uncount(c)
  \/ pping_report(c)
  \/ close_flows(c)
  \/ delete_flows(c)

Clean ==
  \/ \E d \in Dirs, i \in Ids : tsmap_cleanup(d, i)
  \/ tsmap_delete
  \/ tsmap_uncount
  \/ flowmap_cleanup
  \/ flowmap_delete

Step ==
  \/ \E c \in CPUs, d \in Dirs, p \in Packets : Arrive(c, d, p)
  \/ \E c \in CPUs : Proceed(c)
  \/ Clean

Next == Step \/ Tick

Spec == Init /\ [][Next]_vars

(***************************************************************************)
(* Programs that run terminate: the verifier admits no others.             *)
(*                                                                         *)
(* Time passes, however closely packets follow each other; Tick waits for  *)
(* handlers that have lasted for Span ticks, so this is strong fairness.   *)
(*                                                                         *)
(* periodic_map_cleanup walks both maps in an endless loop, so an element  *)
(* the iterator could remove again and again is removed; packets may keep  *)
(* it from doing so for a while, hence strong fairness once more.          *)
(***************************************************************************)
Fairness ==
  /\ \A c \in CPUs : WF_vars(Proceed(c))
  /\ WF_vars(tsmap_delete \/ tsmap_uncount \/ flowmap_delete)
  /\ SF_vars(Tick)
  /\ \A d \in Dirs, i \in Ids : SF_vars(tsmap_cleanup(d, i))
  /\ SF_vars(flowmap_cleanup)

FairSpec == Spec /\ Fairness

-----------------------------------------------------------------------------
(* Every variable holds a value of its kind. *)
TypeOK ==
  /\ current \in Elements \union {None}
  /\ mem \in [Elements -> [Dirs -> FlowState]]
  /\ packet_ts \in [Dirs -> [Ids -> Age \union {None}]]
  /\ handler \in [CPUs -> Handler]
  /\ cleaner \in Cleaner
  /\ reported \in [Dirs -> BOOLEAN]

(* No timestamp stays for ever, whether or not its flow is still there. *)
TimestampsExpire ==
  \A d \in Dirs, i \in Ids : packet_ts[d][i] # None ~> packet_ts[d][i] = None

(* A flow is forgotten some time after its last packet. *)
FlowsExpire == (<>[](Running = {})) => <>[](current = None)
=============================================================================
