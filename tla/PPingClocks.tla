----------------------------- MODULE PPingClocks ----------------------------
(***************************************************************************)
(* The clock of ePPing (epping/pping_kern.c).  A program reads it once,    *)
(* when it parses its packet, and compares the reading much later with     *)
(* times that programs on other CPUs have stored meanwhile; the iterators  *)
(* do the same for each element.  A reading may thus be older than what it *)
(* is compared with, and differences of __u64 wrap.                        *)
(*                                                                         *)
(* This is one direction of one flow: its packets are time-stamped, with   *)
(* a rate limit and a limit on the warnings about a full map, and packets  *)
(* of the other direction answer.  The states of the connection and the    *)
(* counter of outstanding timestamps are in PPing.                         *)
(***************************************************************************)
EXTENDS Integers, FiniteSets

CONSTANTS
  CPUs,
  Ids,            (* identifiers of packets *)
  Slots,          (* the elements of packet_ts *)
  W,              (* 2^64 *)
  MaxClock,       (* bound *)
  RateLimit,      (* the option --rate-limit *)
  WarnInterval,   (* WARN_MAP_FULL_INTERVAL *)
  FlowLife,       (* FLOW_LIFETIME *)
  TimestampLife,  (* TIMESTAMP_LIFETIME *)
  None

(* The machine has been up for a while when ePPing is started. *)
ASSUME ClockAssumption ==
  /\ W \in Nat /\ MaxClock \in 0 .. W - 1
  /\ RateLimit \in Nat /\ WarnInterval \in 1 .. MaxClock
  /\ FlowLife \in Nat /\ TimestampLife \in Nat
  /\ None \notin Slots \union Int

VARIABLES
  clock,           (* bpf_ktime_get_ns *)
  last_timestamp,  (* of the flow, None while there is no flow *)
  has_been_timestamped,
  mem, live,       (* packet_ts: the elements, and those in use *)
  last_warn_time,
  handler,         (* the program on each CPU *)
  cleaner,         (* the iterator that runs *)
  torn,            (* history: stores between a check and the store it allows *)
  stamped,         (* history: the times at which the flow was time-stamped *)
  warned,          (* history: the times in map-full events *)
  failed,          (* history: the times of insertions that failed *)
  latest           (* history: the last RTT event or deletion, till a packet comes *)

flow == <<last_timestamp, has_been_timestamped>>
packet_ts == <<mem, live>>
history == <<torn, stamped, warned, failed, latest>>
vars == <<clock, flow, packet_ts, last_warn_time, handler, cleaner, history>>

Clock == 0 .. MaxClock
Element == [id : Ids, time : Clock]

(* The difference of two __u64. *)
Minus(a, b) == (a - b) % W

Idle == [at |-> "idle"]
At(c, l) == handler[c].at = l
Goto(c, l) == handler' = [handler EXCEPT ![c].at = l]
Leave(c) == handler' = [handler EXCEPT ![c] = Idle]

-----------------------------------------------------------------------------
(* pping_timestamp_packet, for a packet that has a new identifier. *)

(* parse_packet_identifier: the only reading of the clock. *)
parse(c, id) ==
  /\ At(c, "idle")
  /\ \E l \in {"find", "match"} :
       handler' = [handler EXCEPT ![c] = [at |-> l, id |-> id, time |-> clock]]
  /\ latest' = None
  /\ UNCHANGED <<clock, flow, packet_ts, last_warn_time, cleaner,
                 torn, stamped, warned, failed>>

(* init_flowstate, unless the flow is there. *)
lookup_or_create_dualflow_state(c) ==
  /\ At(c, "find")
  /\ IF last_timestamp = None
       THEN /\ last_timestamp' = handler[c].time
            /\ has_been_timestamped' = FALSE
       ELSE UNCHANGED flow
  /\ Goto(c, "check")
  /\ UNCHANGED <<clock, packet_ts, last_warn_time, cleaner, history>>

(* Slip: no look at which of the two is earlier. *)
is_rate_limited_Wraps(now, last) == Minus(now, last) < RateLimit

is_rate_limited(now, last) == now < last \/ Minus(now, last) < RateLimit

(***************************************************************************)
(* The pointer into flow_state may show a flow that has been deleted, with *)
(* what it held, or one that was created again in the same element.        *)
(***************************************************************************)
check_rate(c) ==
  LET h == handler[c]
      gone == last_timestamp = None
      limited == /\ ~ gone /\ has_been_timestamped
                 /\ is_rate_limited(h.time, last_timestamp)
  IN
  /\ At(c, "check")
  /\ \/ (gone \/ limited) /\ Leave(c)
     \/ /\ ~ limited
        /\ handler' = [handler EXCEPT ![c] =
             [at |-> "stamp", id |-> h.id, time |-> h.time, seen |-> flow]]
  /\ UNCHANGED <<clock, flow, packet_ts, last_warn_time, cleaner, history>>

(* What is written into a deleted flow is lost. *)
store_timestamp(c) ==
  LET h == handler[c] IN
  /\ At(c, "stamp")
  /\ IF last_timestamp = None THEN UNCHANGED <<flow, stamped>>
     ELSE /\ last_timestamp' = h.time
          /\ has_been_timestamped' = TRUE
          /\ stamped' = stamped \union {h.time}
  /\ torn' = IF flow = h.seen THEN torn ELSE torn \union {"stamps"}
  /\ handler' = [handler EXCEPT ![c] = [at |-> "insert", id |-> h.id, time |-> h.time]]
  /\ UNCHANGED <<clock, packet_ts, last_warn_time, cleaner, warned, failed, latest>>

(* From the lookup on, an answer goes through a pointer to the element. *)
Answering == {"early", "rtt", "delete", "report"}

(* Whoever has looked the element up still has its address. *)
Holds(h, s) == h.at \in Answering \union {"ts_age"} /\ h.elem = s

Stored(id) == \E s \in live : mem[s].id = id

(* BPF_NOEXIST: it fails for an identifier that is there, and without room. *)
insert_timestamp(c) ==
  LET h == handler[c] IN
  /\ At(c, "insert")
  /\ \/ /\ ~ Stored(h.id)
        /\ \E s \in Slots \ live :
             /\ mem' = [mem EXCEPT ![s] = [id |-> h.id, time |-> h.time]]
             /\ live' = live \union {s}
             /\ cleaner' = IF Holds(cleaner, s)
                             THEN [cleaner EXCEPT !.reused = TRUE] ELSE cleaner
             /\ handler' = [d \in CPUs |->
                  IF d = c THEN Idle
                  ELSE IF Holds(handler[d], s)
                    THEN [handler[d] EXCEPT !.reused = TRUE] ELSE handler[d]]
     \/ /\ Stored(h.id) \/ live = Slots
        /\ Goto(c, "warn")
        /\ UNCHANGED <<packet_ts, cleaner>>
  /\ UNCHANGED <<clock, flow, last_warn_time, history>>

-----------------------------------------------------------------------------
(* send_map_full_event *)

IsWarned(now) == now < last_warn_time \/ Minus(now, last_warn_time) < WarnInterval

(* Slip: every failure puts the next warning off. *)
check_warning_PutsOff(c) ==
  LET h == handler[c] IN
  /\ At(c, "warn")
  /\ IF IsWarned(h.time)
       THEN /\ Leave(c)
            /\ failed' = failed \union {h.time}
            /\ last_warn_time' = h.time
       ELSE /\ handler' = [handler EXCEPT ![c] =
                 [at |-> "send", time |-> h.time, seen |-> last_warn_time]]
            /\ UNCHANGED <<failed, last_warn_time>>
  /\ UNCHANGED <<clock, flow, packet_ts, cleaner, torn, stamped,
                 warned, latest>>

check_warning(c) ==
  LET h == handler[c] IN
  /\ At(c, "warn")
  /\ IF IsWarned(h.time)
       THEN Leave(c) /\ failed' = failed \union {h.time}
       ELSE /\ handler' = [handler EXCEPT ![c] =
                 [at |-> "send", time |-> h.time, seen |-> last_warn_time]]
            /\ UNCHANGED failed
  /\ UNCHANGED <<clock, flow, packet_ts, last_warn_time, cleaner, torn, stamped,
                 warned, latest>>

(* Slip: the time of the warning is not kept. *)
send_warning_Forgets(c) ==
  LET h == handler[c] IN
  /\ At(c, "send")
  /\ warned' = warned \union {h.time}
  /\ failed' = failed \union {h.time}
  /\ torn' = IF last_warn_time = h.seen THEN torn ELSE torn \union {"warnings"}
  /\ Leave(c)
  /\ UNCHANGED <<clock, flow, packet_ts, last_warn_time, cleaner, stamped, latest>>

send_warning(c) ==
  LET h == handler[c] IN
  /\ At(c, "send")
  /\ last_warn_time' = h.time
  /\ warned' = warned \union {h.time}
  /\ failed' = failed \union {h.time}
  /\ torn' = IF last_warn_time = h.seen THEN torn ELSE torn \union {"warnings"}
  /\ Leave(c)
  /\ UNCHANGED <<clock, flow, packet_ts, cleaner, stamped, latest>>

-----------------------------------------------------------------------------
(* pping_match_packet, for a packet of the other direction. *)

(* Slip: no look at which of the two is earlier. *)
Answers_Any(now, time) == TRUE

Answers(now, time) == now >= time

(* The lookup of the timestamp that the packet answers. *)
match(c) ==
  LET h == handler[c] IN
  /\ At(c, "match")
  /\ \/ \E s \in live :
          /\ mem[s].id = h.id
          /\ handler' = [handler EXCEPT ![c] =
               [at |-> "early", id |-> h.id, time |-> h.time, elem |-> s,
                reused |-> FALSE]]
     \/ ~ Stored(h.id) /\ Leave(c)
  /\ UNCHANGED <<clock, flow, packet_ts, last_warn_time, cleaner, history>>

(***************************************************************************)
(* The check and the difference load the time from the element, one after  *)
(* the other: meanwhile it may have been deleted and used for a packet     *)
(* that is later than the answer.  (A build that loads it once is one      *)
(* where nothing comes between the two steps.)                             *)
(***************************************************************************)
check_answer(c) ==
  LET h == handler[c] IN
  /\ At(c, "early")
  /\ IF Answers(h.time, mem[h.elem].time) THEN Goto(c, "rtt") ELSE Leave(c)
  /\ UNCHANGED <<clock, flow, packet_ts, last_warn_time, cleaner, history>>

compute_rtt(c) ==
  LET h == handler[c] IN
  /\ At(c, "rtt")
  /\ handler' = [handler EXCEPT ![c] =
       [at |-> "delete", id |-> h.id, time |-> h.time, elem |-> h.elem,
        rtt |-> Minus(h.time, mem[h.elem].time), reused |-> h.reused]]
  /\ UNCHANGED <<clock, flow, packet_ts, last_warn_time, cleaner, history>>

(* The RTT counts even if somebody else has deleted the timestamp. *)
delete_timestamp(c) ==
  /\ At(c, "delete")
  /\ live' = {s \in live : mem[s].id # handler[c].id}
  /\ Goto(c, "report")
  /\ UNCHANGED <<clock, flow, mem, last_warn_time, cleaner, history>>

(* The event has the RTT and, loaded once more, the time it starts from. *)
send_rtt_event_mark(c) ==
  LET h == handler[c] IN
  /\ At(c, "report")
  /\ latest' = [what |-> "rtt", now |-> h.time, rtt |-> h.rtt,
                time |-> mem[h.elem].time, own |-> mem[h.elem].id = h.id,
                reused |-> h.reused]
  /\ Leave(c)
  /\ UNCHANGED <<clock, flow, packet_ts, last_warn_time, cleaner,
                 torn, stamped, warned, failed>>

-----------------------------------------------------------------------------
(* tsmap_cleanup, called for each element; it reads the clock itself. *)

tsmap_cleanup ==
  /\ cleaner = Idle
  /\ \E s \in live : cleaner' = [at |-> "ts", elem |-> s, now |-> clock]
  /\ UNCHANGED <<clock, flow, packet_ts, last_warn_time, handler, history>>

(* "now <= *timestamp" *)
check_element ==
  /\ cleaner.at = "ts"
  /\ cleaner' = IF cleaner.now <= mem[cleaner.elem].time THEN Idle
                ELSE [at |-> "ts_age", elem |-> cleaner.elem,
                      now |-> cleaner.now, reused |-> FALSE]
  /\ UNCHANGED <<clock, flow, packet_ts, last_warn_time, handler, history>>

(***************************************************************************)
(* After the lookup of the flow *timestamp is loaded again, and the key is *)
(* copied: meanwhile the element may have been used for another packet.    *)
(***************************************************************************)
expire_element ==
  LET e == mem[cleaner.elem]
      old == Minus(cleaner.now, e.time) > TimestampLife
  IN
  /\ cleaner.at = "ts_age"
  /\ cleaner' = Idle
  /\ live' = IF old THEN {s \in live : mem[s].id # e.id} ELSE live
  /\ latest' = IF old THEN [what |-> "timestamp", now |-> cleaner.now,
                            time |-> e.time, reused |-> cleaner.reused]
               ELSE latest
  /\ UNCHANGED <<clock, flow, mem, last_warn_time, handler,
                 torn, stamped, warned, failed>>

(* flowmap_cleanup and is_flow_old *)

flowmap_cleanup ==
  /\ cleaner = Idle /\ last_timestamp # None
  /\ cleaner' = [at |-> "flow", now |-> clock]
  /\ UNCHANGED <<clock, flow, packet_ts, last_warn_time, handler, history>>

(* "To avoid concurrency issue between check and age calculation" *)
copy_timestamp ==
  /\ cleaner.at = "flow"
  /\ cleaner' = IF last_timestamp = None \/ last_timestamp > cleaner.now
                  THEN Idle
                ELSE [at |-> "flow_age", now |-> cleaner.now, ts |-> last_timestamp]
  /\ UNCHANGED <<clock, flow, packet_ts, last_warn_time, handler, history>>

FlowAge_Reloaded ==
  Minus(cleaner.now, IF last_timestamp = None THEN 0 ELSE last_timestamp)

FlowAge == Minus(cleaner.now, cleaner.ts)

(* The flow is deleted by its key, whatever has become of it. *)
expire_flow ==
  LET old == FlowAge > FlowLife IN
  /\ cleaner.at = "flow_age"
  /\ cleaner' = Idle
  /\ IF old /\ last_timestamp # None
       THEN /\ last_timestamp' = None
            /\ stamped' = {}
            /\ latest' = [what |-> "flow", now |-> cleaner.now, time |-> cleaner.ts]
            /\ UNCHANGED has_been_timestamped
       ELSE UNCHANGED <<flow, stamped, latest>>
  /\ UNCHANGED <<clock, packet_ts, last_warn_time, handler, torn, warned, failed>>

-----------------------------------------------------------------------------
Tick ==
  /\ clock < MaxClock
  /\ clock' = clock + 1
  /\ UNCHANGED <<flow, packet_ts, last_warn_time, handler, cleaner, history>>

Init ==
  /\ clock = WarnInterval
  /\ last_timestamp = None /\ has_been_timestamped = FALSE
  /\ mem \in [Slots -> Element] /\ \A s \in Slots : mem[s].time = 0
  /\ live = {}
  /\ last_warn_time = 0
  /\ handler = [c \in CPUs |-> Idle]
  /\ cleaner = Idle
  /\ torn = {} /\ stamped = {} /\ warned = {} /\ failed = {}
  /\ latest = None

Next ==
  \/ \E c \in CPUs :
       \/ \E id \in Ids : parse(c, id)
       \/ lookup_or_create_dualflow_state(c)
       \/ check_rate(c) \/ store_timestamp(c) \/ insert_timestamp(c)
       \/ check_warning(c) \/ send_warning(c)
       \/ match(c) \/ check_answer(c) \/ compute_rtt(c)
       \/ delete_timestamp(c) \/ send_rtt_event_mark(c)
  \/ tsmap_cleanup \/ check_element \/ expire_element
  \/ flowmap_cleanup \/ copy_timestamp \/ expire_flow
  \/ Tick

Spec == Init /\ [][Next]_vars

-----------------------------------------------------------------------------
Flow == (Clock \union {None}) \X BOOLEAN

Handler ==
  [at : {"idle"}]
  \union [at : {"find", "match", "check", "insert", "warn"}, id : Ids, time : Clock]
  \union [at : {"stamp"}, id : Ids, time : Clock, seen : Flow]
  \union [at : {"send"}, time : Clock, seen : Clock]
  \union [at : {"early", "rtt"}, id : Ids, time : Clock, elem : Slots,
          reused : BOOLEAN]
  \union [at : {"delete", "report"}, id : Ids, time : Clock, elem : Slots,
          rtt : 0 .. W - 1, reused : BOOLEAN]

Cleaner ==
  [at : {"idle"}]
  \union [at : {"ts"}, elem : Slots, now : Clock]
  \union [at : {"ts_age"}, elem : Slots, now : Clock, reused : BOOLEAN]
  \union [at : {"flow"}, now : Clock]
  \union [at : {"flow_age"}, now : Clock, ts : Clock]

Latest ==
  [what : {"rtt"}, now : Clock, rtt : 0 .. W - 1, time : Clock, own : BOOLEAN,
   reused : BOOLEAN]
  \union [what : {"timestamp"}, now : Clock, time : Clock, reused : BOOLEAN]
  \union [what : {"flow"}, now : Clock, time : Clock]
  \union {None}

(* Every variable holds a value of its kind; an RTT may be any __u64. *)
TypeOK ==
  /\ clock \in Clock
  /\ last_timestamp \in Clock \union {None} /\ has_been_timestamped \in BOOLEAN
  /\ mem \in [Slots -> Element] /\ live \subseteq Slots
  /\ last_warn_time \in Clock
  /\ handler \in [CPUs -> Handler] /\ cleaner \in Cleaner
  /\ torn \subseteq {"stamps", "warnings"}
  /\ stamped \subseteq Clock /\ warned \subseteq Clock /\ failed \subseteq Clock
  /\ latest \in Latest

Spaced(times, gap) == \A s, t \in times : s < t => t - s >= gap

(***************************************************************************)
(* The rate limit: as long as nobody has stored a time between another     *)
(* one's check and store, the time stamps of a flow keep their distance,   *)
(* however late a packet comes to be checked.                              *)
(***************************************************************************)
StampsAreSpaced == "stamps" \notin torn => Spaced(stamped, RateLimit)

(***************************************************************************)
(* "Will only trigger once every WARN_MAP_FULL_INTERVAL": likewise.        *)
(***************************************************************************)
WarningsAreSpaced == "warnings" \notin torn => Spaced(warned, WarnInterval)

(***************************************************************************)
(* A failure is never kept from the user: it comes with a warning, or less *)
(* than an interval after one, or before one, whatever is torn.            *)
(***************************************************************************)
FailuresAreWarned ==
  \A t \in failed : \E w \in warned : t < w + WarnInterval

(***************************************************************************)
(* An RTT event tells of the packet that was answered: its RTT is a time   *)
(* that has passed, never a wrapped difference, and lies between the two   *)
(* times it gives, but for an event whose element was used for another     *)
(* packet after the lookup.                                                *)
(***************************************************************************)
RttsHavePassed ==
  latest # None /\ latest.what = "rtt" =>
    \/ latest.reused
    \/ /\ latest.own
       /\ latest.rtt <= latest.now
       /\ latest.rtt = latest.now - latest.time

(***************************************************************************)
(* The cleaner forgets only what is older than its lifetime, but for a     *)
(* timestamp whose element was used again while it was being looked at.    *)
(***************************************************************************)
ForgottenIsOld ==
  latest # None =>
    /\ latest.what = "flow" => latest.now - latest.time > FlowLife
    /\ latest.what = "timestamp" /\ ~ latest.reused =>
         latest.now - latest.time > TimestampLife
=============================================================================
