----------------------------- MODULE ClockProofs ----------------------------
(* Theorems about PPingClocks, for any number of CPUs and any lifetimes. *)
EXTENDS PPingClocks, TLAPS

(* A difference of two times does not wrap if the later one comes first. *)
LEMMA MinusIsDifference ==
  ASSUME NEW a \in Clock, NEW b \in Clock, b <= a
  PROVE  Minus(a, b) = a - b /\ a - b \in Clock
<1>1. a - b \in Clock
  BY ClockAssumption DEF Clock
<1>2. \A w \in Nat : \A d \in 0 .. w - 1 : d % w = d
  OBVIOUS
<1>3. a - b \in 0 .. W - 1
  BY <1>1, ClockAssumption DEF Clock
<1> QED
  BY <1>1, <1>2, <1>3, ClockAssumption DEF Minus

LEMMA MinusFits ==
  ASSUME NEW a \in Clock, NEW b \in Clock
  PROVE  Minus(a, b) \in 0 .. W - 1
<1>1. W \in Nat /\ W > 0 /\ a - b \in Int
  BY ClockAssumption DEF Clock
<1> QED
  BY <1>1 DEF Minus

-----------------------------------------------------------------------------
(* Types *)

LEMMA Times == 0 \in Clock /\ WarnInterval \in Clock /\ None \notin Clock
BY ClockAssumption DEF Clock

LEMMA InitTypes == Init => TypeOK
<1> SUFFICES ASSUME Init PROVE TypeOK
  OBVIOUS
<1>1. mem \in [Slots -> Element]
  BY DEF Init
<1>2. handler \in [CPUs -> Handler] /\ cleaner \in Cleaner
  BY DEF Init, Handler, Cleaner, Idle
<1> QED
  BY <1>1, <1>2, Times DEF Init, TypeOK, Latest

(* What a program has in its variables at each step. *)
LEMMA HandlerFields ==
  ASSUME TypeOK, NEW c \in CPUs
  PROVE  /\ handler[c].at # "idle" => handler[c].time \in Clock
         /\ handler[c].at \in {"find", "match", "check", "insert", "warn"} =>
              handler[c] \in [at : {"find", "match", "check", "insert", "warn"},
                              id : Ids, time : Clock]
         /\ handler[c].at = "stamp" =>
              handler[c] \in [at : {"stamp"}, id : Ids, time : Clock, seen : Flow]
         /\ handler[c].at = "send" =>
              handler[c] \in [at : {"send"}, time : Clock, seen : Clock]
         /\ handler[c].at \in {"early", "rtt"} =>
              handler[c] \in [at : {"early", "rtt"}, id : Ids, time : Clock,
                              elem : Slots, reused : BOOLEAN]
         /\ handler[c].at \in {"delete", "report"} =>
              handler[c] \in [at : {"delete", "report"}, id : Ids, time : Clock,
                              elem : Slots, rtt : 0 .. W - 1, reused : BOOLEAN]
<1>1. handler[c] \in Handler
  BY DEF TypeOK
<1> QED
  BY <1>1 DEF Handler

LEMMA IdleType == Idle \in Handler /\ Idle \in Cleaner
BY DEF Idle, Handler, Cleaner

LEMMA StampingTypes ==
  ASSUME TypeOK, NEW c \in CPUs,
         \/ \E id \in Ids : parse(c, id)
         \/ lookup_or_create_dualflow_state(c)
         \/ check_rate(c) \/ store_timestamp(c)
  PROVE  TypeOK'
<1> USE HandlerFields, IdleType
    DEF TypeOK, flow, packet_ts, history, Flow, At, Goto, Leave
<1>1. ASSUME NEW id \in Ids, parse(c, id) PROVE TypeOK'
  <2>1. \A l \in {"find", "match"} :
          [at |-> l, id |-> id, time |-> clock] \in Handler
    BY DEF Handler
  <2>2. latest' \in Latest
    BY <1>1 DEF parse, Latest
  <2> QED
    BY <1>1, <2>1, <2>2 DEF parse
<1>2. CASE lookup_or_create_dualflow_state(c)
  <2>1. [handler[c] EXCEPT !.at = "check"] \in Handler
    BY <1>2 DEF lookup_or_create_dualflow_state, Handler
  <2>2. handler' \in [CPUs -> Handler]
    BY <1>2, <2>1 DEF lookup_or_create_dualflow_state
  <2>3. last_timestamp' \in Clock \union {None} /\ has_been_timestamped' \in BOOLEAN
    <3>1. handler[c].time \in Clock
      BY <1>2 DEF lookup_or_create_dualflow_state
    <3>2. CASE last_timestamp = None
      BY <1>2, <3>1, <3>2 DEF lookup_or_create_dualflow_state
    <3>3. CASE last_timestamp # None
      BY <1>2, <3>3 DEF lookup_or_create_dualflow_state
    <3> QED
      BY <3>2, <3>3
  <2> QED
    BY <1>2, <2>2, <2>3 DEF lookup_or_create_dualflow_state
<1>3. CASE check_rate(c)
  <2>1. [at |-> "stamp", id |-> handler[c].id, time |-> handler[c].time,
         seen |-> flow] \in Handler
    BY <1>3 DEF check_rate, Handler
  <2> QED
    BY <1>3, <2>1 DEF check_rate
<1>4. CASE store_timestamp(c)
  <2>1. [at |-> "insert", id |-> handler[c].id, time |-> handler[c].time] \in Handler
    BY <1>4 DEF store_timestamp, Handler
  <2>2. last_timestamp' \in Clock \union {None} /\ stamped' \subseteq Clock
    BY <1>4 DEF store_timestamp
  <2>3. torn' \subseteq {"stamps", "warnings"}
    BY <1>4 DEF store_timestamp
  <2> QED
    BY <1>4, <2>1, <2>2, <2>3 DEF store_timestamp
<1> QED
  BY <1>1, <1>2, <1>3, <1>4

LEMMA InsertTypes ==
  ASSUME TypeOK, NEW c \in CPUs, insert_timestamp(c)
  PROVE  TypeOK'
<1> USE HandlerFields, IdleType DEF TypeOK, flow, history, At, Goto, Leave
<1>1. UNCHANGED <<clock, flow, last_warn_time, history>>
  BY DEF insert_timestamp
<1>2. CASE \E s \in Slots \ live :
             /\ mem' = [mem EXCEPT ![s] = [id |-> handler[c].id,
                                          time |-> handler[c].time]]
             /\ live' = live \union {s}
             /\ cleaner' = IF Holds(cleaner, s)
                             THEN [cleaner EXCEPT !.reused = TRUE] ELSE cleaner
             /\ handler' = [d \in CPUs |->
                  IF d = c THEN Idle
                  ELSE IF Holds(handler[d], s)
                    THEN [handler[d] EXCEPT !.reused = TRUE] ELSE handler[d]]
  <2> PICK s \in Slots \ live :
             /\ mem' = [mem EXCEPT ![s] = [id |-> handler[c].id,
                                          time |-> handler[c].time]]
             /\ live' = live \union {s}
             /\ cleaner' = IF Holds(cleaner, s)
                             THEN [cleaner EXCEPT !.reused = TRUE] ELSE cleaner
             /\ handler' = [d \in CPUs |->
                  IF d = c THEN Idle
                  ELSE IF Holds(handler[d], s)
                    THEN [handler[d] EXCEPT !.reused = TRUE] ELSE handler[d]]
    BY <1>2
  <2>1. [id |-> handler[c].id, time |-> handler[c].time] \in Element
    BY DEF insert_timestamp, Element
  <2>2. ASSUME NEW d \in CPUs, Holds(handler[d], s)
        PROVE  [handler[d] EXCEPT !.reused = TRUE] \in Handler
    <3>1. CASE handler[d].at \in {"delete", "report"}
      <4>1. handler[d] \in [at : {"delete", "report"}, id : Ids, time : Clock,
                            elem : Slots, rtt : 0 .. W - 1, reused : BOOLEAN]
        BY <3>1
      <4> QED
        BY <4>1 DEF Handler
    <3>2. CASE handler[d].at \in {"early", "rtt"}
      <4>1. handler[d] \in [at : {"early", "rtt"}, id : Ids, time : Clock,
                            elem : Slots, reused : BOOLEAN]
        BY <3>2
      <4> QED
        BY <4>1 DEF Handler
    <3>3. CASE handler[d].at = "ts_age"
      BY <3>3 DEF Handler
    <3> QED
      BY <2>2, <3>1, <3>2, <3>3 DEF Holds, Answering
  <2>3. ASSUME Holds(cleaner, s)
        PROVE  [cleaner EXCEPT !.reused = TRUE] \in Cleaner
    BY <2>3 DEF Holds, Answering, Cleaner
  <2> QED
    BY <1>1, <2>1, <2>2, <2>3
<1>3. CASE Goto(c, "warn") /\ UNCHANGED <<packet_ts, cleaner>>
  <2>1. [handler[c] EXCEPT !.at = "warn"] \in Handler
    BY DEF insert_timestamp, Handler
  <2> QED
    BY <1>1, <1>3, <2>1 DEF packet_ts
<1> QED
  BY <1>2, <1>3 DEF insert_timestamp

LEMMA WarningTypes ==
  ASSUME TypeOK, NEW c \in CPUs, check_warning(c) \/ send_warning(c)
  PROVE  TypeOK'
<1> USE HandlerFields, IdleType DEF TypeOK, flow, packet_ts, At, Goto, Leave
<1>1. CASE check_warning(c)
  <2>1. [at |-> "send", time |-> handler[c].time, seen |-> last_warn_time] \in Handler
    BY <1>1 DEF check_warning, Handler
  <2>2. failed' \subseteq Clock
    BY <1>1 DEF check_warning
  <2>3. handler' \in [CPUs -> Handler]
    BY <1>1, <2>1 DEF check_warning
  <2> QED
    BY <1>1, <2>2, <2>3 DEF check_warning
<1>2. CASE send_warning(c)
  BY <1>2 DEF send_warning
<1> QED
  BY <1>1, <1>2

LEMMA MatchTypes ==
  ASSUME TypeOK, NEW c \in CPUs,
         \/ match(c) \/ check_answer(c) \/ compute_rtt(c)
         \/ delete_timestamp(c) \/ send_rtt_event_mark(c)
  PROVE  TypeOK'
<1> USE HandlerFields, IdleType DEF TypeOK, flow, packet_ts, history, At, Goto, Leave
<1>1. CASE match(c)
  <2>1. ASSUME NEW s \in live
        PROVE  [at |-> "early", id |-> handler[c].id, time |-> handler[c].time,
                elem |-> s, reused |-> FALSE] \in Handler
    BY <1>1 DEF match, Handler
  <2>2. handler' \in [CPUs -> Handler]
    BY <1>1, <2>1 DEF match
  <2> QED
    BY <1>1, <2>2 DEF match
<1>2. CASE check_answer(c)
  <2>1. [handler[c] EXCEPT !.at = "rtt"] \in Handler
    BY <1>2 DEF check_answer, Handler
  <2> QED
    BY <1>2, <2>1 DEF check_answer
<1>3. CASE compute_rtt(c)
  <2>1. Minus(handler[c].time, mem[handler[c].elem].time) \in 0 .. W - 1
    BY <1>3, MinusFits DEF compute_rtt, Element
  <2>2. [at |-> "delete", id |-> handler[c].id, time |-> handler[c].time,
         elem |-> handler[c].elem,
         rtt |-> Minus(handler[c].time, mem[handler[c].elem].time),
         reused |-> handler[c].reused] \in Handler
    BY <1>3, <2>1 DEF compute_rtt, Handler
  <2> QED
    BY <1>3, <2>2 DEF compute_rtt
<1>4. CASE delete_timestamp(c)
  <2>1. [handler[c] EXCEPT !.at = "report"] \in Handler
    BY <1>4 DEF delete_timestamp, Handler
  <2> QED
    BY <1>4, <2>1 DEF delete_timestamp
<1>5. CASE send_rtt_event_mark(c)
  <2>1. latest' \in Latest
    BY <1>5 DEF send_rtt_event_mark, Latest, Element
  <2> QED
    BY <1>5, <2>1 DEF send_rtt_event_mark
<1> QED
  BY <1>1, <1>2, <1>3, <1>4, <1>5

LEMMA CleaningTypes ==
  ASSUME TypeOK,
         \/ tsmap_cleanup \/ check_element \/ expire_element
         \/ flowmap_cleanup \/ copy_timestamp \/ expire_flow \/ Tick
  PROVE  TypeOK'
<1> USE IdleType DEF TypeOK, flow, packet_ts, history
<1>1. CASE tsmap_cleanup
  BY <1>1 DEF tsmap_cleanup, Cleaner
<1>2. CASE check_element
  BY <1>2 DEF check_element, Cleaner
<1>3. CASE expire_element
  <2>1. cleaner.elem \in Slots /\ cleaner.now \in Clock /\ cleaner.reused \in BOOLEAN
    BY <1>3 DEF expire_element, Cleaner
  <2>2. latest' \in Latest
    BY <1>3, <2>1 DEF expire_element, Latest, Element
  <2>3. live' \subseteq Slots
    BY <1>3 DEF expire_element
  <2> QED
    BY <1>3, <2>2, <2>3 DEF expire_element
<1>4. CASE flowmap_cleanup
  BY <1>4 DEF flowmap_cleanup, Cleaner
<1>5. CASE copy_timestamp
  BY <1>5 DEF copy_timestamp, Cleaner
<1>6. CASE expire_flow
  <2>1. cleaner.now \in Clock /\ cleaner.ts \in Clock
    BY <1>6 DEF expire_flow, Cleaner
  <2>2. latest' \in Latest
    BY <1>6, <2>1 DEF expire_flow, Latest
  <2> QED
    BY <1>6, <2>2 DEF expire_flow
<1>7. CASE Tick
  BY <1>7, ClockAssumption DEF Tick, Clock
<1> QED
  BY <1>1, <1>2, <1>3, <1>4, <1>5, <1>6, <1>7

LEMMA TypesStay == TypeOK /\ [Next]_vars => TypeOK'
<1> SUFFICES ASSUME TypeOK, [Next]_vars PROVE TypeOK'
  OBVIOUS
<1>1. CASE UNCHANGED vars
  BY <1>1 DEF TypeOK, vars, flow, packet_ts, history
<1>2. CASE Next
  BY <1>2, StampingTypes, InsertTypes, WarningTypes, MatchTypes, CleaningTypes DEF Next
<1> QED
  BY <1>1, <1>2

(***************************************************************************)
(* Every variable keeps its type.  An RTT is some __u64: whether it is     *)
(* true is the matter of RttsAreTrue.                                      *)
(***************************************************************************)
THEOREM ClockTypes == Spec => []TypeOK
BY InitTypes, TypesStay, PTL DEF Spec

-----------------------------------------------------------------------------
(* What the step of one program leaves to the others. *)

LEMMA InsertKeeps ==
  ASSUME TypeOK, NEW c \in CPUs, insert_timestamp(c), NEW d \in CPUs
  PROVE  \/ handler'[d] = handler[d]
         \/ d = c /\ handler'[d] = Idle
         \/ /\ d = c /\ handler[d].at # "idle"
            /\ handler'[d].at = "warn" /\ handler'[d].time = handler[d].time
         \/ /\ handler[d].at \in Answering
            /\ handler'[d].at = handler[d].at
            /\ handler'[d].time = handler[d].time
<1> USE DEF At, Goto, Leave
<1>1. CASE handler' = [handler EXCEPT ![c].at = "warn"]
  BY <1>1, HandlerFields DEF insert_timestamp, TypeOK
<1>2. ASSUME NEW s \in Slots,
             handler' = [e \in CPUs |->
               IF e = c THEN Idle
               ELSE IF Holds(handler[e], s)
                 THEN [handler[e] EXCEPT !.reused = TRUE] ELSE handler[e]],
             d # c, Holds(handler[d], s)
      PROVE  /\ handler[d].at \in Answering
             /\ handler'[d].at = handler[d].at
             /\ handler'[d].time = handler[d].time
  <2>1. handler[d].at \in Answering
    BY <1>2 DEF Holds, TypeOK, Handler
  <2>2. handler'[d] = [handler[d] EXCEPT !.reused = TRUE]
    BY <1>2
  <2> QED
    BY <2>1, <2>2, HandlerFields DEF Answering
<1>3. \/ handler' = [handler EXCEPT ![c].at = "warn"]
      \/ \E s \in Slots :
           handler' = [e \in CPUs |->
             IF e = c THEN Idle
             ELSE IF Holds(handler[e], s)
               THEN [handler[e] EXCEPT !.reused = TRUE] ELSE handler[e]]
  BY DEF insert_timestamp
<1> QED
  BY <1>1, <1>2, <1>3

LEMMA TimesAreKept ==
  ASSUME TypeOK, Next, NEW d \in CPUs, handler'[d].at # "idle"
  PROVE  \/ handler'[d].time = clock
         \/ handler[d].at # "idle" /\ handler'[d].time = handler[d].time
<1> USE HandlerFields DEF TypeOK, At, Goto, Leave, Idle
<1>1. ASSUME NEW c \in CPUs, NEW id \in Ids, parse(c, id)
      PROVE  \/ handler'[d].time = clock
             \/ handler[d].at # "idle" /\ handler'[d].time = handler[d].time
  BY <1>1 DEF parse
<1>2. ASSUME NEW c \in CPUs,
             \/ lookup_or_create_dualflow_state(c) \/ check_rate(c)
             \/ store_timestamp(c) \/ check_warning(c) \/ send_warning(c)
             \/ match(c) \/ check_answer(c) \/ compute_rtt(c)
             \/ delete_timestamp(c) \/ send_rtt_event_mark(c)
      PROVE  handler[d].at # "idle" /\ handler'[d].time = handler[d].time
  <2>1. CASE lookup_or_create_dualflow_state(c) \/ check_rate(c) \/ store_timestamp(c)
    BY <2>1 DEF lookup_or_create_dualflow_state, check_rate, store_timestamp
  <2>2. CASE check_warning(c) \/ send_warning(c)
    BY <2>2 DEF check_warning, send_warning
  <2>3. CASE match(c) \/ check_answer(c) \/ compute_rtt(c)
    BY <2>3 DEF match, check_answer, compute_rtt
  <2>4. CASE delete_timestamp(c) \/ send_rtt_event_mark(c)
    BY <2>4 DEF delete_timestamp, send_rtt_event_mark
  <2> QED
    BY <1>2, <2>1, <2>2, <2>3, <2>4
<1>3. ASSUME NEW c \in CPUs, insert_timestamp(c)
      PROVE  handler[d].at # "idle" /\ handler'[d].time = handler[d].time
  <2>1. handler[c].at = "insert"
    BY <1>3 DEF insert_timestamp
  <2>2. \/ handler'[d] = handler[d]
        \/ handler'[d].at = "idle"
        \/ d = c /\ handler'[d].time = handler[d].time
        \/ /\ handler[d].at \in Answering
           /\ handler'[d].time = handler[d].time
    <3> HIDE HandlerFields DEF TypeOK, At, Goto, Leave
    <3> QED
      BY <1>3, InsertKeeps DEF Idle
  <2> QED
    BY <2>1, <2>2 DEF Answering
<1>4. CASE \/ tsmap_cleanup \/ check_element \/ expire_element
           \/ flowmap_cleanup \/ copy_timestamp \/ expire_flow \/ Tick
  BY <1>4 DEF tsmap_cleanup, check_element, expire_element,
              flowmap_cleanup, copy_timestamp, expire_flow, Tick
<1> QED
  BY <1>1, <1>2, <1>3, <1>4 DEF Next

(* Whoever is about to store has checked, now or before. *)
LEMMA ChecksAreKept ==
  ASSUME TypeOK, Next, NEW d \in CPUs, handler'[d].at \in {"stamp", "send"}
  PROVE  \/ handler'[d] = handler[d]
         \/ check_rate(d) /\ handler'[d].at = "stamp"
         \/ check_warning(d) /\ handler'[d].at = "send"
<1> USE HandlerFields DEF TypeOK, At, Goto, Leave, Idle
<1> DEFINE Kept == \/ handler'[d] = handler[d]
                   \/ check_rate(d) /\ handler'[d].at = "stamp"
                   \/ check_warning(d) /\ handler'[d].at = "send"
<1>1. ASSUME NEW c \in CPUs, NEW id \in Ids, parse(c, id) PROVE Kept
  BY <1>1 DEF parse
<1>2. ASSUME NEW c \in CPUs,
             \/ lookup_or_create_dualflow_state(c) \/ store_timestamp(c)
             \/ send_warning(c)
             \/ match(c) \/ check_answer(c) \/ compute_rtt(c)
             \/ delete_timestamp(c) \/ send_rtt_event_mark(c)
      PROVE  Kept
  <2>1. CASE \/ lookup_or_create_dualflow_state(c) \/ store_timestamp(c)
             \/ send_warning(c)
    BY <2>1 DEF lookup_or_create_dualflow_state, store_timestamp, send_warning
  <2>2. CASE match(c) \/ check_answer(c) \/ compute_rtt(c)
    BY <2>2 DEF match, check_answer, compute_rtt
  <2>3. CASE delete_timestamp(c) \/ send_rtt_event_mark(c)
    BY <2>3 DEF delete_timestamp, send_rtt_event_mark
  <2> QED
    BY <1>2, <2>1, <2>2, <2>3
<1>3. ASSUME NEW c \in CPUs, check_rate(c) PROVE Kept
  <2>1. CASE c = d
    BY <1>3, <2>1 DEF check_rate
  <2>2. CASE c # d
    BY <1>3, <2>2 DEF check_rate
  <2> QED
    BY <2>1, <2>2
<1>4. ASSUME NEW c \in CPUs, check_warning(c) PROVE Kept
  <2>1. CASE c = d
    BY <1>4, <2>1 DEF check_warning
  <2>2. CASE c # d
    BY <1>4, <2>2 DEF check_warning
  <2> QED
    BY <2>1, <2>2
<1>5. ASSUME NEW c \in CPUs, insert_timestamp(c) PROVE Kept
  <2>1. \/ handler'[d] = handler[d]
        \/ handler'[d].at = "idle" \/ handler'[d].at = "warn"
        \/ handler'[d].at \in Answering
    <3> HIDE HandlerFields DEF TypeOK, At, Goto, Leave
    <3> QED
      BY <1>5, InsertKeeps DEF Idle
  <2> QED
    BY <2>1 DEF Answering
<1>6. CASE \/ tsmap_cleanup \/ check_element \/ expire_element
           \/ flowmap_cleanup \/ copy_timestamp \/ expire_flow \/ Tick
  BY <1>6 DEF tsmap_cleanup, check_element, expire_element,
              flowmap_cleanup, copy_timestamp, expire_flow, Tick
<1> QED
  BY <1>1, <1>2, <1>3, <1>4, <1>5, <1>6 DEF Next

-----------------------------------------------------------------------------
(* Warnings *)

WarningInv ==
  /\ clock >= WarnInterval
  /\ \A c \in CPUs : handler[c].at # "idle" => handler[c].time >= WarnInterval
  /\ last_warn_time \in warned \union {0}
  /\ FailuresAreWarned
  /\ \A c \in CPUs : handler[c].at = "send" =>
       /\ handler[c].seen <= handler[c].time
       /\ handler[c].time - handler[c].seen >= WarnInterval
  /\ "warnings" \notin torn =>
       /\ Spaced(warned, WarnInterval)
       /\ \A w \in warned : w <= last_warn_time

LEMMA InitWarnings == Init => WarningInv
BY ClockAssumption DEF Init, WarningInv, FailuresAreWarned, Spaced, Idle, Clock

(* A warning that is not due comes less than an interval after the last. *)
LEMMA WarnedBefore ==
  ASSUME NEW now \in Clock, TypeOK
  PROVE  IsWarned(now) <=> now < last_warn_time + WarnInterval
<1>1. last_warn_time \in Clock
  BY DEF TypeOK
<1>2. CASE now < last_warn_time
  BY <1>1, <1>2, ClockAssumption DEF IsWarned, Clock
<1>3. CASE last_warn_time <= now
  BY <1>1, <1>3, MinusIsDifference, ClockAssumption DEF IsWarned, Clock
<1> QED
  BY <1>1, <1>2, <1>3 DEF Clock

LEMMA WarningsStay == TypeOK /\ WarningInv /\ [Next]_vars => WarningInv'
<1> SUFFICES ASSUME TypeOK, WarningInv, [Next]_vars PROVE WarningInv'
  OBVIOUS
<1>1. CASE UNCHANGED vars
  BY <1>1 DEF WarningInv, FailuresAreWarned, Spaced, vars, flow, packet_ts, history
<1>2. CASE Next
  <2> USE <1>2
  <2>1. clock' >= WarnInterval
    <3>1. clock' \in {clock, clock + 1}
      BY DEF Next, parse, lookup_or_create_dualflow_state, check_rate,
             store_timestamp, insert_timestamp, check_warning, send_warning, match,
             check_answer, compute_rtt, delete_timestamp, send_rtt_event_mark,
             tsmap_cleanup, check_element, expire_element, flowmap_cleanup, copy_timestamp, expire_flow, Tick
    <3> QED
      BY <3>1, ClockAssumption DEF WarningInv, TypeOK, Clock
  <2>2. \A c \in CPUs : handler'[c].at # "idle" => handler'[c].time >= WarnInterval
    BY TimesAreKept DEF WarningInv
  <2>3. \A c \in CPUs : handler'[c].at = "send" =>
          /\ handler'[c].seen <= handler'[c].time
          /\ handler'[c].time - handler'[c].seen >= WarnInterval
    <3> TAKE c \in CPUs
    <3> HAVE handler'[c].at = "send"
    <3>1. CASE handler'[c] = handler[c]
      BY <3>1 DEF WarningInv
    <3>2. CASE check_warning(c)
      <4>1. handler[c].time \in Clock
        BY <3>2, HandlerFields DEF check_warning, At
      <4>2. ~ IsWarned(handler[c].time)
        BY <3>2 DEF check_warning, Leave, Idle, TypeOK
      <4>3. handler'[c].time = handler[c].time /\ handler'[c].seen = last_warn_time
        BY <3>2, <4>2 DEF check_warning, TypeOK
      <4>4. last_warn_time \in Clock
        BY DEF TypeOK
      <4> QED
        BY <4>1, <4>2, <4>3, <4>4, WarnedBefore, ClockAssumption DEF Clock
    <3> QED
      BY <3>1, <3>2, ChecksAreKept
  <2>4. /\ (last_warn_time \in warned \union {0})'
        /\ FailuresAreWarned'
        /\ "warnings" \notin torn' =>
             /\ Spaced(warned', WarnInterval)
             /\ \A w \in warned' : w <= last_warn_time'
    <3> DEFINE Goal == /\ (last_warn_time \in warned \union {0})'
                       /\ FailuresAreWarned'
                       /\ "warnings" \notin torn' =>
                            /\ Spaced(warned', WarnInterval)
                            /\ \A w \in warned' : w <= last_warn_time'
               Untouched == /\ last_warn_time' = last_warn_time
                            /\ warned' = warned /\ failed' = failed
                            /\ "warnings" \in torn' <=> "warnings" \in torn
    <3>1. ASSUME NEW c \in CPUs, check_warning(c)
          PROVE  Goal
      <4>1. handler[c].time \in Clock /\ handler[c].time >= WarnInterval
        BY <3>1, HandlerFields DEF check_warning, At, WarningInv
      <4>2. UNCHANGED <<last_warn_time, warned, torn>>
        BY <3>1 DEF check_warning
      <4>3. ASSUME IsWarned(handler[c].time)
            PROVE  \E w \in warned : handler[c].time < w + WarnInterval
        <5>1. handler[c].time < last_warn_time + WarnInterval
          BY <4>1, <4>3, WarnedBefore
        <5>2. last_warn_time # 0
          BY <4>1, <5>1, ClockAssumption DEF Clock
        <5> QED
          BY <5>1, <5>2 DEF WarningInv
      <4>4. FailuresAreWarned'
        BY <3>1, <4>2, <4>3 DEF check_warning, WarningInv, FailuresAreWarned
      <4> QED
        BY <4>2, <4>4 DEF WarningInv
    <3>2. ASSUME NEW c \in CPUs, send_warning(c)
          PROVE  Goal
      <4> DEFINE t == handler[c].time
      <4>1. t \in Clock /\ last_warn_time \in Clock /\ warned \subseteq Clock
        BY <3>2, HandlerFields DEF send_warning, At, TypeOK
      <4>2. /\ last_warn_time' = t /\ warned' = warned \union {t}
            /\ failed' = failed \union {t}
        BY <3>2 DEF send_warning
      <4>3. FailuresAreWarned'
        BY <4>1, <4>2, ClockAssumption DEF FailuresAreWarned, WarningInv, Clock
      <4>4. ASSUME "warnings" \notin torn'
            PROVE  /\ Spaced(warned', WarnInterval)
                   /\ \A w \in warned' : w <= last_warn_time'
        <5>1. "warnings" \notin torn /\ last_warn_time = handler[c].seen
          BY <3>2, <4>4 DEF send_warning
        <5>2. last_warn_time <= t /\ t - last_warn_time >= WarnInterval
          BY <3>2, <5>1 DEF send_warning, At, WarningInv
        <5>3. \A w \in warned : w <= t /\ t - w >= WarnInterval
          BY <4>1, <5>1, <5>2, ClockAssumption DEF WarningInv, Clock
        <5>4. Spaced(warned, WarnInterval)
          BY <5>1 DEF WarningInv
        <5> QED
          BY <4>1, <4>2, <5>3, <5>4, ClockAssumption DEF Spaced, Clock
      <4> QED
        BY <4>2, <4>3, <4>4
    <3>3. ASSUME Untouched PROVE Goal
      BY <3>3 DEF WarningInv, FailuresAreWarned
    <3>4. ASSUME NEW c \in CPUs,
                 \/ \E id \in Ids : parse(c, id)
                 \/ lookup_or_create_dualflow_state(c) \/ check_rate(c)
                 \/ store_timestamp(c) \/ insert_timestamp(c)
          PROVE  Untouched
      BY <3>4 DEF parse, lookup_or_create_dualflow_state, check_rate,
                  store_timestamp, insert_timestamp, history
    <3>5. ASSUME NEW c \in CPUs,
                 \/ match(c) \/ check_answer(c) \/ compute_rtt(c)
                 \/ delete_timestamp(c) \/ send_rtt_event_mark(c)
          PROVE  Untouched
      BY <3>5 DEF match, check_answer, compute_rtt, delete_timestamp,
                  send_rtt_event_mark, history
    <3>6. ASSUME \/ tsmap_cleanup \/ check_element \/ expire_element
                 \/ flowmap_cleanup \/ copy_timestamp \/ expire_flow \/ Tick
          PROVE  Untouched
      BY <3>6 DEF tsmap_cleanup, check_element, expire_element, flowmap_cleanup,
                  copy_timestamp, expire_flow, Tick, history
    <3> HIDE DEF Goal, Untouched
    <3>7. Goal
      BY <3>1, <3>2, <3>3, <3>4, <3>5, <3>6 DEF Next
    <3> QED
      BY <3>7 DEF Goal
  <2> QED
    BY <2>1, <2>2, <2>3, <2>4 DEF WarningInv
<1> QED
  BY <1>1, <1>2

-----------------------------------------------------------------------------
(* The rate limit *)

StampInv ==
  /\ stamped # {} => last_timestamp # None /\ has_been_timestamped
  /\ \A c \in CPUs :
       handler[c].at = "stamp" /\ handler[c].seen[1] # None /\ handler[c].seen[2] =>
         /\ handler[c].seen[1] <= handler[c].time
         /\ handler[c].time - handler[c].seen[1] >= RateLimit
  /\ "stamps" \notin torn =>
       /\ Spaced(stamped, RateLimit)
       /\ \A t \in stamped : t <= last_timestamp

LEMMA InitStamps == Init => StampInv
BY DEF Init, StampInv, Spaced, Idle

LEMMA StampsStay == TypeOK /\ StampInv /\ [Next]_vars => StampInv'
<1> SUFFICES ASSUME TypeOK, StampInv, [Next]_vars PROVE StampInv'
  OBVIOUS
<1>1. CASE UNCHANGED vars
  BY <1>1 DEF StampInv, Spaced, vars, flow, packet_ts, history
<1>2. CASE Next
  <2>1. ASSUME NEW c \in CPUs, handler'[c].at = "stamp",
               handler'[c].seen[1] # None, handler'[c].seen[2]
        PROVE  /\ handler'[c].seen[1] <= handler'[c].time
               /\ handler'[c].time - handler'[c].seen[1] >= RateLimit
    <3>1. CASE handler'[c] = handler[c]
      BY <2>1, <3>1 DEF StampInv
    <3>2. CASE check_rate(c)
      <4>1. /\ handler'[c].time = handler[c].time
            /\ handler'[c].seen = <<last_timestamp, has_been_timestamped>>
            /\ \/ last_timestamp = None \/ ~ has_been_timestamped
               \/ ~ is_rate_limited(handler[c].time, last_timestamp)
        BY <2>1, <3>2 DEF check_rate, Leave, Idle, flow, TypeOK
      <4>2. /\ last_timestamp \in Clock /\ handler[c].time \in Clock
            /\ ~ is_rate_limited(handler[c].time, last_timestamp)
        BY <2>1, <3>2, <4>1, HandlerFields DEF TypeOK, check_rate, At
      <4>3. /\ last_timestamp <= handler[c].time
            /\ ~ Minus(handler[c].time, last_timestamp) < RateLimit
        BY <4>2 DEF is_rate_limited, Clock
      <4>4. handler[c].time - last_timestamp >= RateLimit
        BY <4>2, <4>3, MinusIsDifference, ClockAssumption DEF Clock
      <4> QED
        BY <4>1, <4>3, <4>4
    <3> QED
      BY <1>2, <2>1, <3>1, <3>2, ChecksAreKept
  <2> DEFINE Goal == /\ stamped' # {} => last_timestamp' # None /\ has_been_timestamped'
                     /\ "stamps" \notin torn' =>
                          /\ Spaced(stamped', RateLimit)
                          /\ \A t \in stamped' : t <= last_timestamp'
             Untouched == /\ last_timestamp' = last_timestamp
                          /\ has_been_timestamped' = has_been_timestamped
                          /\ stamped' = stamped
                          /\ "stamps" \in torn' <=> "stamps" \in torn
  <2>2. ASSUME NEW c \in CPUs, store_timestamp(c) PROVE Goal
    <3> DEFINE t == handler[c].time
    <3>1. t \in Clock /\ stamped \subseteq Clock
      BY <2>2, HandlerFields DEF store_timestamp, At, TypeOK
    <3>2. CASE last_timestamp = None
      <4>1. UNCHANGED <<last_timestamp, has_been_timestamped, stamped>> /\ stamped = {}
        BY <2>2, <3>2 DEF store_timestamp, flow, StampInv
      <4> QED
        BY <4>1 DEF Spaced
    <3>3. CASE last_timestamp # None
      <4>1. /\ last_timestamp' = t /\ has_been_timestamped'
            /\ stamped' = stamped \union {t}
        BY <2>2, <3>3 DEF store_timestamp
      <4>2. t # None
        BY <3>1, Times
      <4>3. ASSUME "stamps" \notin torn'
            PROVE  /\ Spaced(stamped', RateLimit)
                   /\ \A u \in stamped' : u <= last_timestamp'
        <5>1. "stamps" \notin torn /\ handler[c].seen = flow
          BY <2>2, <4>3 DEF store_timestamp
        <5>2. last_timestamp \in Clock
          BY <3>3 DEF TypeOK
        <5>3. \A u \in stamped : u <= t /\ t - u >= RateLimit
          <6>1. CASE stamped = {}
            BY <6>1
          <6>2. CASE stamped # {}
            <7>1. last_timestamp <= t /\ t - last_timestamp >= RateLimit
              BY <2>2, <3>3, <5>1, <6>2 DEF store_timestamp, At, StampInv, flow
            <7>2. \A u \in stamped : u <= last_timestamp
              BY <5>1 DEF StampInv
            <7> QED
              BY <3>1, <5>2, <7>1, <7>2, ClockAssumption DEF Clock
          <6> QED
            BY <6>1, <6>2
        <5>4. Spaced(stamped, RateLimit)
          BY <5>1 DEF StampInv
        <5> QED
          BY <3>1, <4>1, <5>3, <5>4, ClockAssumption DEF Spaced, Clock
      <4> QED
        BY <4>1, <4>2, <4>3
    <3> QED
      BY <3>2, <3>3
  <2>3. ASSUME NEW c \in CPUs, lookup_or_create_dualflow_state(c) PROVE Goal
    <3>1. CASE last_timestamp = None
      <4>1. stamped' = {} /\ torn' = torn
        BY <2>3, <3>1 DEF lookup_or_create_dualflow_state, StampInv, history
      <4> QED
        BY <4>1 DEF Spaced
    <3>2. CASE last_timestamp # None
      BY <2>3, <3>2 DEF lookup_or_create_dualflow_state, StampInv, flow, history
    <3> QED
      BY <3>1, <3>2
  <2>4. ASSUME expire_flow PROVE Goal
    BY <2>4 DEF expire_flow, StampInv, Spaced, flow
  <2>5. ASSUME Untouched PROVE Goal
    BY <2>5 DEF StampInv
  <2>6. ASSUME NEW c \in CPUs,
               \/ \E id \in Ids : parse(c, id)
               \/ check_rate(c) \/ insert_timestamp(c)
               \/ check_warning(c) \/ send_warning(c)
        PROVE  Untouched
    BY <2>6 DEF parse, check_rate, insert_timestamp, check_warning, send_warning,
                flow, history
  <2>7. ASSUME NEW c \in CPUs,
               \/ match(c) \/ check_answer(c) \/ compute_rtt(c)
               \/ delete_timestamp(c) \/ send_rtt_event_mark(c)
        PROVE  Untouched
    BY <2>7 DEF match, check_answer, compute_rtt, delete_timestamp,
                send_rtt_event_mark, flow, history
  <2>8. ASSUME \/ tsmap_cleanup \/ check_element \/ expire_element
               \/ flowmap_cleanup \/ copy_timestamp \/ Tick
        PROVE  Untouched
    BY <2>8 DEF tsmap_cleanup, check_element, expire_element, flowmap_cleanup,
                copy_timestamp, Tick, flow, history
  <2> HIDE DEF Goal, Untouched
  <2>9. Goal
    BY <1>2, <2>2, <2>3, <2>4, <2>5, <2>6, <2>7, <2>8 DEF Next
  <2> QED
    BY <2>1, <2>9 DEF Goal, StampInv
<1> QED
  BY <1>1, <1>2

-----------------------------------------------------------------------------
(* RTTs, and what the cleaner forgets *)

(* What an answer knows of its element, until somebody uses it again. *)
KnowsElement(h, e) ==
  /\ e.id = h.id
  /\ h.at \in {"rtt", "delete", "report"} => e.time <= h.time
  /\ h.at \in {"delete", "report"} => h.rtt = h.time - e.time

EventInv ==
  /\ \A c \in CPUs : handler[c].at \in Answering =>
       handler[c].reused \/ KnowsElement(handler[c], mem[handler[c].elem])
  /\ RttsHavePassed

CleanerInv ==
  /\ cleaner.at = "ts_age" => cleaner.reused \/ mem[cleaner.elem].time < cleaner.now
  /\ cleaner.at = "flow_age" => cleaner.ts <= cleaner.now
  /\ ForgottenIsOld

LEMMA InitEvents == Init => EventInv /\ CleanerInv
BY DEF Init, EventInv, RttsHavePassed, CleanerInv, ForgottenIsOld, Idle, Answering

(* An insertion spoils no address but those it marks. *)
LEMMA InsertMarks ==
  ASSUME TypeOK, NEW c \in CPUs, insert_timestamp(c)
  PROVE  /\ \A d \in CPUs :
              handler'[d].at \in Answering =>
                \/ handler'[d].reused
                \/ /\ handler'[d] = handler[d]
                   /\ mem'[handler[d].elem] = mem[handler[d].elem]
         /\ cleaner'.at = cleaner.at
         /\ cleaner.at = "ts_age" =>
              /\ cleaner'.elem = cleaner.elem /\ cleaner'.now = cleaner.now
              /\ \/ cleaner'.reused
                 \/ /\ cleaner'.reused = cleaner.reused
                    /\ mem'[cleaner.elem] = mem[cleaner.elem]
         /\ cleaner.at = "flow_age" => cleaner' = cleaner
<1> DEFINE Marked(s) ==
             /\ mem' = [mem EXCEPT ![s] = [id |-> handler[c].id,
                                          time |-> handler[c].time]]
             /\ cleaner' = IF Holds(cleaner, s)
                             THEN [cleaner EXCEPT !.reused = TRUE] ELSE cleaner
             /\ handler' = [d \in CPUs |->
                  IF d = c THEN Idle
                  ELSE IF Holds(handler[d], s)
                    THEN [handler[d] EXCEPT !.reused = TRUE] ELSE handler[d]]
<1>1. CASE /\ handler' = [handler EXCEPT ![c].at = "warn"]
           /\ UNCHANGED <<packet_ts, cleaner>>
  <2>1. handler'[c].at = "warn"
    BY <1>1, HandlerFields DEF insert_timestamp, At, TypeOK
  <2>2. \A d \in CPUs : d # c => handler'[d] = handler[d]
    BY <1>1 DEF TypeOK
  <2> QED
    BY <1>1, <2>1, <2>2 DEF packet_ts, Answering
<1>2. ASSUME NEW s \in Slots, Marked(s)
      PROVE  /\ \A d \in CPUs :
                  handler'[d].at \in Answering =>
                    \/ handler'[d].reused
                    \/ /\ handler'[d] = handler[d]
                       /\ mem'[handler[d].elem] = mem[handler[d].elem]
             /\ cleaner'.at = cleaner.at
             /\ cleaner.at = "ts_age" =>
                  /\ cleaner'.elem = cleaner.elem /\ cleaner'.now = cleaner.now
                  /\ \/ cleaner'.reused
                     \/ /\ cleaner'.reused = cleaner.reused
                        /\ mem'[cleaner.elem] = mem[cleaner.elem]
             /\ cleaner.at = "flow_age" => cleaner' = cleaner
  <2>1. \A r \in Slots \ {s} : mem'[r] = mem[r]
    BY <1>2 DEF TypeOK
  <2>2. ASSUME NEW d \in CPUs, handler'[d].at \in Answering
        PROVE  \/ handler'[d].reused
               \/ /\ handler'[d] = handler[d]
                  /\ mem'[handler[d].elem] = mem[handler[d].elem]
    <3>1. d # c
      BY <1>2, <2>2 DEF Idle, Answering
    <3>2. CASE Holds(handler[d], s)
      <4>1. handler'[d] = [handler[d] EXCEPT !.reused = TRUE]
        BY <1>2, <3>1, <3>2
      <4>2. handler[d].at \in Answering
        BY <3>2 DEF Holds, TypeOK, Handler
      <4> QED
        BY <4>1, <4>2, HandlerFields DEF Answering
    <3>3. CASE ~ Holds(handler[d], s)
      <4>1. handler'[d] = handler[d]
        BY <1>2, <3>1, <3>3
      <4>2. handler[d].elem # s /\ handler[d].elem \in Slots
        BY <2>2, <3>3, <4>1, HandlerFields DEF Holds, Answering
      <4> QED
        BY <2>1, <4>1, <4>2
    <3> QED
      BY <3>2, <3>3
  <2>3. ASSUME cleaner.at = "ts_age"
        PROVE  /\ cleaner'.at = cleaner.at
               /\ cleaner'.elem = cleaner.elem /\ cleaner'.now = cleaner.now
               /\ \/ cleaner'.reused
                  \/ /\ cleaner'.reused = cleaner.reused
                     /\ mem'[cleaner.elem] = mem[cleaner.elem]
    <3>1. cleaner \in [at : {"ts_age"}, elem : Slots, now : Clock, reused : BOOLEAN]
      BY <2>3 DEF TypeOK, Cleaner
    <3>2. CASE Holds(cleaner, s)
      <4>1. cleaner' = [cleaner EXCEPT !.reused = TRUE]
        BY <1>2, <3>2
      <4> QED
        BY <3>1, <4>1
    <3>3. CASE ~ Holds(cleaner, s)
      <4>1. cleaner' = cleaner
        BY <1>2, <3>3
      <4>2. cleaner.elem # s /\ cleaner.elem \in Slots
        BY <2>3, <3>1, <3>3 DEF Holds
      <4> QED
        BY <2>1, <4>1, <4>2
    <3> QED
      BY <3>2, <3>3
  <2>4. ASSUME cleaner.at # "ts_age" PROVE cleaner' = cleaner
    <3>1. ~ Holds(cleaner, s)
      BY <2>4 DEF Holds, Answering, TypeOK, Cleaner
    <3> QED
      BY <1>2, <3>1
  <2> QED
    BY <2>2, <2>3, <2>4
<1> HIDE DEF Marked
<1>3. \/ /\ handler' = [handler EXCEPT ![c].at = "warn"]
         /\ UNCHANGED <<packet_ts, cleaner>>
      \/ \E s \in Slots : Marked(s)
  BY DEF insert_timestamp, Goto, Leave, Marked
<1> QED
  BY <1>1, <1>2, <1>3

LEMMA EventsStay == TypeOK /\ EventInv /\ [Next]_vars => EventInv'
<1> SUFFICES ASSUME TypeOK, EventInv, [Next]_vars PROVE EventInv'
  OBVIOUS
<1> DEFINE Untouched ==
             /\ mem' = mem /\ latest' \in {latest, None}
             /\ \A d \in CPUs : handler'[d].at \in Answering =>
                  handler'[d] = handler[d]
<1>1. ASSUME Untouched PROVE EventInv'
  BY <1>1 DEF EventInv, RttsHavePassed
<1>2. ASSUME NEW c \in CPUs,
             \/ \E id \in Ids : parse(c, id)
             \/ lookup_or_create_dualflow_state(c) \/ check_rate(c)
             \/ store_timestamp(c)
      PROVE  Untouched
  <2>1. mem' = mem /\ latest' \in {latest, None}
    BY <1>2 DEF parse, lookup_or_create_dualflow_state, check_rate, store_timestamp,
                packet_ts, history
  <2>2. ASSUME NEW d \in CPUs, handler'[d].at \in Answering
        PROVE  handler'[d] = handler[d]
    BY <1>2, <2>2, HandlerFields
    DEF parse, lookup_or_create_dualflow_state, check_rate, store_timestamp,
        At, Goto, Leave, Idle, TypeOK, Answering
  <2> QED
    BY <2>1, <2>2
<1>3. ASSUME NEW c \in CPUs, check_warning(c) \/ send_warning(c) PROVE Untouched
  BY <1>3, HandlerFields
  DEF check_warning, send_warning, At, Leave, Idle, TypeOK, packet_ts, Answering
<1>4. ASSUME NEW c \in CPUs, insert_timestamp(c) PROVE EventInv'
  <2>1. latest' = latest
    BY <1>4 DEF insert_timestamp, history
  <2> QED
    BY <1>4, <2>1, InsertMarks DEF EventInv, RttsHavePassed
<1>5. ASSUME NEW c \in CPUs,
             match(c) \/ check_answer(c) \/ compute_rtt(c) \/ delete_timestamp(c)
      PROVE  EventInv'
  <2>1. mem' = mem /\ latest' = latest
    BY <1>5 DEF match, check_answer, compute_rtt, delete_timestamp, packet_ts, history
  <2>2. ASSUME NEW d \in CPUs, d # c PROVE handler'[d] = handler[d]
    BY <1>5, <2>2
    DEF match, check_answer, compute_rtt, delete_timestamp, Goto, Leave, TypeOK
  <2>3. ASSUME handler'[c].at \in Answering
        PROVE  handler'[c].reused \/ KnowsElement(handler'[c], mem[handler'[c].elem])
    <3>1. CASE match(c)
      <4>1. PICK s \in live :
              /\ mem[s].id = handler[c].id
              /\ handler' = [handler EXCEPT ![c] =
                   [at |-> "early", id |-> handler[c].id, time |-> handler[c].time,
                    elem |-> s, reused |-> FALSE]]
        BY <2>3, <3>1 DEF match, Leave, Idle, TypeOK, Answering
      <4>2. /\ handler'[c].at = "early" /\ handler'[c].elem = s
            /\ handler'[c].id = handler[c].id
        BY <4>1 DEF TypeOK
      <4> QED
        BY <4>1, <4>2 DEF KnowsElement
    <3>2. CASE check_answer(c)
      <4>1. /\ handler[c] \in [at : {"early", "rtt"}, id : Ids, time : Clock,
                               elem : Slots, reused : BOOLEAN]
            /\ handler[c].at = "early"
        BY <3>2, HandlerFields DEF check_answer, At
      <4>2. /\ Answers(handler[c].time, mem[handler[c].elem].time)
            /\ handler'[c] = [handler[c] EXCEPT !.at = "rtt"]
        BY <2>3, <3>2 DEF check_answer, Goto, Leave, Idle, TypeOK, Answering
      <4>3. /\ handler'[c].at = "rtt" /\ handler'[c].elem = handler[c].elem
            /\ handler'[c].id = handler[c].id /\ handler'[c].time = handler[c].time
            /\ handler'[c].reused = handler[c].reused
        BY <4>1, <4>2
      <4>4. handler[c].reused \/ KnowsElement(handler[c], mem[handler[c].elem])
        BY <4>1 DEF EventInv, Answering
      <4>5. handler[c].time \in Clock /\ mem[handler[c].elem].time \in Clock
        BY <4>1 DEF TypeOK, Element
      <4> QED
        BY <4>2, <4>3, <4>4, <4>5 DEF KnowsElement, Answers, Clock
    <3>3. CASE compute_rtt(c)
      <4> DEFINE e == mem[handler[c].elem]
      <4>1. /\ handler[c] \in [at : {"early", "rtt"}, id : Ids, time : Clock,
                               elem : Slots, reused : BOOLEAN]
            /\ handler[c].at = "rtt"
        BY <3>3, HandlerFields DEF compute_rtt, At
      <4>2. /\ handler'[c].at = "delete" /\ handler'[c].elem = handler[c].elem
            /\ handler'[c].id = handler[c].id /\ handler'[c].time = handler[c].time
            /\ handler'[c].rtt = Minus(handler[c].time, e.time)
            /\ handler'[c].reused = handler[c].reused
        BY <3>3 DEF compute_rtt, TypeOK
      <4>3. handler[c].reused \/ KnowsElement(handler[c], e)
        BY <4>1 DEF EventInv, Answering
      <4>4. handler[c].time \in Clock /\ e.time \in Clock
        BY <4>1 DEF TypeOK, Element
      <4>5. ASSUME KnowsElement(handler[c], e)
            PROVE  KnowsElement(handler'[c], e)
        <5>1. e.time <= handler[c].time /\ e.id = handler[c].id
          BY <4>1, <4>5 DEF KnowsElement
        <5>2. Minus(handler[c].time, e.time) = handler[c].time - e.time
          BY <4>4, <5>1, MinusIsDifference
        <5> QED
          BY <4>2, <5>1, <5>2 DEF KnowsElement
      <4> QED
        BY <4>2, <4>3, <4>5
    <3>4. CASE delete_timestamp(c)
      <4>1. /\ handler[c].at = "delete" /\ handler'[c].id = handler[c].id
            /\ handler'[c].rtt = handler[c].rtt /\ handler'[c].time = handler[c].time
            /\ handler'[c].elem = handler[c].elem
            /\ handler'[c].reused = handler[c].reused
        BY <3>4, HandlerFields DEF delete_timestamp, At, Goto, TypeOK
      <4>2. handler[c].reused \/ KnowsElement(handler[c], mem[handler[c].elem])
        BY <4>1 DEF EventInv, Answering
      <4> QED
        BY <4>1, <4>2 DEF KnowsElement
    <3> QED
      BY <1>5, <3>1, <3>2, <3>3, <3>4
  <2> QED
    BY <2>1, <2>2, <2>3 DEF EventInv, RttsHavePassed
<1>6. ASSUME NEW c \in CPUs, send_rtt_event_mark(c) PROVE EventInv'
  <2>1. mem' = mem
    BY <1>6 DEF send_rtt_event_mark, packet_ts
  <2>2. \A d \in CPUs : handler'[d] = handler[d] \/ handler'[d].at = "idle"
    BY <1>6 DEF send_rtt_event_mark, Leave, Idle, TypeOK
  <2>3. /\ handler[c].time \in Clock /\ mem[handler[c].elem].time \in Clock
        /\ handler[c].at = "report"
    BY <1>6, HandlerFields DEF send_rtt_event_mark, At, TypeOK, Element
  <2>4. handler[c].reused \/ KnowsElement(handler[c], mem[handler[c].elem])
    BY <2>3 DEF EventInv, Answering
  <2>5. RttsHavePassed'
    <3> DEFINE h == handler[c]
               e == mem[h.elem]
    <3>1. /\ latest'.reused = h.reused /\ latest'.own = (e.id = h.id)
          /\ latest'.rtt = h.rtt /\ latest'.now = h.time /\ latest'.time = e.time
      BY <1>6 DEF send_rtt_event_mark
    <3>2. h.reused \/ (e.id = h.id /\ e.time <= h.time /\ h.rtt = h.time - e.time)
      BY <2>3, <2>4 DEF KnowsElement
    <3>3. ~ h.reused => h.rtt <= h.time
      BY <2>3, <3>2 DEF Clock
    <3> HIDE DEF h, e
    <3> QED
      BY <3>1, <3>2, <3>3 DEF RttsHavePassed
  <2> QED
    BY <2>1, <2>2, <2>5 DEF EventInv, Answering
<1>7. ASSUME tsmap_cleanup \/ check_element \/ flowmap_cleanup \/ copy_timestamp \/ Tick
      PROVE  Untouched
  BY <1>7 DEF tsmap_cleanup, check_element, flowmap_cleanup, copy_timestamp, Tick,
              packet_ts, history
<1>8. ASSUME expire_element \/ expire_flow PROVE EventInv'
  BY <1>8 DEF expire_element, expire_flow, EventInv, RttsHavePassed, packet_ts
<1>9. ASSUME UNCHANGED vars PROVE Untouched
  BY <1>9 DEF vars, packet_ts, history
<1> HIDE DEF Untouched
<1> QED
  BY <1>1, <1>2, <1>3, <1>4, <1>5, <1>6, <1>7, <1>8, <1>9 DEF Next

LEMMA CleanerStays == TypeOK /\ CleanerInv /\ [Next]_vars => CleanerInv'
<1> SUFFICES ASSUME TypeOK, CleanerInv, [Next]_vars PROVE CleanerInv'
  OBVIOUS
<1> DEFINE Untouched == mem' = mem /\ latest' \in {latest, None} /\ cleaner' = cleaner
<1>1. ASSUME Untouched PROVE CleanerInv'
  BY <1>1 DEF CleanerInv, ForgottenIsOld
<1>2. ASSUME NEW c \in CPUs,
             \/ \E id \in Ids : parse(c, id)
             \/ lookup_or_create_dualflow_state(c) \/ check_rate(c)
             \/ store_timestamp(c) \/ check_warning(c) \/ send_warning(c)
             \/ match(c) \/ check_answer(c) \/ compute_rtt(c) \/ delete_timestamp(c)
      PROVE  Untouched
  BY <1>2 DEF parse, lookup_or_create_dualflow_state, check_rate, store_timestamp,
              check_warning, send_warning, match, check_answer, compute_rtt,
              delete_timestamp, packet_ts, history
<1>3. ASSUME NEW c \in CPUs, insert_timestamp(c) PROVE CleanerInv'
  <2>1. latest' = latest
    BY <1>3 DEF insert_timestamp, history
  <2> QED
    BY <1>3, <2>1, InsertMarks DEF CleanerInv, ForgottenIsOld
<1>4. ASSUME NEW c \in CPUs, send_rtt_event_mark(c) PROVE CleanerInv'
  BY <1>4 DEF send_rtt_event_mark, CleanerInv, ForgottenIsOld, packet_ts
<1>5. ASSUME tsmap_cleanup \/ flowmap_cleanup PROVE CleanerInv'
  BY <1>5 DEF tsmap_cleanup, flowmap_cleanup, CleanerInv, ForgottenIsOld,
              packet_ts, history
<1>6. ASSUME check_element PROVE CleanerInv'
  <2>1. mem' = mem /\ latest' = latest
    BY <1>6 DEF check_element, packet_ts, history
  <2>2. cleaner.now \in Clock /\ mem[cleaner.elem].time \in Clock
    BY <1>6 DEF check_element, TypeOK, Cleaner, Element
  <2> QED
    BY <1>6, <2>1, <2>2 DEF check_element, CleanerInv, ForgottenIsOld, Idle, Clock
<1>7. ASSUME expire_element PROVE CleanerInv'
  <2>1. /\ cleaner.now \in Clock /\ mem[cleaner.elem].time \in Clock
        /\ cleaner.reused \/ mem[cleaner.elem].time < cleaner.now
    BY <1>7 DEF expire_element, TypeOK, Cleaner, Element, CleanerInv
  <2>2. ASSUME Minus(cleaner.now, mem[cleaner.elem].time) > TimestampLife
        PROVE  cleaner.reused \/ cleaner.now - mem[cleaner.elem].time > TimestampLife
    BY <2>1, <2>2, MinusIsDifference DEF Clock
  <2>3. ForgottenIsOld'
    BY <1>7, <2>2 DEF expire_element, ForgottenIsOld, CleanerInv
  <2> QED
    BY <1>7, <2>3 DEF expire_element, CleanerInv, Idle
<1>8. ASSUME copy_timestamp PROVE CleanerInv'
  <2>1. latest' = latest
    BY <1>8 DEF copy_timestamp, history
  <2>2. cleaner.now \in Clock
    BY <1>8 DEF copy_timestamp, TypeOK, Cleaner
  <2>3. \/ cleaner'.at = "idle"
        \/ /\ last_timestamp \in Clock /\ last_timestamp <= cleaner.now
           /\ cleaner'.at = "flow_age"
           /\ cleaner'.now = cleaner.now /\ cleaner'.ts = last_timestamp
    BY <1>8, <2>2 DEF copy_timestamp, Idle, TypeOK, Clock
  <2> QED
    BY <2>1, <2>3 DEF CleanerInv, ForgottenIsOld
<1>9. ASSUME expire_flow PROVE CleanerInv'
  <2>1. cleaner.now \in Clock /\ cleaner.ts \in Clock /\ cleaner.ts <= cleaner.now
    BY <1>9 DEF expire_flow, TypeOK, Cleaner, CleanerInv
  <2>2. FlowAge = cleaner.now - cleaner.ts
    BY <2>1, MinusIsDifference DEF FlowAge
  <2>3. ForgottenIsOld'
    BY <1>9, <2>2 DEF expire_flow, ForgottenIsOld, CleanerInv
  <2> QED
    BY <1>9, <2>3 DEF expire_flow, CleanerInv, Idle
<1>10. ASSUME Tick \/ UNCHANGED vars PROVE Untouched
  BY <1>10 DEF Tick, vars, packet_ts, history
<1> HIDE DEF Untouched
<1> QED
  BY <1>1, <1>2, <1>3, <1>4, <1>5, <1>6, <1>7, <1>8, <1>9, <1>10 DEF Next

-----------------------------------------------------------------------------
(* The theorems *)

ClockInv == TypeOK /\ WarningInv /\ StampInv /\ EventInv /\ CleanerInv

LEMMA ClockInvariant == Spec => []ClockInv
<1>1. Init => ClockInv
  BY InitTypes, InitWarnings, InitStamps, InitEvents DEF ClockInv
<1>2. ClockInv /\ [Next]_vars => ClockInv'
  BY TypesStay, WarningsStay, StampsStay, EventsStay, CleanerStays DEF ClockInv
<1> QED
  BY <1>1, <1>2, PTL DEF Spec

(***************************************************************************)
(* The rate limit holds between any two time stamps of a flow, as long as  *)
(* no store of another CPU comes between a check and its store.            *)
(***************************************************************************)
THEOREM StampsKeepTheirDistance == Spec => []StampsAreSpaced
<1>1. ClockInv => StampsAreSpaced
  BY DEF ClockInv, StampInv, StampsAreSpaced
<1> QED
  BY <1>1, ClockInvariant, PTL

(***************************************************************************)
(* Warnings of a full map are an interval apart, as long as no other CPU   *)
(* sends one between a check and the warning.                              *)
(***************************************************************************)
THEOREM WarningsKeepTheirDistance == Spec => []WarningsAreSpaced
<1>1. ClockInv => WarningsAreSpaced
  BY DEF ClockInv, WarningInv, WarningsAreSpaced
<1> QED
  BY <1>1, ClockInvariant, PTL

(***************************************************************************)
(* Whatever is torn, every failure is told of by some warning.             *)
(***************************************************************************)
THEOREM EveryFailureIsWarned == Spec => []FailuresAreWarned
<1>1. ClockInv => FailuresAreWarned
  BY DEF ClockInv, WarningInv
<1> QED
  BY <1>1, ClockInvariant, PTL

(***************************************************************************)
(* An RTT event tells the truth about the packet that was answered, unless *)
(* its element was used for another packet after the lookup.               *)
(***************************************************************************)
THEOREM RttsAreTrue == Spec => []RttsHavePassed
<1>1. ClockInv => RttsHavePassed
  BY DEF ClockInv, EventInv
<1> QED
  BY <1>1, ClockInvariant, PTL

(***************************************************************************)
(* The cleaner deletes nothing that is younger than its lifetime, except   *)
(* by an element that was used again under it.                             *)
(***************************************************************************)
THEOREM OnlyOldIsForgotten == Spec => []ForgottenIsOld
<1>1. ClockInv => ForgottenIsOld
  BY DEF ClockInv, CleanerInv
<1> QED
  BY <1>1, ClockInvariant, PTL
=============================================================================
