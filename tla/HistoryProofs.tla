------------------------------ MODULE HistoryProofs ----------------------------
(***************************************************************************)
(* Theorems about PPingFlows and PPingSamples, for all identifiers,        *)
(* elements, lifetimes and protocols, where the programs take turns: what  *)
(* user space is told of a flow, the time of its opening, and which        *)
(* packets are time-stamped.                                               *)
(***************************************************************************)
EXTENDS PPingFlows, PPingSamples, PPingProofs

-----------------------------------------------------------------------------
(* User space takes a direction for open exactly while it is. *)

IsOpen(x) == mem[current][x].conn_state = "OPEN"

(***************************************************************************)
(* A handler about to delete the flow has closed what was open, and so     *)
(* reported it; what the cleaner is about to delete it will report.        *)
(***************************************************************************)
DeletesAreTold ==
  /\ \A c \in CPUs : At(c, "drop") => \A x \in Dirs : ~ IsOpen(x)
  /\ cleaner.at = "flowdelete" =>
       \A x \in Dirs : IsOpen(x) => cleaner.notify[x]

ReportInv == SerialInv /\ ReportedIsOpen /\ DeletesAreTold

(* Steps that open nothing, close nothing and tell nothing. *)
KeepsOpen ==
  /\ UNCHANGED <<current, reported>>
  /\ current # None => \A x \in Dirs : IsOpen(x)' <=> IsOpen(x)

LEMMA QuietReports ==
  ASSUME ReportedIsOpen, KeepsOpen
  PROVE  ReportedIsOpen'
BY DEF ReportedIsOpen, KeepsOpen, IsOpen

LEMMA SameMemory ==
  ASSUME UNCHANGED <<current, reported, mem>>
  PROVE  KeepsOpen
BY DEF KeepsOpen, IsOpen

(* Where the stores of a quiet step leave both directions open or closed. *)
LEMMA QuietSteps ==
  ASSUME SerialInv, NEW c \in CPUs,
         \/ lookup_or_create_dualflow_state(c) \/ find_dualflow_state(c)
         \/ pping_forward(c) \/ pping_stamp(c) \/ pping_count(c)
         \/ pping_reverse(c) \/ pping_match(c) \/ pping_delete(c)
         \/ pping_uncount(c) \/ pping_report(c)
  PROVE  KeepsOpen
<1>1. PICK d \in Dirs, o \in Dirs :
        d = Fw(c) /\ o = Rev(c) /\ o # d /\ \A x \in Dirs : x = d \/ x = o
  BY ProceedDirs DEF Proceed, SerialInv
<1> USE <1>1
<1>2. CASE \/ lookup_or_create_dualflow_state(c) \/ find_dualflow_state(c)
           \/ pping_stamp(c) \/ pping_reverse(c) \/ pping_match(c)
           \/ pping_delete(c)
  BY <1>2, SameMemory
     DEF lookup_or_create_dualflow_state, find_dualflow_state, pping_stamp,
         pping_reverse, pping_match, pping_delete
<1>3. CASE pping_forward(c)
  <2>1. UNCHANGED <<current, reported>>
    BY <1>3 DEF pping_forward
  <2> QED
    BY <1>1, <1>3, <2>1, ForwardStep DEF KeepsOpen, IsOpen
<1>4. CASE pping_count(c)
  <2>1. UNCHANGED <<current, reported>>
    BY <1>4 DEF pping_count
  <2>2. current # None => mem[current][d] \in FlowState
    BY FlowHasStates DEF SerialInv
  <2> QED
    BY <1>1, <1>4, <2>1, <2>2, CountStep, SmallStores DEF KeepsOpen, IsOpen
<1>5. CASE pping_uncount(c) \/ pping_report(c)
  <2>1. UNCHANGED <<current, reported>>
    BY <1>5 DEF pping_uncount, pping_report
  <2>2. current # None => mem[current][o] \in FlowState
    BY <1>1, FlowHasStates DEF SerialInv
  <2>3. /\ mem'[current][d] = mem[current][d]
        /\ mem'[current][o] \in {Decremented(mem[current][o]),
                                 [mem[current][o] EXCEPT !.srtt = TRUE]}
    BY <1>5, AnswerStep
  <2>4. current # None =>
          mem'[current][o].conn_state = mem[current][o].conn_state
    BY <2>2, <2>3, SmallStores
  <2> QED
    BY <1>1, <2>1, <2>3, <2>4 DEF KeepsOpen, IsOpen
<1> QED
  BY <1>2, <1>3, <1>4, <1>5

LEMMA OpenReports ==
  ASSUME ReportInv, NEW c \in CPUs, pping_open(c)
  PROVE  ReportedIsOpen'
<1>1. PICK d \in Dirs, o \in Dirs :
        d = Fw(c) /\ o = Rev(c) /\ o # d /\ \A x \in Dirs : x = d \/ x = o
  BY ProceedDirs DEF Proceed, SerialInv, ReportInv
<1> USE <1>1
<1>2. /\ mem'[current][o] = [mem[current][o] EXCEPT !.conn_state = "OPEN"]
      /\ mem'[current][d] = mem[current][d]
  BY AnswerStep DEF ReportInv
<1>3. current # None /\ UNCHANGED current
      /\ mem[current][o] \in FlowState
  BY <1>1, FlowHasStates
     DEF ReportInv, SerialInv, PointersAreCurrent, pping_open, At, Holding, Labels
<1>4. mem'[current][o].conn_state = "OPEN"
  BY <1>2, <1>3 DEF FlowState
<1>5. IsOpen(o)' /\ (IsOpen(d)' <=> IsOpen(d))
  BY <1>2, <1>3, <1>4 DEF IsOpen
<1>6. reported'[o] = TRUE /\ reported'[d] = reported[d]
  BY <1>1 DEF pping_open, ReportInv, SerialInv, TypeOK
<1> QED
  BY <1>1, <1>3, <1>5, <1>6 DEF ReportedIsOpen, ReportInv, IsOpen

LEMMA CloseReports ==
  ASSUME ReportInv, NEW c \in CPUs, close_flows(c)
  PROVE  ReportedIsOpen' /\ (At(c, "drop")' => \A x \in Dirs : ~ IsOpen(x)')
<1> DEFINE p == handler[c].pkt
<1>1. /\ Proceed(c) /\ At(c, "close") /\ "close" \in Holding /\ UNCHANGED current
      /\ {"close", "drop"} \subseteq Labels
  BY DEF Proceed, close_flows, At, Holding, Labels
<1>2. /\ current \in Elements /\ current # None /\ handler[c].elem = current
      /\ \A x \in Dirs : mem[current][x] \in FlowState
  BY <1>1, HandlerHolds DEF ReportInv, At
<1>3. "CLOSED" \in ConnectionStates /\ "CLOSED" # "OPEN"
  BY DEF ConnectionStates
<1>4. ASSUME NEW x \in Dirs
      PROVE  /\ IsOpen(x)' <=> IsOpen(x) /\ x \notin Closes(Fw(c), p)
             /\ reported'[x] <=> IsOpen(x) /\ x \notin Closes(Fw(c), p)
  <2>1. mem'[current][x] =
          IF x \in Closes(Fw(c), p)
            THEN [mem[current][x] EXCEPT !.conn_state = "CLOSED"]
            ELSE mem[current][x]
    BY CloseStep DEF ReportInv
  <2>2. IsOpen(x)' <=> IsOpen(x) /\ x \notin Closes(Fw(c), p)
    BY <1>1, <1>2, <1>3, <2>1, SmallStores DEF IsOpen
  <2>3. reported'[x] = IF x \in Closes(Fw(c), p) /\ IsOpen(x)
                         THEN FALSE ELSE reported[x]
    BY <1>2 DEF close_flows, should_notify_closing, IsOpen
  <2>4. reported[x] <=> IsOpen(x)
    BY <1>2 DEF ReportInv, ReportedIsOpen, IsOpen
  <2> QED
    BY <2>2, <2>3, <2>4
<1>5. ReportedIsOpen'
  BY <1>1, <1>2, <1>4 DEF ReportedIsOpen, IsOpen
<1>6. ASSUME At(c, "drop")'
      PROVE  \A x \in Dirs : ~ IsOpen(x)'
  <2>1. ~ Leave(c)
    BY <1>6, LeaveMoves DEF ReportInv, SerialInv, At, Idle
  <2>2. \A x \in Dirs : ~ is_flowstate_active(mem'[current][x])
    BY <1>2, <2>1 DEF close_flows, ReportInv, SerialInv, TypeOK
  <2> QED
    BY <1>1, <2>2 DEF is_flowstate_active, IsOpen
<1> QED
  BY <1>5, <1>6

LEMMA CreateReports ==
  ASSUME ReportInv, NEW c \in CPUs, create_dualflow_state(c)
  PROVE  ReportedIsOpen'
<1>1. UNCHANGED reported /\ (current' = current => UNCHANGED mem)
  <2>1. None \notin Elements
    BY PPingAssumption
  <2> QED
    BY <2>1 DEF create_dualflow_state
<1>2. CASE current' = current
  BY <1>1, <1>2, SameMemory, QuietReports DEF ReportInv
<1>3. CASE current' # current
  <2> DEFINE s == mem'[current']
  <2>1. /\ current = None /\ current' # None
        /\ s[Fw(c)] = init_flowstate(EmptyState, handler[c].pkt, handler[c].time)
        /\ s[Rev(c)] = EmptyState
    BY <1>3, CreateStep DEF ReportInv
  <2>2. s[Fw(c)].conn_state = "WAITOPEN" /\ s[Rev(c)].conn_state = "EMPTY"
    BY <2>1 DEF init_flowstate, EmptyState
  <2>3. \A x \in Dirs : ~ reported[x]
    BY <2>1 DEF ReportInv, ReportedIsOpen
  <2> QED
    BY <1>1, <2>2, <2>3, ProceedDirs DEF ReportedIsOpen, Proceed, ReportInv, SerialInv
<1> QED
  BY <1>2, <1>3

(* Only close_flows sends a handler to delete the flow. *)
LEMMA DropComesFromClose ==
  ASSUME SerialInv, NEW c \in CPUs, Proceed(c), At(c, "drop")'
  PROVE  close_flows(c)
<1>1. handler[c] \in Busy
  BY ProceedIsBusy DEF SerialInv
<1>2. Idle.at # "drop"
  BY DEF Idle
<1>3. ~ Leave(c)
  BY <1>2, LeaveMoves DEF SerialInv, At
<1>4. \A l \in Labels : Goto(c, l) => l = "drop"
  BY <1>1, GotoMoves DEF SerialInv, At
<1>5. handler' # [handler EXCEPT ![c].at = "forward", ![c].elem = current]
  BY <1>1, FoundMoves DEF SerialInv, At
<1> QED
  BY <1>3, <1>4, <1>5 DEF Proceed, lookup_or_create_dualflow_state,
     create_dualflow_state, find_dualflow_state, pping_forward, pping_stamp,
     pping_count, pping_reverse, pping_open, pping_match, pping_delete,
     pping_uncount, pping_report, delete_flows, Labels

LEMMA ProceedReports ==
  ASSUME ReportInv, NEW c \in CPUs, Proceed(c)
  PROVE  ReportInv'
<1>1. SerialInv'
  BY ProceedSerial DEF ReportInv
<1>2. ReportedIsOpen'
  <2>1. CASE delete_flows(c)
    <3>1. current # None /\ \A x \in Dirs : ~ IsOpen(x)
      BY <2>1 DEF delete_flows, ReportInv, DeletesAreTold, SerialInv,
                  PointersAreCurrent, At, Holding, Labels
    <3>2. \A x \in Dirs : ~ reported[x]
      BY <3>1 DEF ReportInv, ReportedIsOpen, IsOpen
    <3> QED
      BY <2>1, <3>2 DEF delete_flows, ReportedIsOpen
  <2> QED
    BY <2>1, QuietSteps, QuietReports, OpenReports, CloseReports, CreateReports
       DEF Proceed, ReportInv
<1>3. DeletesAreTold'
  <2>1. cleaner'.at = "idle" /\ \A x \in CPUs \ {c} : handler'[x].at = "idle"
    <3>1. cleaner' = Idle /\ \A x \in CPUs \ {c} : handler'[x] = Idle
      BY ProceedIsBusy DEF ReportInv, SerialInv, Alone
    <3> QED
      BY <3>1 DEF Idle
  <2>2. At(c, "drop")' => \A x \in Dirs : ~ IsOpen(x)'
    BY DropComesFromClose, CloseReports DEF ReportInv
  <2> QED
    BY <2>1, <2>2 DEF DeletesAreTold, At
<1> QED
  BY <1>1, <1>2, <1>3 DEF ReportInv

LEMMA CleanReports ==
  ASSUME Parallel = FALSE, ReportInv, Clean
  PROVE  ReportInv'
<1>1. SerialInv'
  BY CleanSerial DEF ReportInv
<1>2. \A x \in CPUs : ~ At(x, "drop")'
  <2>1. \A x \in CPUs : handler'[x] = Idle
    BY CleanerIsAlone DEF ReportInv
  <2> QED
    BY <2>1 DEF At, Idle
<1>3. CASE \E d \in Dirs, i \in Ids : tsmap_cleanup(d, i)
  <2>1. KeepsOpen /\ cleaner'.at # "flowdelete"
    BY <1>3, SameMemory DEF tsmap_cleanup
  <2> QED
    BY <1>1, <1>2, <2>1, QuietReports DEF ReportInv, DeletesAreTold
<1>4. CASE tsmap_delete
  <2>1. cleaner \in TsCleaner
    BY <1>4, CleanerType DEF tsmap_delete, ReportInv, SerialInv, TypeOK
  <2>2. [cleaner EXCEPT !.at = "tsuncount"].at = "tsuncount"
    BY <2>1 DEF TsCleaner
  <2>3. cleaner' \in {Idle, [cleaner EXCEPT !.at = "tsuncount"]}
    BY <1>4 DEF tsmap_delete
  <2>4. KeepsOpen
    BY <1>4, SameMemory DEF tsmap_delete
  <2>5. Idle.at = "idle"
    BY DEF Idle
  <2>6. cleaner'.at # "flowdelete"
    BY <2>2, <2>3, <2>5
  <2> QED
    BY <1>1, <1>2, <2>4, <2>6, QuietReports DEF ReportInv, DeletesAreTold
<1>5. CASE tsmap_uncount
  <2> DEFINE c == cleaner.dir
  <2>1. /\ c \in Dirs /\ current # None
        /\ mem'[current][c] = Decremented(mem[current][c])
        /\ mem'[current][Other(c)] = mem[current][Other(c)]
    BY <1>5, TsUncountStep DEF ReportInv
  <2>2. mem'[current][c].conn_state = mem[current][c].conn_state
    BY <2>1, FlowHasStates, SmallStores DEF ReportInv, SerialInv
  <2>3. UNCHANGED <<current, reported>> /\ cleaner' = Idle
    BY <1>5 DEF tsmap_uncount
  <2>4. KeepsOpen
    BY <2>1, <2>2, <2>3, DirsArePaired DEF KeepsOpen, IsOpen
  <2>5. cleaner'.at # "flowdelete"
    BY <2>3 DEF Idle
  <2> QED
    BY <1>1, <1>2, <2>4, <2>5, QuietReports DEF ReportInv, DeletesAreTold
<1>6. CASE flowmap_cleanup
  <2>1. KeepsOpen /\ UNCHANGED <<current, mem>>
    BY <1>6, SameMemory DEF flowmap_cleanup
  <2>2. \A x \in Dirs : IsOpen(x) =>
          /\ should_notify_closing(mem[current][x])
          /\ is_flow_old(mem[current][x])
    BY <1>6
       DEF flowmap_cleanup, IsOpen, should_notify_closing, is_flowstate_active
  <2>3. cleaner'.notify = [x \in Dirs |->
          /\ should_notify_closing(mem[current][x])
          /\ is_flow_old(mem[current][x])]
    BY <1>6 DEF flowmap_cleanup
  <2>4. \A x \in Dirs : IsOpen(x)' => cleaner'.notify[x]
    BY <2>1, <2>2, <2>3 DEF IsOpen
  <2> QED
    BY <1>1, <1>2, <2>1, <2>4, QuietReports DEF ReportInv, DeletesAreTold
<1>7. CASE flowmap_delete
  <2>1. current' = None /\ cleaner' = Idle /\ current # None
    BY <1>7 DEF flowmap_delete, ReportInv, SerialInv, PointersAreCurrent
  <2>2. cleaner'.at # "flowdelete"
    BY <2>1 DEF Idle
  <2>3. ASSUME NEW x \in Dirs
        PROVE  ~ reported'[x]
    <3>1. reported[x] => cleaner.notify[x]
      BY <1>7, <2>1 DEF flowmap_delete, ReportInv, ReportedIsOpen,
                        DeletesAreTold, IsOpen
    <3>2. reported[x] \in BOOLEAN
      BY DEF ReportInv, SerialInv, TypeOK
    <3> QED
      BY <1>7, <2>1, <3>1, <3>2 DEF flowmap_delete
  <2> QED
    BY <1>1, <1>2, <2>1, <2>2, <2>3
       DEF ReportInv, DeletesAreTold, ReportedIsOpen
<1> QED
  BY <1>3, <1>4, <1>5, <1>6, <1>7 DEF Clean

LEMMA NextReports ==
  ASSUME Parallel = FALSE, ReportInv, [Next]_vars
  PROVE  ReportInv'
<1>1. CASE \E c \in CPUs, d \in Dirs, p \in Packets : Arrive(c, d, p)
  <2>1. PICK c \in CPUs, d \in Dirs, p \in Packets : Arrive(c, d, p)
    BY <1>1
  <2>2. SerialInv'
    BY <2>1, ArriveSerial DEF ReportInv
  <2>3. UNCHANGED <<current, mem, reported, cleaner>>
    BY <2>1 DEF Arrive
  <2>4. \A x \in CPUs : ~ At(x, "drop")'
    <3>1. /\ \A x \in CPUs : handler[x] = Idle
          /\ \A x \in CPUs \ {c} : handler'[x] = Idle
          /\ handler'[c].at = "lookup"
      BY <2>1 DEF Arrive, MayStart, Running, ReportInv, SerialInv, TypeOK
    <3> QED
      BY <3>1 DEF At, Idle
  <2> QED
    BY <2>2, <2>3, <2>4, SameMemory, QuietReports
       DEF ReportInv, DeletesAreTold, IsOpen
<1>2. CASE \E c \in CPUs : Proceed(c)
  BY <1>2, ProceedReports
<1>3. CASE Clean
  BY <1>3, CleanReports
<1>4. CASE Tick
  <2>1. SerialInv'
    BY <1>4, TickSerial DEF ReportInv
  <2>2. UNCHANGED <<current, reported, cleaner>>
    BY <1>4 DEF Tick
  <2>3. KeepsOpen
    BY <1>4, <2>2, TickStep DEF KeepsOpen, IsOpen, ReportInv
  <2>4. \A x \in CPUs : At(x, "drop")' => At(x, "drop") /\ current # None
    BY <1>4, TickMoves DEF ReportInv, SerialInv, PointersAreCurrent, At,
                           Holding, Labels
  <2>5. cleaner.at = "flowdelete" => current # None
    BY DEF ReportInv, SerialInv, PointersAreCurrent
  <2> QED
    BY <2>1, <2>2, <2>3, <2>4, <2>5, QuietReports
       DEF ReportInv, DeletesAreTold, KeepsOpen
<1>5. CASE UNCHANGED vars
  BY <1>5, StutterSerial
     DEF ReportInv, ReportedIsOpen, DeletesAreTold, IsOpen, At, vars
<1> QED
  BY <1>1, <1>2, <1>3, <1>4, <1>5 DEF Next, Step

LEMMA InitReports == Init => ReportInv
<1> SUFFICES ASSUME Init PROVE ReportInv
  OBVIOUS
<1>1. cleaner.at = "idle" /\ \A c \in CPUs : ~ At(c, "drop")
  BY DEF Init, At, Idle
<1> QED
  BY <1>1, InitSerial DEF Init, ReportInv, ReportedIsOpen, DeletesAreTold

(* The steps of PPingFlows are those of PPing. *)
LEMMA FlowsAreFlows ==
  /\ FlowsInit => Init
  /\ [FlowsNext]_flowVars => [Next]_vars
BY DEF FlowsInit, FlowsNext, flowVars, Next

(***************************************************************************)
(* Where the programs take turns, what user space has been told of a       *)
(* direction is what its state says, after every step and through all the  *)
(* lives of flows over one tuple: opening events come from the first       *)
(* answer, closing events from FIN, RST or the cleaner.                    *)
(***************************************************************************)
THEOREM ReportsAreTrue ==
  ASSUME Parallel = FALSE
  PROVE  FlowsSpec => []ReportedIsOpen
<1>1. FlowsInit => ReportInv
  BY FlowsAreFlows, InitReports
<1>2. ReportInv /\ [FlowsNext]_flowVars => ReportInv'
  BY FlowsAreFlows, NextReports
<1>3. ReportInv => ReportedIsOpen
  BY DEF ReportInv
<1> QED
  BY <1>1, <1>2, <1>3, PTL DEF FlowsSpec

-----------------------------------------------------------------------------
(* The time of the opening. *)

LastTime(x) == mem[current][x].last_timestamp

(***************************************************************************)
(* Neither the last time stamp of a direction that waits, nor any packet   *)
(* that may still replace it, is older than the packet it opened with.     *)
(***************************************************************************)
WaitingIsRecent ==
  current # None =>
    \A d \in Dirs : Waits(d) =>
      /\ opener[d] \in Age
      /\ LastTime(d) <= opener[d]
      /\ \A x \in CPUs : handler[x] # Idle => handler[x].time <= opener[d]

OpenInv == SerialInv /\ AnswersAreAwaited /\ WaitingIsRecent

LEMMA OlderIsMonotone ==
  ASSUME NEW a \in Age, NEW b \in Age, a <= b
  PROVE  Older(a) <= Older(b)
BY PPingAssumption DEF Older, Age

(* The history is left alone where nothing begins to wait or is answered. *)
LEMMA OpenerStays ==
  ASSUME SerialInv, NEW c \in CPUs, Proceed(c), RememberOpener, current # None,
         current' # None
  PROVE  /\ ~ At(c, "open") => opener'[Rev(c)] = opener[Rev(c)]
         /\ \/ opener'[Fw(c)] = opener[Fw(c)]
            \/ /\ At(c, "forward") /\ mem[current][Fw(c)].conn_state = "EMPTY"
               /\ handler[c].pkt.pid # None
<1>1. Rev(c) \in Dirs /\ Fw(c) \in Dirs /\ Rev(c) # Fw(c)
  BY ProceedDirs DEF SerialInv
<1>2. /\ \A x \in CPUs \ {c} : handler[x] = Idle
      /\ Idle.at = "idle"
  BY ProceedIsBusy DEF SerialInv, Alone, Idle
<1>3. ~ At(c, "create") /\ \A x \in CPUs \ {c} : At(x, "idle")
  BY <1>2 DEF SerialInv, PointersAreCurrent, At
<1>4. /\ \A x \in CPUs \ {c} : ~ Initialises(x) /\ ~ Opens(x)
      /\ Opens(c) => At(c, "open")
  BY <1>3 DEF Initialises, Opens, At
<1>5. Initialises(c) => /\ At(c, "forward")
                        /\ mem[current][Fw(c)].conn_state = "EMPTY"
                        /\ handler[c].pkt.pid # None
  <2>1. At(c, "forward") => State(c, Fw(c)) = mem[current][Fw(c)]
    BY HandlerHolds DEF At, Holding, Labels
  <2> QED
    BY <1>3, <2>1 DEF Initialises
<1> QED
  BY <1>1, <1>4, <1>5 DEF RememberOpener

LEMMA WaitingStays ==
  ASSUME WaitingIsRecent, UNCHANGED current, current # None,
         \A x \in Dirs : Waits(x)' =>
           /\ Waits(x) /\ LastTime(x)' = LastTime(x)
           /\ opener'[x] = opener[x],
         \A x \in CPUs : handler'[x] # Idle =>
           handler[x] # Idle /\ handler'[x].time = handler[x].time
  PROVE  WaitingIsRecent'
BY DEF WaitingIsRecent

(* A handler keeps its time, or ends. *)
LEMMA HandlersKeepTime ==
  ASSUME SerialInv, NEW c \in CPUs, Proceed(c)
  PROVE  \A x \in CPUs : handler'[x] # Idle =>
           handler[x] # Idle /\ handler'[x].time = handler[x].time
<1>1. handler[c] \in Busy /\ handler[c] # Idle
      /\ \A x \in CPUs \ {c} : handler'[x] = handler[x]
  BY ProceedIsBusy DEF SerialInv
<1>2. \/ \E l \in Labels : Goto(c, l)
      \/ Leave(c)
      \/ handler' = [handler EXCEPT ![c].at = "forward", ![c].elem = current]
  BY DEF Proceed, lookup_or_create_dualflow_state, create_dualflow_state,
     find_dualflow_state, pping_forward, pping_stamp, pping_count,
     pping_reverse, pping_open, pping_match, pping_delete, pping_uncount,
     pping_report, close_flows, delete_flows, Labels
<1>3. handler'[c] = Idle \/ handler'[c].time = handler[c].time
  BY <1>1, <1>2, GotoMoves, FoundMoves, LeaveMoves DEF SerialInv
<1> QED
  BY <1>1, <1>3

(* No step but that of the first packet makes a direction wait. *)
LEMMA NothingBeginsToWait ==
  ASSUME SerialInv, NEW c \in CPUs, Proceed(c), ~ pping_forward(c),
         current # None, current' # None
  PROVE  /\ \A x \in Dirs : Waits(x)' => Waits(x) /\ LastTime(x)' = LastTime(x)
         /\ At(c, "open") => \A x \in Dirs : x = Rev(c) => ~ Waits(x)'
<1>1. PICK d \in Dirs, o \in Dirs :
        d = Fw(c) /\ o = Rev(c) /\ o # d /\ \A x \in Dirs : x = d \/ x = o
  BY ProceedDirs DEF Proceed, SerialInv
<1> USE <1>1
<1>2. UNCHANGED current /\ \A x \in Dirs : mem[current][x] \in FlowState
  BY FlowStays, FlowHasStates DEF SerialInv
<1>3. CASE \/ lookup_or_create_dualflow_state(c) \/ find_dualflow_state(c)
           \/ create_dualflow_state(c) \/ pping_stamp(c) \/ pping_reverse(c)
           \/ pping_match(c) \/ pping_delete(c) \/ delete_flows(c)
  <2>1. UNCHANGED mem /\ ~ At(c, "open")
    BY <1>2, <1>3 DEF lookup_or_create_dualflow_state, create_dualflow_state,
       find_dualflow_state, pping_stamp, pping_reverse, pping_match,
       pping_delete, delete_flows, At
  <2> QED
    BY <1>2, <2>1 DEF Waits, LastTime
<1>4. CASE pping_count(c)
  <2>1. /\ mem'[current][d] = Incremented(mem[current][d])
        /\ mem'[current][o] = mem[current][o]
    BY <1>4, CountStep
  <2>2. ~ At(c, "open")
    BY <1>4 DEF pping_count, At
  <2> QED
    BY <1>1, <1>2, <2>1, <2>2, SmallStores DEF Waits, LastTime
<1>5. CASE pping_uncount(c) \/ pping_report(c)
  <2>1. /\ mem'[current][d] = mem[current][d]
        /\ mem'[current][o] \in {Decremented(mem[current][o]),
                                 [mem[current][o] EXCEPT !.srtt = TRUE]}
    BY <1>5, AnswerStep
  <2>2. /\ mem'[current][o].conn_state = mem[current][o].conn_state
        /\ mem'[current][o].last_timestamp = mem[current][o].last_timestamp
    <3> DEFINE s == mem[current][o]
    <3>1. s \in FlowState
      BY <1>1, <1>2
    <3>2. \A n \in {Decremented(s), [s EXCEPT !.srtt = TRUE]} :
            n.conn_state = s.conn_state /\ n.last_timestamp = s.last_timestamp
      <4> HIDE DEF s
      <4> QED
        BY <3>1, SmallStores
    <3> QED
      BY <2>1, <3>2
  <2>3. ~ At(c, "open")
    BY <1>5 DEF pping_uncount, pping_report, At
  <2> QED
    BY <1>1, <1>2, <2>1, <2>2, <2>3 DEF Waits, LastTime
<1>6. CASE pping_open(c)
  <2>1. /\ mem'[current][o] = [mem[current][o] EXCEPT !.conn_state = "OPEN"]
        /\ mem'[current][d] = mem[current][d]
    BY <1>6, AnswerStep
  <2>2. mem'[current][o].conn_state = "OPEN"
    BY <1>1, <1>2, <2>1 DEF FlowState
  <2> QED
    BY <1>1, <1>2, <2>1, <2>2 DEF Waits, LastTime
<1>7. CASE close_flows(c)
  <2>1. ASSUME NEW x \in Dirs, Waits(x)'
        PROVE  Waits(x) /\ LastTime(x)' = LastTime(x)
    <3>1. mem'[current][x] \in
            {[mem[current][x] EXCEPT !.conn_state = "CLOSED"], mem[current][x]}
      BY <1>7, CloseStep
    <3>2. [mem[current][x] EXCEPT !.conn_state = "CLOSED"].conn_state = "CLOSED"
      BY <1>2 DEF FlowState
    <3> QED
      BY <1>2, <2>1, <3>1, <3>2 DEF Waits, LastTime
  <2>2. ~ At(c, "open")
    BY <1>7 DEF close_flows, At
  <2> QED
    BY <2>1, <2>2
<1> QED
  BY <1>3, <1>4, <1>5, <1>6, <1>7 DEF Proceed

LEMMA ForwardKeepsRecent ==
  ASSUME OpenInv, NEW c \in CPUs, pping_forward(c), RememberOpener
  PROVE  WaitingIsRecent'
<1>1. PICK d \in Dirs, o \in Dirs :
        d = Fw(c) /\ o = Rev(c) /\ o # d /\ \A x \in Dirs : x = d \/ x = o
  BY ProceedDirs DEF Proceed, SerialInv, OpenInv
<1> USE <1>1
<1> DEFINE h == handler[c]
           s == mem[current][Fw(c)]
           n == mem'[current][Fw(c)]
           fresh == s.conn_state = "EMPTY" /\ h.pkt.pid # None
<1>2. /\ SerialInv /\ Proceed(c) /\ At(c, "forward") /\ ~ At(c, "open")
      /\ "forward" \in Holding
      /\ UNCHANGED current
  BY DEF Proceed, pping_forward, OpenInv, At, Holding, Labels
<1>3. /\ current # None /\ State(c, d) = s /\ s \in FlowState
      /\ mem[current][o] \in FlowState
  BY <1>1, <1>2, HandlerHolds DEF At
<1>4. /\ h \in Busy /\ h # Idle /\ h.time \in Age
  BY <1>2, ProceedIsBusy DEF Busy, SerialInv
<1>5. /\ mem'[current][o] = mem[current][o]
      /\ n.conn_state = IF fresh THEN "WAITOPEN" ELSE s.conn_state
      /\ \/ n.last_timestamp = h.time
         \/ ~ fresh /\ n.last_timestamp = s.last_timestamp
      /\ Goto(c, "reverse") \/ Goto(c, "stamp")
  BY <1>2, ForwardStep
<1>6. /\ handler'[c].at \in {"reverse", "stamp"} /\ handler'[c].time = h.time
      /\ \A x \in CPUs \ {c} : handler'[x] = Idle
  BY <1>2, <1>4, <1>5, GotoMoves, ProceedIsBusy DEF SerialInv, Alone, Labels
<1>7. opener'[o] = opener[o] /\ (~ fresh => opener'[d] = opener[d])
  BY <1>2, <1>3, OpenerStays
<1>8. fresh => opener'[d] = h.time
  <2>1. fresh => Initialises(c)
    BY <1>2, <1>3, <1>6 DEF Initialises
  <2> QED
    BY <2>1 DEF RememberOpener
<1>9. ASSUME Waits(o)
      PROVE  /\ opener[o] \in Age /\ LastTime(o) <= opener[o]
             /\ h.time <= opener[o]
  BY <1>1, <1>3, <1>4, <1>9 DEF OpenInv, WaitingIsRecent
<1>10. ASSUME Waits(d)
       PROVE  /\ opener[d] \in Age /\ LastTime(d) <= opener[d]
              /\ h.time <= opener[d]
  BY <1>3, <1>4, <1>10 DEF OpenInv, WaitingIsRecent
<1>11. Waits(d)' => /\ opener'[d] \in Age /\ LastTime(d)' <= opener'[d]
                    /\ h.time <= opener'[d]
  <2>1. CASE fresh
    <3>1. n.last_timestamp = h.time /\ opener'[d] = h.time
      BY <1>5, <1>8, <2>1
    <3> HIDE DEF n, h, fresh
    <3>2. h.time <= h.time
      BY <1>4 DEF Age
    <3> QED
      BY <1>2, <1>4, <3>1, <3>2 DEF LastTime, n
  <2>2. CASE ~ fresh
    BY <1>2, <1>5, <1>7, <1>10, <2>2 DEF Waits, LastTime
  <2> QED
    BY <2>1, <2>2
<1>12. Waits(o)' => /\ opener'[o] \in Age /\ LastTime(o)' <= opener'[o]
                    /\ h.time <= opener'[o]
  BY <1>2, <1>5, <1>7, <1>9 DEF Waits, LastTime
<1> QED
  BY <1>1, <1>6, <1>11, <1>12 DEF WaitingIsRecent

LEMMA CreateKeepsRecent ==
  ASSUME OpenInv, NEW c \in CPUs, create_dualflow_state(c), RememberOpener,
         current' # current
  PROVE  WaitingIsRecent'
<1>1. PICK d \in Dirs, o \in Dirs :
        d = Fw(c) /\ o = Rev(c) /\ o # d /\ \A x \in Dirs : x = d \/ x = o
  BY ProceedDirs DEF Proceed, SerialInv, OpenInv
<1> USE <1>1
<1> DEFINE h == handler[c]
<1>2. SerialInv /\ Proceed(c) /\ At(c, "create")
  BY DEF Proceed, create_dualflow_state, OpenInv
<1>3. /\ h \in Busy /\ h.time \in Age
  BY <1>2, ProceedIsBusy DEF Busy, SerialInv
<1>4. /\ Goto(c, "find")
      /\ mem'[current'][d] = init_flowstate(EmptyState, h.pkt, h.time)
      /\ mem'[current'][o] = EmptyState
  BY <1>2, CreateStep
<1>5. /\ handler'[c].at = "find" /\ handler'[c].time = h.time
      /\ \A x \in CPUs \ {c} : handler'[x] = Idle
  BY <1>2, <1>3, <1>4, GotoMoves, ProceedIsBusy DEF SerialInv, Alone, Labels
<1>6. opener'[d] = h.time
  BY <1>2, <1>5 DEF RememberOpener, Initialises
<1>7. LastTime(d)' = h.time /\ ~ Waits(o)'
  BY <1>4 DEF LastTime, Waits, init_flowstate, EmptyState
<1>8. h.time <= h.time
  BY <1>3 DEF Age
<1> QED
  BY <1>1, <1>3, <1>5, <1>6, <1>7, <1>8 DEF WaitingIsRecent

LEMMA ProceedOpens ==
  ASSUME OpenInv, NEW c \in CPUs, Proceed(c), RememberOpener
  PROVE  OpenInv'
<1>1. SerialInv /\ SerialInv' /\ AnswersAreAwaited'
  BY ProceedSerial, ProceedAwaits DEF OpenInv
<1>2. WaitingIsRecent'
  <2>1. CASE current' = None
    BY <2>1 DEF WaitingIsRecent
  <2>2. CASE current = None /\ current' # None
    <3>1. create_dualflow_state(c)
      BY <2>2 DEF Proceed, lookup_or_create_dualflow_state,
         find_dualflow_state, pping_forward, pping_stamp, pping_count,
         pping_reverse, pping_open, pping_match, pping_delete, pping_uncount,
         pping_report, close_flows, delete_flows
    <3> QED
      BY <2>2, <3>1, CreateKeepsRecent
  <2>3. CASE current # None /\ current' # None
    <3>1. CASE pping_forward(c)
      BY <3>1, ForwardKeepsRecent
    <3>2. CASE ~ pping_forward(c)
      <4>1. /\ \A x \in Dirs : Waits(x)' => Waits(x) /\ LastTime(x)' = LastTime(x)
            /\ At(c, "open") => \A x \in Dirs : x = Rev(c) => ~ Waits(x)'
        BY <1>1, <2>3, <3>2, NothingBeginsToWait
      <4>2. ~ At(c, "forward")
        <5>1. handler[c].at # "forward" \/ pping_forward(c)
          BY DEF Proceed, At, lookup_or_create_dualflow_state,
             create_dualflow_state, find_dualflow_state, pping_stamp,
             pping_count, pping_reverse, pping_open, pping_match, pping_delete,
             pping_uncount, pping_report, close_flows, delete_flows
        <5> QED
          BY <3>2, <5>1 DEF At
      <4>3. /\ ~ At(c, "open") => opener'[Rev(c)] = opener[Rev(c)]
            /\ opener'[Fw(c)] = opener[Fw(c)]
        BY <1>1, <2>3, <4>2, OpenerStays
      <4>4. \A x \in Dirs : Waits(x)' => /\ Waits(x) /\ LastTime(x)' = LastTime(x)
                                         /\ opener'[x] = opener[x]
        BY <1>1, <4>1, <4>3, ProceedDirs DEF SerialInv
      <4>5. UNCHANGED current /\ WaitingIsRecent
        BY <1>1, <2>3, FlowStays DEF OpenInv
      <4> QED
        BY <1>1, <2>3, <4>4, <4>5, HandlersKeepTime, WaitingStays
    <3> QED
      BY <3>1, <3>2
  <2> QED
    BY <2>1, <2>2, <2>3
<1> QED
  BY <1>1, <1>2 DEF OpenInv

(* Where no handler is at work, nothing is awaited or begun. *)
LEMMA IdleOpener ==
  ASSUME \A x \in CPUs : ~ At(x, "create") /\ ~ At(x, "forward") /\ ~ At(x, "open"),
         RememberOpener, current' # None
  PROVE  \A x \in Dirs : opener'[x] = opener[x]
BY DEF RememberOpener, Initialises, Opens

LEMMA CleanOpens ==
  ASSUME Parallel = FALSE, OpenInv, Clean, RememberOpener
  PROVE  OpenInv'
<1>1. SerialInv /\ SerialInv'
  BY CleanSerial DEF OpenInv
<1>2. /\ \A x \in CPUs : handler[x] = Idle /\ handler'[x] = Idle
      /\ Idle.at = "idle"
  BY <1>1, CleanerIsAlone DEF Idle
<1>3. AnswersAreAwaited'
  BY <1>2 DEF AnswersAreAwaited, At
<1>4. WaitingIsRecent'
  <2>1. CASE current' = None
    BY <2>1 DEF WaitingIsRecent
  <2>2. CASE current' # None
    <3>1. UNCHANGED current /\ current # None
      BY <2>2 DEF Clean, tsmap_cleanup, tsmap_delete, tsmap_uncount,
                  flowmap_cleanup, flowmap_delete
    <3>2. \A x \in Dirs : /\ mem'[current][x].conn_state = mem[current][x].conn_state
                          /\ LastTime(x)' = LastTime(x)
      <4>1. CASE tsmap_uncount
        <5>1. PICK c \in Dirs :
                /\ mem'[current][c] = Decremented(mem[current][c])
                /\ mem'[current][Other(c)] = mem[current][Other(c)]
          BY <1>1, <4>1, TsUncountStep
        <5>2. /\ mem'[current][c].conn_state = mem[current][c].conn_state
              /\ mem'[current][c].last_timestamp = mem[current][c].last_timestamp
          BY <1>1, <3>1, <5>1, FlowHasStates, SmallStores DEF SerialInv
        <5> QED
          BY <3>1, <5>1, <5>2, DirsArePaired DEF LastTime
      <4>2. CASE ~ tsmap_uncount
        BY <3>1, <4>2 DEF Clean, tsmap_cleanup, tsmap_delete, flowmap_cleanup,
                          flowmap_delete, LastTime
      <4> QED
        BY <4>1, <4>2
    <3>3. \A x \in Dirs : opener'[x] = opener[x]
      BY <1>2, <2>2, IdleOpener DEF At
    <3>4. WaitingIsRecent
      BY DEF OpenInv
    <3> QED
      BY <1>2, <3>1, <3>2, <3>3, <3>4 DEF WaitingIsRecent, Waits
  <2> QED
    BY <2>1, <2>2
<1> QED
  BY <1>1, <1>3, <1>4 DEF OpenInv

(* The newest packet is younger than all that has happened. *)
LEMMA ArriveOpens ==
  ASSUME Parallel = FALSE, OpenInv, NEW c \in CPUs, NEW d \in Dirs,
         NEW p \in Packets, Arrive(c, d, p), RememberOpener
  PROVE  OpenInv'
<1>1. SerialInv /\ SerialInv' /\ WaitingIsRecent
  BY ArriveSerial DEF OpenInv
<1>2. /\ \A x \in CPUs : handler[x] = Idle
      /\ \A x \in CPUs \ {c} : handler'[x] = Idle
      /\ handler'[c].at = "lookup" /\ handler'[c].time = 0
      /\ UNCHANGED <<current, mem>>
  BY <1>1 DEF Arrive, MayStart, Running, SerialInv, TypeOK
<1>3. Idle.at = "idle"
  BY DEF Idle
<1>4. AnswersAreAwaited'
  <2>1. \A x \in CPUs : handler'[x].at \in {"idle", "lookup"}
    BY <1>2, <1>3
  <2> QED
    BY <2>1 DEF AnswersAreAwaited, At
<1>5. WaitingIsRecent'
  <2>1. CASE current' = None
    BY <2>1 DEF WaitingIsRecent
  <2>2. CASE current' # None
    <3>1. \A x \in Dirs : opener'[x] = opener[x]
      BY <1>2, <1>3, <2>2, IdleOpener DEF At
    <3>2. \A t \in Age : 0 <= t
      BY PPingAssumption DEF Age
    <3> QED
      BY <1>1, <1>2, <3>1, <3>2 DEF WaitingIsRecent, Waits, LastTime
  <2> QED
    BY <2>1, <2>2
<1> QED
  BY <1>1, <1>4, <1>5 DEF OpenInv

LEMMA TickOpens ==
  ASSUME OpenInv, Tick, opener' = [x \in Dirs |-> Older(opener[x])]
  PROVE  OpenInv'
<1>1. SerialInv /\ SerialInv' /\ TypeOK /\ WaitingIsRecent
  BY TickSerial DEF OpenInv, SerialInv
<1>2. UNCHANGED current
  BY DEF Tick
<1>3. \A x \in CPUs : At(x, "open") => current # None
  BY <1>1 DEF SerialInv, PointersAreCurrent, At, Holding, Labels
<1>4. \A x \in Dirs : current # None => (Waits(x)' <=> Waits(x))
  BY <1>1, <1>2, TickStep DEF Waits
<1>8. \A x \in CPUs : At(x, "open") => Rev(x)' = Rev(x) /\ Rev(x) \in Dirs
  <2> SUFFICES ASSUME NEW x \in CPUs, At(x, "open")
               PROVE  Rev(x)' = Rev(x) /\ Rev(x) \in Dirs
    OBVIOUS
  <2>1. handler[x] \in Busy /\ handler[x] # Idle
    BY <1>1, AtIsBusy, IdleIsNoLabel DEF At, Labels, Idle
  <2> QED
    BY <1>1, <2>1, HandlerDirs, TickMoves DEF Rev
<1>5. AnswersAreAwaited'
  BY <1>1, <1>3, <1>4, <1>8, TickMoves
     DEF OpenInv, AnswersAreAwaited, At
<1>6. ASSUME current # None, NEW d \in Dirs, Waits(d)
      PROVE  /\ opener'[d] \in Age
             /\ LastTime(d)' <= opener'[d]
             /\ \A x \in CPUs : handler'[x] # Idle =>
                                  handler'[x].time <= opener'[d]
  <2>1. /\ opener[d] \in Age /\ LastTime(d) <= opener[d]
        /\ \A x \in CPUs : handler[x] # Idle => handler[x].time <= opener[d]
    BY <1>1, <1>6 DEF WaitingIsRecent
  <2>2. opener'[d] = Older(opener[d]) /\ opener'[d] \in Age
    BY <2>1, OlderType
  <2>3. LastTime(d)' = Older(LastTime(d))
    BY <1>1, <1>2, <1>6, TickStep DEF LastTime, Waits
  <2>4. LastTime(d) \in Age
    BY <1>1, <1>6, FlowHasStates DEF LastTime, FlowState
  <2>5. ASSUME NEW x \in CPUs, handler'[x] # Idle
        PROVE  handler'[x].time <= opener'[d]
    <3>1. handler[x] # Idle /\ handler'[x].time = Older(handler[x].time)
      BY <1>1, <2>5, TickMoves
    <3>2. handler[x].time \in Age
      BY <1>1, <3>1, HandlerIsBusy DEF TypeOK, Busy
    <3> QED
      BY <2>1, <2>2, <3>1, <3>2, OlderIsMonotone
  <2> QED
    BY <2>1, <2>2, <2>3, <2>4, <2>5, OlderIsMonotone
<1>7. WaitingIsRecent'
  BY <1>2, <1>4, <1>6 DEF WaitingIsRecent
<1> QED
  BY <1>1, <1>5, <1>7 DEF OpenInv

LEMMA NextOpens ==
  ASSUME Parallel = FALSE, OpenInv, [FlowsNext]_flowVars
  PROVE  OpenInv'
<1>1. CASE Step /\ RememberOpener
  BY <1>1, ArriveOpens, ProceedOpens, CleanOpens DEF Step
<1>2. CASE Tick /\ opener' = [x \in Dirs |-> Older(opener[x])]
  BY <1>2, TickOpens
<1>3. CASE UNCHANGED flowVars
  <2>1. UNCHANGED <<current, mem, handler, opener>>
    BY <1>3 DEF flowVars, vars
  <2>2. SerialInv'
    BY <1>3, StutterSerial DEF OpenInv, flowVars
  <2> QED
    BY <2>1, <2>2
       DEF OpenInv, AnswersAreAwaited, WaitingIsRecent, Waits, LastTime, At, Rev
<1> QED
  BY <1>1, <1>2, <1>3 DEF FlowsNext

LEMMA InitOpens == FlowsInit => OpenInv
<1> SUFFICES ASSUME FlowsInit PROVE OpenInv
  OBVIOUS
<1>1. SerialInv /\ current = None /\ \A c \in CPUs : handler[c] = Idle
  BY InitSerial DEF FlowsInit, Init
<1>2. Idle.at = "idle"
  BY DEF Idle
<1> QED
  BY <1>1, <1>2 DEF OpenInv, AnswersAreAwaited, WaitingIsRecent, At

(* What the step that opens a direction reports. *)
LEMMA OpeningIsOwn ==
  ASSUME OpenInv, NEW c \in CPUs, Opens(c)
  PROVE  State(c, Rev(c)).last_timestamp <= opener[Rev(c)]
<1>1. At(c, "open") /\ "open" \in Labels
  BY DEF Opens, Labels
<1>2. Rev(c) \in Dirs
  BY <1>1, AtIsBusy, HandlerDirs DEF OpenInv, SerialInv
<1>3. Waits(Rev(c))
  BY <1>1 DEF OpenInv, AnswersAreAwaited
<1>4. current # None /\ handler[c].elem = current
  BY <1>1 DEF OpenInv, SerialInv, PointersAreCurrent, At, Holding, Labels
<1>5. State(c, Rev(c)).last_timestamp = LastTime(Rev(c))
  BY <1>4 DEF State, LastTime
<1> QED
  BY <1>2, <1>3, <1>4, <1>5 DEF OpenInv, WaitingIsRecent

(***************************************************************************)
(* Where the programs take turns, the time in an opening event is never    *)
(* that of an earlier flow over the same tuple: whatever time stamps the   *)
(* direction has had in between, it is the time of the packet that opened  *)
(* this flow, or a later one.                                              *)
(***************************************************************************)
THEOREM OpeningsAreOwn ==
  ASSUME Parallel = FALSE
  PROVE  FlowsSpec => OpeningTimeIsOwn
<1>1. OpenInv => [\A c \in CPUs : Opens(c) =>
                    State(c, Rev(c)).last_timestamp <= opener[Rev(c)]]_flowVars
  BY OpeningIsOwn
<1> QED
  BY <1>1, InitOpens, NextOpens, PTL DEF FlowsSpec, OpeningTimeIsOwn

-----------------------------------------------------------------------------
(* Plain data is time-stamped at its first edge. *)

(***************************************************************************)
(* TSvals are compared around the wrap of their type; those a run deals    *)
(* with lie within half of it, so that one of two is the newer one.        *)
(***************************************************************************)
WithinHalf ==
  \E base \in Int : \A i \in Ids : 2 * ((i - base) % IdMod) < IdMod

(* How far an identifier is from the first. *)
LEMMA AfterIsFarther ==
  ASSUME NEW base \in Int, \A i \in Ids : 2 * ((i - base) % IdMod) < IdMod,
         NEW a \in Ids, NEW b \in Ids
  PROVE  IsAfter(a, b) <=> (a - base) % IdMod > (b - base) % IdMod
<1> DEFINE m == IdMod
           x == (a - base) % m
           y == (b - base) % m
           p == (a - base) \div m
           q == (b - base) \div m
<1>1. m \in Nat \ {0} /\ a \in Int /\ b \in Int
  BY PPingAssumption
<1>2. /\ p \in Int /\ x \in 0 .. m - 1 /\ a - base = (m * p) + x
      /\ q \in Int /\ y \in 0 .. m - 1 /\ b - base = (m * q) + y
  <2>1. a - base \in Int /\ b - base \in Int
    BY <1>1
  <2>2. \A c \in Int : /\ c \div m \in Int /\ c % m \in 0 .. m - 1
                       /\ c = (m * (c \div m)) + (c % m)
    BY <1>1, QuotientAndRest
  <2> QED
    BY <2>1, <2>2
<1>3. 2 * x < m /\ 2 * y < m
  OBVIOUS
<1> HIDE DEF m, x, y, p, q
<1>4. /\ m * (p - q) = (m * p) - (m * q)
      /\ m * ((p - q) - 1) = (m * (p - q)) - (m * 1)
      /\ {m * p, m * q, m * (p - q), p - q, (p - q) - 1} \subseteq Int
  <2>1. p - q \in Int /\ (p - q) - 1 \in Int /\ m \in Int /\ 1 \in Int
    BY <1>1, <1>2
  <2> QED
    BY <1>1, <1>2, <2>1, Distribute
<1>5. a - b \in Int /\ a - b = (m * (p - q)) + (x - y)
  BY <1>1, <1>2, <1>4
<1>6. CASE x >= y
  <2>1. x - y \in 0 .. m - 1
    BY <1>1, <1>2, <1>6
  <2>2. (a - b) % m = x - y
    BY <1>1, <1>4, <1>5, <2>1, RestIsUnique
  <2>3. (x - y > 0 /\ 2 * (x - y) < m) <=> x > y
    BY <1>1, <1>2, <1>3, <1>6
  <2> QED
    BY <2>2, <2>3 DEF IsAfter, m, x, y
<1>7. CASE x < y
  <2>1. (m + x) - y \in 0 .. m - 1 /\ m * 1 = m
    BY <1>1, <1>2, <1>7
  <2>2. a - b = (m * ((p - q) - 1)) + ((m + x) - y)
    BY <1>1, <1>2, <1>4, <1>5, <2>1
  <2>3. (a - b) % m = (m + x) - y
    <3> DEFINE c == a - b
               k == (p - q) - 1
               r == (m + x) - y
    <3>1. c \in Int /\ k \in Int /\ r \in 0 .. m - 1 /\ c = (m * k) + r
      BY <1>4, <1>5, <2>1, <2>2
    <3> HIDE DEF c, k, r
    <3>2. c % m = r
      BY <1>1, <3>1, RestIsUnique
    <3> QED
      BY <3>2 DEF c, r
  <2>4. ~ (2 * ((m + x) - y) < m) /\ ~ (x > y)
    BY <1>1, <1>2, <1>3, <1>7
  <2> QED
    BY <2>3, <2>4 DEF IsAfter, m, x, y
<1> QED
  BY <1>2, <1>6, <1>7

LEMMA AfterIsOrder ==
  ASSUME WithinHalf, NEW a \in Ids, NEW b \in Ids, NEW c \in Ids
  PROVE  /\ ~ IsAfter(a, a)
         /\ ~ IsAfter(a, b) /\ IsAfter(c, b) => ~ IsAfter(a, c)
<1>1. PICK base \in Int : \A i \in Ids : 2 * ((i - base) % IdMod) < IdMod
  BY DEF WithinHalf
<1> DEFINE dist(i) == (i - base) % IdMod
<1>2. \A i \in Ids : dist(i) \in Int
  BY PPingAssumption, QuotientAndRest
<1>3. \A i, j \in Ids : IsAfter(i, j) <=> dist(i) > dist(j)
  BY <1>1, AfterIsFarther
<1> HIDE DEF dist
<1> QED
  BY <1>2, <1>3

-----------------------------------------------------------------------------
(* A handler at these labels has not looked at the state of its direction. *)
Looking(c) == handler[c].at \in {"lookup", "create", "find", "forward"}

(* It does so for a packet of direction d with identifier i. *)
LooksFor(c, d, i) == Looking(c) /\ Fw(c) = d /\ handler[c].pkt.pid = i

HistoryOK == carried \in [Dirs -> SUBSET Ids] /\ first \in [CPUs -> BOOLEAN]

(***************************************************************************)
(* In a direction that is in use, nothing that was carried is newer than   *)
(* last_id, unless it is the first packet with its identifier and is still *)
(* to be looked at; an empty direction has carried nothing else.           *)
(***************************************************************************)
Spent(d) ==
  LET s == mem[current][d] IN
  /\ is_flowstate_active(s) =>
       /\ s.last_id \in Ids
       /\ \A i \in carried[d] : \/ ~ IsAfter(i, s.last_id)
                                \/ \E c \in CPUs : LooksFor(c, d, i) /\ first[c]
  /\ s.conn_state = "EMPTY" =>
       \A i \in carried[d] : \E c \in CPUs : LooksFor(c, d, i)

NoneIsNewer == current # None => \A d \in Dirs : Spent(d)

(* What a handler knows of its packet. *)
Seen(c) ==
  LET p == handler[c].pkt IN
  /\ Looking(c) /\ p.pid # None =>
       /\ p.pid \in carried[Fw(c)]
       /\ p.event_type # "none" =>
            \A i \in carried[Fw(c)] : ~ IsAfter(i, p.pid)
  /\ At(c, "create") => p.pid # None
  /\ At(c, "stamp") /\ wait_first_edge(p) => first[c]

PacketsAreSeen == \A c \in CPUs : Seen(c)

EdgeInv ==
  /\ SerialInv /\ AnswersAreAwaited
  /\ HistoryOK /\ NoneIsNewer /\ PacketsAreSeen

(* The history of a step that brings no packet and creates no flow. *)
QuietHistory ==
  /\ carried' = carried
  /\ \A x \in CPUs : handler'[x].at # "idle" => first'[x] = first[x]

LEMMA HistoryIsQuiet ==
  ASSUME HistoryOK, RememberPackets,
         \A x \in CPUs : ~ Arrives(x) /\ ~ CreatesFlow(x)
  PROVE  HistoryOK' /\ QuietHistory
<1>1. \A x \in Dirs : carried'[x] = carried[x]
  BY DEF RememberPackets, HistoryOK
<1>2. carried' = carried
  BY <1>1 DEF RememberPackets, HistoryOK
<1>3. first' = [x \in CPUs |-> handler'[x].at # "idle" /\ first[x]]
  BY DEF RememberPackets
<1> QED
  BY <1>2, <1>3 DEF HistoryOK, QuietHistory

(* What a handler does not change while it looks for a flow. *)
KeepsLooking(x) ==
  Looking(x) => /\ Looking(x)'
                /\ handler'[x].pkt = handler[x].pkt
                /\ handler'[x].dir = handler[x].dir

(* A step that keeps what a handler compares. *)
LEMMA SpentStays ==
  ASSUME HistoryOK, NEW d \in Dirs, Spent(d), QuietHistory, UNCHANGED current,
         is_flowstate_active(mem'[current][d]) =>
           /\ is_flowstate_active(mem[current][d])
           /\ mem'[current][d].last_id = mem[current][d].last_id,
         mem'[current][d].conn_state = "EMPTY" =>
           mem[current][d].conn_state = "EMPTY",
         \A x \in CPUs : KeepsLooking(x) \/ (Looking(x) => Fw(x) # d)
  PROVE  Spent(d)'
<1>1. ASSUME NEW x \in CPUs, NEW i, LooksFor(x, d, i)
      PROVE  LooksFor(x, d, i)' /\ (first[x] => first'[x])
  BY <1>1 DEF LooksFor, KeepsLooking, QuietHistory, Looking, Fw
<1>2. carried'[d] = carried[d]
  BY DEF QuietHistory
<1>3. is_flowstate_active(mem'[current'][d]) =>
        /\ mem'[current'][d].last_id \in Ids
        /\ \A i \in carried'[d] :
             \/ ~ IsAfter(i, mem'[current'][d].last_id)
             \/ \E x \in CPUs : LooksFor(x, d, i)' /\ first'[x]
  BY <1>1, <1>2 DEF Spent
<1>4. mem'[current'][d].conn_state = "EMPTY" =>
        \A i \in carried'[d] : \E x \in CPUs : LooksFor(x, d, i)'
  BY <1>1, <1>2 DEF Spent
<1> QED
  BY <1>3, <1>4 DEF Spent, is_flowstate_active

(* Where a handler looks for the flow, and with which packet. *)
LEMMA SearchMoves ==
  ASSUME SerialInv, NEW c \in CPUs, Proceed(c)
  PROVE  /\ Looking(c)' =>
              /\ Looking(c) /\ ~ pping_forward(c)
              /\ handler'[c].pkt = handler[c].pkt
              /\ handler'[c].dir = handler[c].dir
         /\ At(c, "create")' => handler[c].pkt.pid # None
         /\ current # None /\ current' # None =>
              pping_forward(c) \/ KeepsLooking(c)
<1>1. handler[c] \in Busy /\ Idle.at = "idle"
  BY ProceedIsBusy DEF SerialInv, Idle
<1>2. Leave(c) => ~ Looking(c)'
  BY <1>1, LeaveMoves DEF SerialInv, Looking
<1>3. \A l \in Labels : Goto(c, l) =>
        /\ At(c, l)' /\ handler'[c].pkt = handler[c].pkt
        /\ handler'[c].dir = handler[c].dir
  BY <1>1, GotoMoves DEF SerialInv, At
<1>4. handler' = [handler EXCEPT ![c].at = "forward", ![c].elem = current] =>
        /\ At(c, "forward")' /\ handler'[c].pkt = handler[c].pkt
        /\ handler'[c].dir = handler[c].dir
  BY <1>1, FoundMoves DEF SerialInv, At
<1>5. CASE lookup_or_create_dualflow_state(c)
  BY <1>2, <1>3, <1>4, <1>5
     DEF lookup_or_create_dualflow_state, MayCreate, KeepsLooking, Looking, At, Labels,
         pping_forward
<1>6. CASE create_dualflow_state(c)
  <2>1. current = None
    BY <1>6 DEF create_dualflow_state, SerialInv, PointersAreCurrent
  <2>2. Leave(c) => ~ At(c, "create")'
    BY <1>2 DEF KeepsLooking, Looking, At
  <2> QED
    BY <1>2, <1>3, <1>6, <2>1, <2>2
       DEF create_dualflow_state, KeepsLooking, Looking, At, Labels, pping_forward
<1>7. CASE find_dualflow_state(c)
  BY <1>2, <1>3, <1>4, <1>7
     DEF find_dualflow_state, KeepsLooking, Looking, At, Labels, pping_forward
<1>8. CASE \/ pping_forward(c) \/ pping_stamp(c) \/ pping_count(c)
           \/ pping_reverse(c) \/ pping_open(c) \/ pping_match(c)
           \/ pping_delete(c) \/ pping_uncount(c) \/ pping_report(c)
           \/ close_flows(c) \/ delete_flows(c)
  <2>1. \/ Leave(c)
        \/ \E l \in Labels \ {"lookup", "create", "find", "forward"} : Goto(c, l)
    BY <1>8 DEF pping_forward, pping_stamp, pping_count, pping_reverse,
       pping_open, pping_match, pping_delete, pping_uncount, pping_report,
       close_flows, delete_flows, Labels
  <2>2. ~ Looking(c)'
    BY <1>2, <1>3, <2>1 DEF KeepsLooking, Looking, At
  <2>3. Looking(c) => pping_forward(c)
    BY <1>8 DEF KeepsLooking, Looking, At, pping_stamp, pping_count, pping_reverse,
       pping_open, pping_match, pping_delete, pping_uncount, pping_report,
       close_flows, delete_flows
  <2> QED
    BY <2>2, <2>3 DEF KeepsLooking, Looking, At
<1> QED
  BY <1>5, <1>6, <1>7, <1>8 DEF Proceed

LEMMA ProceedHistory ==
  ASSUME SerialInv, HistoryOK, NEW c \in CPUs, Proceed(c), RememberPackets,
         ~ (create_dualflow_state(c) /\ current' # current)
  PROVE  HistoryOK' /\ QuietHistory
<1>1. /\ handler[c] \in Busy /\ Idle.at = "idle"
      /\ \A x \in CPUs \ {c} : handler[x] = Idle /\ handler'[x] = Idle
  BY ProceedIsBusy DEF SerialInv, Alone, Idle
<1>2. ~ Arrives(c)
  BY <1>1, IdleIsNoLabel DEF Arrives, At, Busy
<1>3. \A x \in CPUs \ {c} : ~ Arrives(x) /\ ~ CreatesFlow(x)
  BY <1>1 DEF Arrives, CreatesFlow, At
<1>4. ASSUME CreatesFlow(c)
      PROVE  FALSE
  <2>1. create_dualflow_state(c) /\ handler'[c].at # "idle"
    BY <1>4 DEF CreatesFlow, At, Proceed, lookup_or_create_dualflow_state,
       find_dualflow_state, pping_forward, pping_stamp, pping_count,
       pping_reverse, pping_open, pping_match, pping_delete, pping_uncount,
       pping_report, close_flows, delete_flows
  <2>2. ~ Leave(c)
    BY <1>1, <2>1, LeaveMoves DEF SerialInv
  <2>3. current = None /\ current' \in Elements
    BY <2>1, <2>2 DEF create_dualflow_state
  <2> QED
    BY <2>1, <2>3, PPingAssumption
<1>5. \A x \in CPUs : ~ Arrives(x) /\ ~ CreatesFlow(x)
  BY <1>2, <1>3, <1>4
<1> QED
  BY <1>5, HistoryIsQuiet

(* What the other steps leave of the states that packets are compared with. *)
KeepsEdge(x) ==
  LET s == mem[current][x]
      n == mem'[current][x]
  IN
  /\ is_flowstate_active(n) => is_flowstate_active(s) /\ n.last_id = s.last_id
  /\ n.conn_state = "EMPTY" => s.conn_state = "EMPTY"

LEMMA SameStateKeepsEdge ==
  ASSUME NEW x, \/ mem'[current][x] = mem[current][x]
                \/ /\ mem'[current][x].conn_state = mem[current][x].conn_state
                   /\ mem'[current][x].last_id = mem[current][x].last_id
  PROVE  KeepsEdge(x)
BY DEF KeepsEdge, is_flowstate_active

LEMMA StoresKeepEdge ==
  ASSUME SerialInv, AnswersAreAwaited, NEW c \in CPUs, Proceed(c),
         ~ pping_forward(c), current # None, current' # None
  PROVE  \A x \in Dirs : KeepsEdge(x)
<1>1. PICK d \in Dirs, o \in Dirs :
        d = Fw(c) /\ o = Rev(c) /\ \A x \in Dirs : x = d \/ x = o
  BY ProceedDirs DEF SerialInv
<1> USE <1>1
<1>2. UNCHANGED current /\ \A x \in Dirs : mem[current][x] \in FlowState
  BY FlowStays, FlowHasStates DEF SerialInv
<1>3. CASE \/ lookup_or_create_dualflow_state(c) \/ find_dualflow_state(c)
           \/ create_dualflow_state(c) \/ pping_stamp(c) \/ pping_reverse(c)
           \/ pping_match(c) \/ pping_delete(c) \/ delete_flows(c)
  <2>1. UNCHANGED mem
    BY <1>2, <1>3 DEF lookup_or_create_dualflow_state, create_dualflow_state,
       find_dualflow_state, pping_stamp, pping_reverse, pping_match,
       pping_delete, delete_flows
  <2> QED
    BY <2>1, SameStateKeepsEdge
<1>4. CASE pping_count(c)
  <2>1. /\ mem'[current][d] = Incremented(mem[current][d])
        /\ mem'[current][o] = mem[current][o]
    BY <1>4, CountStep
  <2>2. /\ mem'[current][d].conn_state = mem[current][d].conn_state
        /\ mem'[current][d].last_id = mem[current][d].last_id
    BY <1>2, <2>1, SmallStores
  <2> QED
    BY <1>1, <2>1, <2>2, SameStateKeepsEdge
<1>5. CASE pping_uncount(c) \/ pping_report(c)
  <2> DEFINE s == mem[current][o]
  <2>1. /\ mem'[current][d] = mem[current][d]
        /\ mem'[current][o] \in {Decremented(s), [s EXCEPT !.srtt = TRUE]}
    BY <1>5, AnswerStep
  <2>2. \A n \in {Decremented(s), [s EXCEPT !.srtt = TRUE]} :
          n.conn_state = s.conn_state /\ n.last_id = s.last_id
    <3>1. s \in FlowState
      BY <1>1, <1>2
    <3> HIDE DEF s
    <3> QED
      BY <3>1, SmallStores
  <2>3. /\ mem'[current][o].conn_state = mem[current][o].conn_state
        /\ mem'[current][o].last_id = mem[current][o].last_id
    BY <2>1, <2>2
  <2> QED
    BY <1>1, <2>1, <2>3, SameStateKeepsEdge
<1>6. CASE pping_open(c)
  <2>1. /\ mem'[current][o] = [mem[current][o] EXCEPT !.conn_state = "OPEN"]
        /\ mem'[current][d] = mem[current][d]
    BY <1>6, AnswerStep
  <2>2. mem'[current][o].conn_state = "OPEN"
        /\ mem'[current][o].last_id = mem[current][o].last_id
    BY <1>1, <1>2, <2>1 DEF FlowState
  <2>3. mem[current][o].conn_state = "WAITOPEN"
    BY <1>6 DEF pping_open, AnswersAreAwaited, Waits
  <2>4. KeepsEdge(o)
    BY <2>2, <2>3 DEF KeepsEdge, is_flowstate_active
  <2> QED
    BY <1>1, <2>1, <2>4, SameStateKeepsEdge
<1>7. CASE close_flows(c)
  <2>1. ASSUME NEW x \in Dirs
        PROVE  KeepsEdge(x)
    <3>1. mem'[current][x] \in
            {[mem[current][x] EXCEPT !.conn_state = "CLOSED"], mem[current][x]}
      BY <1>7, CloseStep
    <3>2. [mem[current][x] EXCEPT !.conn_state = "CLOSED"].conn_state = "CLOSED"
      BY <1>2 DEF FlowState
    <3>3. CASE mem'[current][x].conn_state = "CLOSED"
      BY <3>3 DEF KeepsEdge, is_flowstate_active
    <3> QED
      BY <3>1, <3>2, <3>3, SameStateKeepsEdge
  <2> QED
    BY <2>1
<1> QED
  BY <1>3, <1>4, <1>5, <1>6, <1>7 DEF Proceed

(* What pping_forward leaves in last_id, and when it goes on to time-stamp. *)
LEMMA ForwardEdge ==
  ASSUME SerialInv, NEW c \in CPUs, pping_forward(c)
  PROVE  LET p == handler[c].pkt
             s == mem[current][Fw(c)]
             n == mem'[current][Fw(c)]
             u == update_forward_flowstate(s, p, handler[c].time)
             fresh == s.conn_state = "EMPTY" /\ p.pid # None
         IN  /\ n.conn_state = u.conn_state
             /\ \/ ~ IsCandidate(u, p) /\ n.last_id = u.last_id /\ Goto(c, "reverse")
                \/ IsCandidate(u, p) /\ n.last_id = p.pid
             /\ fresh => u.conn_state = "WAITOPEN" /\ u.last_id = p.pid
             /\ ~ fresh => u = s
<1> DEFINE h == handler[c]
           s == mem[current][Fw(c)]
           u == update_forward_flowstate(s, h.pkt, h.time)
           stamped == [u EXCEPT !.last_id = h.pkt.pid,
                                !.has_been_timestamped = TRUE,
                                !.last_timestamp = h.time]
           n == mem'[current][Fw(c)]
<1>1. Proceed(c) /\ h.at \in Holding /\ UNCHANGED current
  BY DEF Proceed, pping_forward, At, Holding, Labels
<1>2. h \in Busy /\ h.pkt \in Packets /\ h.time \in Age
  BY <1>1, ProceedIsBusy DEF SerialInv, Busy
<1>3. State(c, Fw(c)) = s /\ s \in FlowState
  BY <1>1, HandlerHolds
<1>4. \/ ~ IsCandidate(u, h.pkt) /\ SetState(c, Fw(c), u) /\ Goto(c, "reverse")
      \/ IsCandidate(u, h.pkt) /\ SetState(c, Fw(c), Limited(u, h.pkt))
      \/ IsCandidate(u, h.pkt) /\ SetState(c, Fw(c), stamped)
  BY <1>3 DEF pping_forward
<1>5. u \in FlowState
  BY <1>2, <1>3, ForwardType
<1>6. \A v : SetState(c, Fw(c), v) => n = v
  BY <1>1, HandlerHolds, HolderStores
<1>7. /\ n.conn_state = u.conn_state
      /\ \/ ~ IsCandidate(u, h.pkt) /\ n.last_id = u.last_id /\ Goto(c, "reverse")
         \/ IsCandidate(u, h.pkt) /\ n.last_id = h.pkt.pid
  <2> HIDE DEF u, n
  <2>1. /\ Limited(u, h.pkt).conn_state = u.conn_state
        /\ Limited(u, h.pkt).last_id = h.pkt.pid
        /\ stamped.conn_state = u.conn_state /\ stamped.last_id = h.pkt.pid
    BY <1>5 DEF Limited, FlowState
  <2> HIDE DEF stamped
  <2> QED
    BY <1>4, <1>6, <2>1
<1>8. /\ ~ (s.conn_state = "EMPTY" /\ h.pkt.pid # None) => u = s
      /\ s.conn_state = "EMPTY" /\ h.pkt.pid # None =>
           u.conn_state = "WAITOPEN" /\ u.last_id = h.pkt.pid
  BY <1>3 DEF update_forward_flowstate, init_flowstate, FlowState
<1> QED
  BY <1>7, <1>8

(* The comparison of an identifier with last_id, for TCP. *)
LEMMA ForwardSpends ==
  ASSUME WithinHalf, Proto = "tcp", EdgeInv, NEW c \in CPUs, pping_forward(c),
         RememberPackets, NEW d \in Dirs, d = Fw(c)
  PROVE  Spent(d)' /\ Seen(c)'
<1> DEFINE p == handler[c].pkt
           s == mem[current][d]
           n == mem'[current][d]
           u == update_forward_flowstate(s, p, handler[c].time)
           fresh == s.conn_state = "EMPTY" /\ p.pid # None
<1>1. /\ SerialInv /\ HistoryOK /\ Proceed(c)
      /\ Looking(c) /\ "forward" \in Holding /\ At(c, "forward")
      /\ UNCHANGED current
  BY DEF EdgeInv, Proceed, pping_forward, Looking, At, Holding, Labels
<1>2. current # None /\ s \in FlowState /\ handler[c] \in Busy
  BY <1>1, HandlerHolds, ProceedIsBusy DEF At, SerialInv
<1>3. p.pid \in Ids \union {None} /\ None \notin Ids /\ carried[d] \subseteq Ids
  BY <1>1, <1>2, BusyFields, PPingAssumption DEF OptionalId, HistoryOK
<1>4. /\ n.conn_state = u.conn_state
      /\ \/ ~ IsCandidate(u, p) /\ n.last_id = u.last_id /\ Goto(c, "reverse")
         \/ IsCandidate(u, p) /\ n.last_id = p.pid
      /\ fresh => u.conn_state = "WAITOPEN" /\ u.last_id = p.pid
      /\ ~ fresh => u = s
  BY <1>1, ForwardEdge
<1>5. /\ Goto(c, "reverse") \/ Goto(c, "stamp")
      /\ handler'[c].pkt = p /\ handler'[c].at \in {"reverse", "stamp"}
      /\ Goto(c, "reverse") => ~ At(c, "stamp")'
  <2>1. Goto(c, "reverse") \/ Goto(c, "stamp")
    BY DEF pping_forward
  <2>2. {"reverse", "stamp"} \subseteq Labels
    BY DEF Labels
  <2> QED
    BY <1>1, <1>2, <2>1, <2>2, GotoMoves DEF SerialInv, At
<1>6. QuietHistory
  BY <1>1, ProceedHistory DEF pping_forward, create_dualflow_state, At
<1>7. carried'[d] = carried[d] /\ first'[c] = first[c]
  BY <1>5, <1>6 DEF QuietHistory
<1>8. Spent(d) /\ Seen(c)
  BY <1>2 DEF EdgeInv, NoneIsNewer, PacketsAreSeen
<1>13. \A x \in CPUs, i \in Ids : LooksFor(x, d, i) => x = c /\ i = p.pid
  <2>1. \A x \in CPUs \ {c} : handler[x].at = "idle"
    BY <1>1, <1>2, IdleIsNoLabel DEF SerialInv, Alone, Busy, Idle
  <2> QED
    BY <2>1 DEF LooksFor, Looking
<1>9. \A i \in Ids : ~ IsAfter(i, i)
  BY AfterIsOrder
<1>10. IsCandidate(u, p) => p.pid \in Ids
  BY <1>3 DEF IsCandidate
<1> HIDE DEF u
<1>11. CASE fresh
  <2>1. n.conn_state = "WAITOPEN" /\ n.last_id = p.pid /\ p.pid \in Ids
    BY <1>3, <1>4, <1>11
  <2>2. \A i \in carried[d] : ~ IsAfter(i, n.last_id)
    BY <1>3, <1>8, <1>9, <1>11, <1>13, <2>1 DEF Spent
  <2>3. Spent(d)'
    BY <1>1, <1>7, <2>1, <2>2 DEF Spent, is_flowstate_active
  <2>4. At(c, "stamp")' => ~ wait_first_edge(p)
    <3>1. ~ IsAfter(p.pid, u.last_id)
      BY <1>4, <1>9, <1>11, <2>1
    <3> QED
      BY <1>4, <1>5, <3>1 DEF IsCandidate, is_new_identifier
  <2> QED
    BY <1>5, <2>3, <2>4 DEF Seen, Looking, At
<1>12. CASE ~ fresh
  <2>1. u = s /\ n.conn_state = s.conn_state
    BY <1>4, <1>12
  <2>2. ASSUME is_flowstate_active(s)
        PROVE  n.last_id \in Ids /\ \A i \in carried[d] : ~ IsAfter(i, n.last_id)
    <3>1. /\ s.last_id \in Ids
          /\ \A i \in carried[d] : ~ IsAfter(i, s.last_id) \/ i = p.pid
      BY <1>3, <1>8, <1>13, <2>2 DEF Spent
    <3>2. CASE ~ IsCandidate(s, p) /\ n.last_id = s.last_id
      <4>1. p.pid \in Ids => ~ IsAfter(p.pid, s.last_id)
        BY <1>3, <2>2, <3>2 DEF IsCandidate, is_new_identifier
      <4> QED
        BY <1>3, <3>1, <3>2, <4>1
    <3>3. CASE IsCandidate(s, p) /\ n.last_id = p.pid
      <4>1. p.pid \in Ids
        BY <1>3, <3>3 DEF IsCandidate
      <4>2. CASE IsAfter(p.pid, s.last_id)
        BY <1>3, <1>9, <3>1, <3>3, <4>1, <4>2, AfterIsOrder
      <4>3. CASE ~ wait_first_edge(p)
        <5>1. p.event_type # "none" /\ p.pid # None
          BY <1>3, <4>1, <4>3 DEF wait_first_edge
        <5> QED
          BY <1>1, <1>8, <3>3, <4>1, <5>1 DEF Seen
      <4> QED
        BY <3>3, <4>2, <4>3 DEF IsCandidate, is_new_identifier
    <3> QED
      BY <1>4, <2>1, <3>2, <3>3
  <2>3. s.conn_state = "EMPTY" => \A i \in carried[d] : FALSE
    BY <1>3, <1>8, <1>12, <1>13 DEF Spent
  <2>4. Spent(d)'
    <3>1. is_flowstate_active(n) => is_flowstate_active(s)
      BY <2>1 DEF is_flowstate_active
    <3>2. /\ is_flowstate_active(mem'[current'][d]) =>
               /\ mem'[current'][d].last_id \in Ids
               /\ \A i \in carried'[d] : ~ IsAfter(i, mem'[current'][d].last_id)
          /\ mem'[current'][d].conn_state = "EMPTY" =>
               \A i \in carried'[d] : FALSE
      BY <1>1, <1>7, <2>1, <2>2, <2>3, <3>1
    <3> QED
      BY <3>2 DEF Spent, is_flowstate_active
  <2>5. At(c, "stamp")' /\ wait_first_edge(p) => first[c]
    <3> SUFFICES ASSUME At(c, "stamp")', wait_first_edge(p)
                 PROVE  first[c]
      OBVIOUS
    <3>1. IsCandidate(s, p)
      BY <1>4, <1>5, <2>1
    <3>2. IsAfter(p.pid, s.last_id) /\ is_flowstate_active(s) /\ p.pid # None
      BY <3>1 DEF IsCandidate, is_new_identifier
    <3>3. p.pid \in carried[d]
      BY <1>1, <1>8, <3>2 DEF Seen
    <3> QED
      BY <1>3, <1>8, <1>9, <1>13, <3>2, <3>3 DEF Spent
  <2> QED
    BY <1>5, <1>7, <2>4, <2>5 DEF Seen, Looking, At
<1> QED
  BY <1>11, <1>12

(* A flow begins with one packet, which is the last of its direction. *)
LEMMA CreateSpends ==
  ASSUME WithinHalf, EdgeInv, NEW c \in CPUs, create_dualflow_state(c),
         current' # current, RememberPackets
  PROVE  HistoryOK' /\ NoneIsNewer' /\ PacketsAreSeen'
<1> DEFINE p == handler[c].pkt
<1>1. /\ SerialInv /\ HistoryOK /\ Proceed(c) /\ At(c, "create")
  BY DEF EdgeInv, Proceed, create_dualflow_state
<1>12. PICK d \in Dirs, o \in Dirs :
         d = Fw(c) /\ o = Rev(c) /\ o # d /\ \A x \in Dirs : x = d \/ x = o
  BY <1>1, ProceedDirs DEF SerialInv
<1> USE <1>12
<1>2. /\ handler[c] \in Busy /\ Idle.at = "idle"
      /\ \A x \in CPUs \ {c} : handler[x] = Idle /\ handler'[x] = Idle
  BY <1>1, ProceedIsBusy DEF SerialInv, Alone, Idle
<1>3. /\ Goto(c, "find")
      /\ mem'[current'][d] = init_flowstate(EmptyState, p, handler[c].time)
      /\ mem'[current'][o] = EmptyState
  BY <1>1, CreateStep
<1>4. /\ mem'[current'][d].conn_state = "WAITOPEN"
      /\ mem'[current'][d].last_id = p.pid
      /\ mem'[current'][o].conn_state = "EMPTY"
  BY <1>3 DEF init_flowstate, EmptyState
<1>5. handler'[c].at = "find" /\ handler'[c].pkt = p
      /\ handler'[c].dir = handler[c].dir
  BY <1>1, <1>2, <1>3, GotoMoves DEF SerialInv, Labels
<1>6. p.pid \in Ids
  <2>1. p.pid # None
    BY <1>1 DEF EdgeInv, PacketsAreSeen, Seen
  <2> QED
    BY <1>2, <2>1, BusyFields DEF OptionalId
<1>7. carried'[d] = {p.pid} /\ carried'[o] = {} /\ carried' \in [Dirs -> SUBSET Ids]
  <2>1. CreatesFlow(c) /\ \A x \in CPUs \ {c} : ~ CreatesFlow(x)
    BY <1>1, <1>2, <1>5 DEF CreatesFlow, At
  <2>2. carried' = [y \in Dirs |->
          {handler[x].pkt.pid : x \in {z \in CPUs : CreatesFlow(z) /\ Fw(z) = y}}]
    BY <2>1 DEF RememberPackets
  <2>3. /\ {x \in CPUs : CreatesFlow(x) /\ Fw(x) = d} = {c}
        /\ {x \in CPUs : CreatesFlow(x) /\ Fw(x) = o} = {}
    BY <2>1
  <2>4. carried'[d] = {p.pid} /\ carried'[o] = {}
    BY <2>2, <2>3
  <2> QED
    BY <1>6, <2>2, <2>4
<1>8. first' \in [CPUs -> BOOLEAN]
  <2>1. \A x \in CPUs : ~ Arrives(x)
    BY <1>2, <1>5 DEF Arrives, At
  <2>2. first' = [x \in CPUs |-> handler'[x].at # "idle" /\ first[x]]
    BY <1>1, <2>1 DEF RememberPackets
  <2> QED
    BY <1>1, <2>2 DEF HistoryOK
<1>9. ~ IsAfter(p.pid, p.pid)
  BY <1>6, AfterIsOrder
<1>10. Spent(d)' /\ Spent(o)'
  BY <1>4, <1>6, <1>7, <1>9 DEF Spent, is_flowstate_active
<1>11. \A x \in CPUs : Seen(x)'
  <2>1. \A x \in CPUs \ {c} : Seen(x)'
    BY <1>2 DEF Seen, Looking, At
  <2>2. Fw(c)' = d
    BY <1>5 DEF Fw
  <2>3. Seen(c)'
    BY <1>5, <1>7, <1>9, <2>2 DEF Seen, Looking, At
  <2> QED
    BY <2>1, <2>3
<1> QED
  BY <1>1, <1>7, <1>8, <1>10, <1>11
     DEF HistoryOK, NoneIsNewer, PacketsAreSeen

LEMMA ProceedEdge ==
  ASSUME WithinHalf, Proto = "tcp", EdgeInv, NEW c \in CPUs, Proceed(c), RememberPackets
  PROVE  EdgeInv'
<1>1. SerialInv /\ SerialInv' /\ HistoryOK /\ AnswersAreAwaited /\ AnswersAreAwaited'
  BY ProceedSerial, ProceedAwaits DEF EdgeInv
<1>6. PICK d \in Dirs, o \in Dirs :
        d = Fw(c) /\ o = Rev(c) /\ o # d /\ \A x \in Dirs : x = d \/ x = o
  BY <1>1, ProceedDirs DEF SerialInv
<1> USE <1>6
<1>2. /\ \A x \in CPUs \ {c} : handler[x] = Idle /\ handler'[x] = Idle
      /\ Idle.at = "idle"
  BY <1>1, ProceedIsBusy DEF SerialInv, Alone, Idle
<1>3. \A x \in CPUs \ {c} : ~ Looking(x) /\ Seen(x)' /\ KeepsLooking(x)
  BY <1>2 DEF Looking, Seen, At, KeepsLooking
<1>4. CASE create_dualflow_state(c) /\ current' # current
  BY <1>1, <1>4, CreateSpends DEF EdgeInv
<1>5. CASE ~ (create_dualflow_state(c) /\ current' # current)
  <2>1. HistoryOK' /\ QuietHistory
    BY <1>1, <1>5, ProceedHistory
  <2>2. CASE pping_forward(c)
    <3>1. Spent(d)' /\ Seen(c)'
      BY <2>2, ForwardSpends
    <3>2. current # None /\ UNCHANGED current
          /\ mem'[current][o] = mem[current][o]
      BY <1>1, <2>2, ForwardStep DEF pping_forward, SerialInv,
         PointersAreCurrent, At, Holding, Labels
    <3>3. Spent(o)
      BY <3>2 DEF EdgeInv, NoneIsNewer
    <3>4. Spent(o)'
      BY <1>1, <1>2, <1>3, <2>1, <3>2, <3>3, SpentStays
    <3> QED
      BY <1>1, <1>2, <1>3, <2>1, <3>1, <3>4
         DEF EdgeInv, NoneIsNewer, PacketsAreSeen
  <2>3. CASE ~ pping_forward(c)
    <3>1. /\ Looking(c)' => /\ Looking(c) /\ handler'[c].pkt = handler[c].pkt
                             /\ handler'[c].dir = handler[c].dir
          /\ At(c, "create")' => handler[c].pkt.pid # None
          /\ ~ At(c, "stamp")'
      BY <1>1, <2>3, SearchMoves, CameByGoto
    <3>2. Seen(c)'
      <4>1. Seen(c)
        BY DEF EdgeInv, PacketsAreSeen
      <4>2. At(c, "create")' => Looking(c)'
        BY DEF At, Looking
      <4> QED
        BY <2>1, <3>1, <4>1, <4>2 DEF Seen, QuietHistory, Fw
    <3>3. NoneIsNewer'
      <4>1. CASE current' = None
        BY <4>1 DEF NoneIsNewer
      <4>2. CASE current = None /\ current' # None
        BY <1>5, <4>2 DEF Proceed, lookup_or_create_dualflow_state,
           find_dualflow_state, pping_forward, pping_stamp, pping_count,
           pping_reverse, pping_open, pping_match, pping_delete, pping_uncount,
           pping_report, close_flows, delete_flows
      <4>3. CASE current # None /\ current' # None
        <5>1. UNCHANGED current /\ \A x \in Dirs : KeepsEdge(x)
          BY <1>1, <2>3, <4>3, FlowStays, StoresKeepEdge
        <5>2. KeepsLooking(c)
          BY <1>1, <2>3, <4>3, SearchMoves
        <5>3. ASSUME NEW x \in Dirs
              PROVE  Spent(x)'
          <6>1. Spent(x)
            BY <4>3 DEF EdgeInv, NoneIsNewer
          <6>2. \A y \in CPUs : KeepsLooking(y)
            BY <1>3, <5>2
          <6>3. KeepsEdge(x)
            BY <5>1
          <6> QED
            BY <1>1, <2>1, <5>1, <6>1, <6>2, <6>3, SpentStays DEF KeepsEdge
        <5> QED
          BY <5>3 DEF NoneIsNewer
      <4> QED
        BY <4>1, <4>2, <4>3
    <3> QED
      BY <1>1, <1>2, <1>3, <2>1, <3>2, <3>3 DEF EdgeInv, PacketsAreSeen
  <2> QED
    BY <2>2, <2>3
<1> QED
  BY <1>4, <1>5

(* Steps that move no handler and compare nothing. *)
LEMMA IdleEdge ==
  ASSUME EdgeInv, SerialInv', AnswersAreAwaited', HistoryOK', QuietHistory,
         \A x \in CPUs : /\ handler'[x].at = handler[x].at
                         /\ \/ /\ handler'[x].pkt = handler[x].pkt
                               /\ handler'[x].dir = handler[x].dir
                            \/ handler[x].at = "idle",
         current' # None => UNCHANGED current /\ \A x \in Dirs : KeepsEdge(x)
  PROVE  EdgeInv'
<1>1. \A x \in CPUs : KeepsLooking(x) /\ (Looking(x)' <=> Looking(x))
  BY DEF Looking, KeepsLooking
<1>3. NoneIsNewer'
  <2> SUFFICES ASSUME current' # None, NEW x \in Dirs
               PROVE  Spent(x)'
    BY DEF NoneIsNewer
  <2>1. HistoryOK /\ Spent(x) /\ KeepsEdge(x) /\ UNCHANGED current
    BY DEF EdgeInv, NoneIsNewer
  <2> QED
    BY <1>1, <2>1, SpentStays DEF KeepsEdge
<1>4. PacketsAreSeen'
  <2> SUFFICES ASSUME NEW x \in CPUs
               PROVE  Seen(x)'
    BY DEF PacketsAreSeen
  <2>1. Seen(x) /\ carried' = carried
        /\ (handler'[x].at # "idle" => first'[x] = first[x])
    BY DEF EdgeInv, PacketsAreSeen, QuietHistory
  <2> QED
    BY <1>1, <2>1 DEF Seen, At, KeepsLooking, Looking, Fw
<1> QED
  BY <1>3, <1>4 DEF EdgeInv

LEMMA CleanEdge ==
  ASSUME Parallel = FALSE, EdgeInv, Clean, RememberPackets
  PROVE  EdgeInv'
<1>1. SerialInv /\ SerialInv' /\ HistoryOK
  BY CleanSerial DEF EdgeInv
<1>2. UNCHANGED handler /\ \A x \in CPUs : handler[x] = Idle
  BY <1>1, CleanerIsAlone
<1>3. \A x \in CPUs : handler[x].at = "idle" /\ handler'[x].at = "idle"
  BY <1>2 DEF Idle
<1>4. AnswersAreAwaited'
  BY <1>3 DEF AnswersAreAwaited, At
<1>5. HistoryOK' /\ QuietHistory
  BY <1>1, <1>3, HistoryIsQuiet DEF Arrives, CreatesFlow, At
<1>6. ASSUME current' # None
      PROVE  UNCHANGED current /\ \A x \in Dirs : KeepsEdge(x)
  <2>1. UNCHANGED current /\ current # None
    BY <1>6 DEF Clean, tsmap_cleanup, tsmap_delete, tsmap_uncount,
                flowmap_cleanup, flowmap_delete
  <2>2. CASE tsmap_uncount
    <3>1. PICK c \in Dirs :
            /\ mem'[current][c] = Decremented(mem[current][c])
            /\ mem'[current][Other(c)] = mem[current][Other(c)]
      BY <1>1, <2>2, TsUncountStep
    <3>2. /\ mem'[current][c].conn_state = mem[current][c].conn_state
          /\ mem'[current][c].last_id = mem[current][c].last_id
      BY <1>1, <2>1, <3>1, FlowHasStates, SmallStores DEF SerialInv
    <3> QED
      BY <2>1, <3>1, <3>2, SameStateKeepsEdge, DirsArePaired
  <2>3. CASE ~ tsmap_uncount
    BY <2>1, <2>3, SameStateKeepsEdge DEF Clean, tsmap_cleanup, tsmap_delete,
       flowmap_cleanup, flowmap_delete
  <2> QED
    BY <2>2, <2>3
<1> QED
  BY <1>1, <1>3, <1>4, <1>5, <1>6, IdleEdge

LEMMA TickEdge ==
  ASSUME EdgeInv, Tick, RememberPackets
  PROVE  EdgeInv'
<1>1. SerialInv /\ SerialInv' /\ HistoryOK /\ TypeOK /\ UNCHANGED current
  BY TickSerial DEF EdgeInv, SerialInv, Tick
<1>2. \A x \in CPUs : /\ handler'[x].at = handler[x].at
                      /\ \/ /\ handler'[x].pkt = handler[x].pkt
                            /\ handler'[x].dir = handler[x].dir
                         \/ handler[x] = Idle
  BY <1>1, TickMoves
<1>3. \A x \in CPUs : ~ Arrives(x) /\ ~ CreatesFlow(x)
  BY <1>2 DEF Arrives, CreatesFlow, At
<1>4. HistoryOK' /\ QuietHistory
  BY <1>1, <1>3, HistoryIsQuiet
<1>5. current # None => \A x \in Dirs :
        /\ mem'[current][x].conn_state = mem[current][x].conn_state
        /\ mem'[current][x].last_id = mem[current][x].last_id
  BY <1>1, TickStep
<1>6. AnswersAreAwaited'
  <2>1. \A x \in CPUs : At(x, "open") =>
          /\ current # None /\ handler[x] # Idle
          /\ Rev(x)' = Rev(x) /\ Rev(x) \in Dirs
    <3> SUFFICES ASSUME NEW x \in CPUs, At(x, "open")
                 PROVE  /\ current # None /\ handler[x] # Idle
                        /\ Rev(x)' = Rev(x) /\ Rev(x) \in Dirs
      OBVIOUS
    <3>1. current # None
      BY <1>1 DEF SerialInv, PointersAreCurrent, At, Holding, Labels
    <3>2. handler[x] \in Busy /\ handler[x] # Idle
      BY <1>1, AtIsBusy, IdleIsNoLabel DEF At, Labels, Idle
    <3> QED
      BY <1>2, <3>1, <3>2, HandlerDirs DEF Rev
  <2> QED
    BY <1>1, <1>2, <1>5, <2>1
       DEF EdgeInv, AnswersAreAwaited, Waits, At
<1>7. current # None => \A x \in Dirs : KeepsEdge(x)
  BY <1>5, SameStateKeepsEdge
<1>8. Idle.at = "idle"
  BY DEF Idle
<1> QED
  BY <1>1, <1>2, <1>4, <1>6, <1>7, <1>8, IdleEdge

(* A packet arrives: the first with its identifier, or one of those before. *)
LEMMA ArriveEdge ==
  ASSUME WithinHalf, Parallel = FALSE, EdgeInv, NEW c \in CPUs, NEW d \in Dirs,
         NEW p \in Packets, Arrive(c, d, p), IsOrdered(d, handler'[c].pkt), RememberPackets
  PROVE  EdgeInv'
<1>1. SerialInv /\ SerialInv' /\ HistoryOK
  BY ArriveSerial DEF EdgeInv
<1>2. /\ \A x \in CPUs : handler[x] = Idle
      /\ \A x \in CPUs \ {c} : handler'[x] = Idle
      /\ handler'[c].at = "lookup" /\ handler'[c].pkt = p
      /\ handler'[c].dir = d
      /\ UNCHANGED <<current, mem>>
  BY <1>1 DEF Arrive, MayStart, Running, SerialInv, TypeOK
<1>3. Idle.at = "idle"
  BY DEF Idle
<1>4. /\ \A x \in CPUs : handler[x].at = "idle" /\ ~ CreatesFlow(x)
      /\ \A x \in CPUs \ {c} : handler'[x].at = "idle" /\ ~ Arrives(x)
      /\ Arrives(c)
  BY <1>2, <1>3 DEF CreatesFlow, Arrives, At
<1>5. AnswersAreAwaited'
  <2>1. \A x \in CPUs : handler'[x].at \in {"idle", "lookup"}
    BY <1>2, <1>4
  <2> QED
    BY <2>1 DEF AnswersAreAwaited, At
<1>6. p.pid \in Ids \union {None}
  BY PacketFields DEF OptionalId
<1>7. /\ carried'[d] = carried[d] \union ({p.pid} \ {None})
      /\ \A x \in Dirs : x # d => carried'[x] = carried[x]
      /\ (first'[c] <=> p.pid \notin carried[d])
      /\ HistoryOK'
  <2> DEFINE Those(y) == {x \in CPUs : Arrives(x) /\ handler'[x].dir = y}
             Pids(y) == {handler'[x].pkt.pid : x \in Those(y)}
  <2>1. carried' = [y \in Dirs |-> carried[y] \union (Pids(y) \ {None})]
    BY <1>4 DEF RememberPackets
  <2>8. Those(d) = {c} /\ \A y \in Dirs : y # d => Those(y) = {}
    BY <1>2, <1>4
  <2>9. Pids(d) = {p.pid} /\ \A y \in Dirs : y # d => Pids(y) = {}
    <3> HIDE DEF Those
    <3> QED
      BY <1>2, <2>8
  <2> HIDE DEF Pids
  <2>2. first' = [x \in CPUs |->
                    IF Arrives(x)
                      THEN handler'[x].pkt.pid \notin carried[handler'[x].dir]
                      ELSE handler'[x].at # "idle" /\ first[x]]
    BY DEF RememberPackets
  <2>3. carried'[d] = carried[d] \union ({p.pid} \ {None})
    BY <2>1, <2>9
  <2>4. \A x \in Dirs : x # d => carried'[x] = carried[x]
    BY <2>1, <2>9
  <2>5. (first'[c] <=> p.pid \notin carried[d])
    BY <1>2, <1>4, <2>2
  <2>6. carried' \in [Dirs -> SUBSET Ids]
    <3>1. \A x \in Dirs : carried'[x] \in SUBSET Ids
      BY <1>1, <1>6, <2>3, <2>4 DEF HistoryOK
    <3> QED
      BY <2>1, <3>1
  <2>7. first' \in [CPUs -> BOOLEAN]
    BY <1>1, <2>2 DEF HistoryOK
  <2> QED
    BY <2>3, <2>4, <2>5, <2>6, <2>7 DEF HistoryOK
<1>8. NoneIsNewer'
  <2> SUFFICES ASSUME current # None, NEW x \in Dirs
               PROVE  Spent(x)'
    BY <1>2 DEF NoneIsNewer
  <2>1. /\ Spent(x)
        /\ \A y \in CPUs : \A i : ~ LooksFor(y, x, i)
    BY <1>4 DEF EdgeInv, NoneIsNewer, Looking, LooksFor
  <2>2. CASE x = d
    <3>2. ASSUME NEW i \in carried'[d]
          PROVE  i \in carried[d] \/ (LooksFor(c, d, i)' /\ first'[c])
      <4>1. i \in carried[d] \/ i = p.pid
        BY <1>7
      <4>2. i \in carried[d] \/ LooksFor(c, d, i)'
        BY <1>2, <4>1 DEF Looking, LooksFor, Fw
      <4>3. p.pid \notin carried[d] => first'[c]
        BY <1>7
      <4> QED
        BY <1>7, <4>1, <4>2, <4>3
    <3>3. \A i \in carried[d] : i \in carried'[d]
      BY <1>7
    <3>4. is_flowstate_active(mem[current][d]) =>
            /\ mem[current][d].last_id \in Ids
            /\ \A i \in carried[d] : ~ IsAfter(i, mem[current][d].last_id)
      BY <2>1, <2>2 DEF Spent
    <3>5. mem[current][d].conn_state = "EMPTY" => carried[d] = {}
      BY <2>1, <2>2 DEF Spent
    <3>6. \A i \in carried'[d] :
            \/ i \in carried[d]
            \/ LooksFor(c, d, i)' /\ first'[c]
      BY <3>2
    <3>7. mem' = mem /\ current' = current
      BY <1>2
    <3>8. is_flowstate_active(mem[current][d]) =>
            \A i \in carried'[d] :
              \/ ~ IsAfter(i, mem[current][d].last_id)
              \/ \E y \in CPUs : LooksFor(y, d, i)' /\ first'[y]
      BY <3>4, <3>6
    <3>9. mem[current][d].conn_state = "EMPTY" =>
            \A i \in carried'[d] : \E y \in CPUs : LooksFor(y, d, i)'
      BY <3>5, <3>6
    <3> QED
      BY <2>2, <3>4, <3>7, <3>8, <3>9 DEF Spent
  <2>3. CASE x # d
    BY <1>2, <1>7, <2>1, <2>3 DEF Spent
  <2> QED
    BY <2>2, <2>3
<1>9. PacketsAreSeen'
  <2>1. \A x \in CPUs \ {c} : Seen(x)'
    BY <1>4 DEF Seen, Looking, At
  <2>2. Seen(c)'
    <3>1. ASSUME p.pid # None
          PROVE  /\ p.pid \in carried'[d] /\ ~ IsAfter(p.pid, p.pid)
                 /\ p.event_type # "none" =>
                      \A i \in carried[d] : ~ IsAfter(i, p.pid)
      BY <1>2, <1>6, <1>7, <3>1, AfterIsOrder DEF IsOrdered
    <3>4. Fw(c)' = d
      BY <1>2 DEF Fw
    <3>2. ~ At(c, "create")' /\ ~ At(c, "stamp")'
      BY <1>2 DEF At
    <3>3. p.pid # None /\ p.event_type # "none" =>
            \A i \in carried'[d] : ~ IsAfter(i, p.pid)
      BY <1>7, <3>1
    <3> QED
      BY <1>2, <3>1, <3>2, <3>3, <3>4 DEF Seen
  <2> QED
    BY <2>1, <2>2 DEF PacketsAreSeen
<1> QED
  BY <1>1, <1>5, <1>7, <1>8, <1>9 DEF EdgeInv

LEMMA NextEdge ==
  ASSUME WithinHalf, Parallel = FALSE, Proto = "tcp", EdgeInv,
         [SamplesNext]_sampleVars
  PROVE  EdgeInv'
<1>1. CASE SamplesNext
  <2>1. RememberPackets /\ \A c \in CPUs :
          Arrives(c) => IsOrdered(handler'[c].dir, handler'[c].pkt)
    BY <1>1 DEF SamplesNext
  <2>2. CASE \E c \in CPUs, d \in Dirs, p \in Packets : Arrive(c, d, p)
    <3>1. PICK c \in CPUs, d \in Dirs, p \in Packets : Arrive(c, d, p)
      BY <2>2
    <3>2. Arrives(c) /\ handler'[c].dir = d
      BY <3>1 DEF Arrive, Arrives, EdgeInv, SerialInv, TypeOK
    <3> QED
      BY <2>1, <3>1, <3>2, ArriveEdge
  <2> QED
    BY <1>1, <2>1, <2>2, ProceedEdge, CleanEdge, TickEdge
       DEF SamplesNext, Next, Step
<1>2. CASE UNCHANGED sampleVars
  <2>1. UNCHANGED <<current, mem, handler, carried, first>>
    BY <1>2 DEF sampleVars, vars
  <2>2. SerialInv'
    BY <1>2, StutterSerial DEF EdgeInv, sampleVars
  <2> QED
    BY <2>1, <2>2 DEF EdgeInv, AnswersAreAwaited, Waits, HistoryOK, NoneIsNewer,
       PacketsAreSeen, Spent, Seen, LooksFor, Looking, At, Fw, Rev
<1> QED
  BY <1>1, <1>2

LEMMA InitEdge == SamplesInit => EdgeInv
<1> SUFFICES ASSUME SamplesInit PROVE EdgeInv
  OBVIOUS
<1>1. SerialInv /\ current = None /\ \A c \in CPUs : handler[c] = Idle
  BY InitSerial DEF SamplesInit, Init
<1>2. Idle.at = "idle"
  BY DEF Idle
<1>3. HistoryOK
  BY DEF SamplesInit, HistoryOK
<1> QED
  BY <1>1, <1>2, <1>3 DEF EdgeInv, AnswersAreAwaited, NoneIsNewer,
     PacketsAreSeen, Seen, Looking, At

(***************************************************************************)
(* For TCP, and where the programs take turns, plain data is time-stamped  *)
(* only with the first packet that carries its TSval: for any number of    *)
(* TSvals within half of their circle, wherever on it they lie, and        *)
(* however data is reordered and sent again.                               *)
(***************************************************************************)
THEOREM FirstEdges ==
  ASSUME WithinHalf, Parallel = FALSE, Proto = "tcp"
  PROVE  SamplesSpec => FirstEdgeOnly
<1>1. EdgeInv => [\A c \in CPUs :
                    Stamps(c) /\ wait_first_edge(handler[c].pkt) =>
                      first[c]]_sampleVars
  BY DEF EdgeInv, PacketsAreSeen, Seen, Stamps
<1> QED
  BY <1>1, InitEdge, NextEdge, PTL DEF SamplesSpec, FirstEdgeOnly
=============================================================================
